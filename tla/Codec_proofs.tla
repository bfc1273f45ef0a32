---------------------------- MODULE Codec_proofs -----------------------------
(***************************************************************************)
(* Proofs about the audio codec, for any calls of its setters, any rates a *)
(* session may have and any order of the tasks' steps.                     *)
(*                                                                         *)
(* RegistersHold: every setter stays within the bits of the registers that *)
(* are its own (EverySetter), so a call undoes no other one, and what a    *)
(* task sends is the register as it stands in the cache.                   *)
(*                                                                         *)
(* MicPath: the microphone's writes come one after the other, and until    *)
(* the last of them is sent the task that gave them is at a known place;   *)
(* the jack's and the volume's writes, which may come between any two of   *)
(* them, are to other registers or leave the microphone's bits alone.      *)
(*                                                                         *)
(* RateKept: whatever the tasks do to each other, the codec's rate is the  *)
(* one of what is played or recorded.                                      *)
(***************************************************************************)
EXTENDS Codec, SequenceTheorems, WellFoundedInduction, TLAPS

----------------------------------------------------------------------------
(* Functions given by recursion.                                           *)

\* Induction up to a number.
LEMMA UpTo ==
  ASSUME NEW N \in Nat, NEW T, 0 \in T, \A n \in 0..N - 1 : n \in T => n + 1 \in T
  PROVE  0..N \subseteq T
<1> DEFINE R == OpToRel(<, Nat)
           S == 0..N \ T
<1>1. IsWellFoundedOn(R, Nat)
  BY NatLessThanWellFounded
<1>2. \A x, y \in Nat : ~(<<y, x>> \in R) => x <= y
  BY DEF OpToRel
<1>3. SUFFICES ASSUME S # {} PROVE FALSE
  OBVIOUS
<1>4. S \subseteq Nat
  OBVIOUS
<1> HIDE DEF R, S
<1>5. PICK x \in S : \A y \in S : ~(<<y, x>> \in R)
  BY <1>1, <1>3, <1>4, WFMin
<1>6. x \in 0..N /\ x \notin T
  BY <1>5 DEF S
<1>7. x - 1 \in 0..N - 1 /\ x - 1 \in Nat
  BY <1>6
<1>8. x - 1 \notin S
  <2> SUFFICES ASSUME NEW y \in S, y = x - 1 PROVE FALSE
    OBVIOUS
  <2>1. x \in Nat /\ y \in Nat /\ ~(<<y, x>> \in R)
    BY <1>4, <1>5
  <2>2. x <= y
    BY <1>2, <2>1
  <2> QED BY <2>1, <2>2
<1>9. x - 1 \in T
  BY <1>7, <1>8 DEF S
<1>10. x - 1 + 1 \in T
  BY <1>7, <1>9
<1> QED BY <1>6, <1>10

\* A function of the first numbers may be given by its first value and a step.
Follows(f, N, base, step) == f[0] = base /\ \A n \in 1..N : f[n] = step[n][f[n - 1]]

\* Such a function exists, for any first value and any steps.
LEMMA ByRecursion ==
  ASSUME NEW S, NEW N \in Nat, NEW base \in S, NEW step \in [1..N -> [S -> S]]
  PROVE  \E f \in [0..N -> S] : Follows(f, N, base, step)
<1> DEFINE Fits(n, f) == f \in [0..n -> S] /\ f[0] = base /\ \A i \in 1..n : f[i] = step[i][f[i - 1]]
           T == {n \in 0..N : \E f : Fits(n, f)}
<1>1. 0 \in T
  <2>1. Fits(0, [i \in 0..0 |-> base])
    OBVIOUS
  <2> HIDE DEF Fits
  <2> QED BY <2>1
<1>2. ASSUME NEW n \in 0..N - 1, n \in T PROVE n + 1 \in T
  <2>1. PICK f : Fits(n, f)
    BY <1>2
  <2> DEFINE g == [i \in 0..n + 1 |-> IF i = n + 1 THEN step[n + 1][f[n]] ELSE f[i]]
  <2>2. n + 1 \in 1..N /\ n \in 0..n
    BY <1>2
  <2>3. f[n] \in S /\ step[n + 1][f[n]] \in S
    BY <2>1, <2>2
  <2>4. \A i \in 0..n + 1 : i = n + 1 \/ i \in 0..n
    BY <1>2
  <2>5. g \in [0..n + 1 -> S]
    BY <2>1, <2>3, <2>4
  <2>6. g[0] = base /\ g[n + 1] = step[n + 1][f[n]] /\ \A i \in 0..n : g[i] = f[i]
    BY <1>2, <2>1
  <2> HIDE DEF g
  <2>7. \A i \in 1..n + 1 : g[i] = step[i][g[i - 1]]
    <3> SUFFICES ASSUME NEW i \in 1..n + 1 PROVE g[i] = step[i][g[i - 1]]
      OBVIOUS
    <3>1. CASE i = n + 1
      BY <2>2, <2>6, <3>1
    <3>2. CASE i # n + 1
      <4>1. i \in 1..n /\ i \in 0..n /\ i - 1 \in 0..n
        BY <1>2, <3>2
      <4> QED BY <2>1, <2>6, <4>1
    <3> QED BY <3>1, <3>2
  <2>8. Fits(n + 1, g)
    BY <2>5, <2>6, <2>7
  <2> QED BY <2>2, <2>8
<1> HIDE DEF T
<1>3. \A n \in 0..N - 1 : n \in T => n + 1 \in T
  BY <1>2
<1>4. 0..N \subseteq T
  BY <1>1, <1>3, UpTo
<1>5. N \in T
  BY <1>4
<1> QED BY <1>5 DEF T, Follows

----------------------------------------------------------------------------
(* The registers of the codec: the bits of numbers.                        *)

\* Greater powers of two.
LEMMA PowersGrow ==
  /\ \A b \in 0..23 : 2^b \in Nat \ {0}
  /\ \A b, c \in 0..23 : b <= c => 2^b <= 2^c
<1> DEFINE power(b) == 2^b
<1>1. /\ power(0) = 1 /\ power(1) = 2 /\ power(2) = 4 /\ power(3) = 8 /\ power(4) = 16
      /\ power(5) = 32 /\ power(6) = 64 /\ power(7) = 128 /\ power(8) = 256 /\ power(9) = 512
      /\ power(10) = 1024 /\ power(11) = 2048 /\ power(12) = 4096 /\ power(13) = 8192
      /\ power(14) = 16384 /\ power(15) = 32768 /\ power(16) = 65536 /\ power(17) = 131072
      /\ power(18) = 262144 /\ power(19) = 524288 /\ power(20) = 1048576 /\ power(21) = 2097152
      /\ power(22) = 4194304 /\ power(23) = 8388608
  OBVIOUS
<1> HIDE DEF power
<1>2. \A b \in 0..23 : power(b) \in Nat \ {0}
  BY <1>1
<1>3. \A b \in 0..22 : power(b) <= power(b + 1)
  BY <1>1
<1>4. ASSUME NEW b \in 0..23 PROVE \A c \in 0..23 : b <= c => power(b) <= power(c)
  <2> DEFINE T == {n \in 0..23 - b : power(b) <= power(b + n)}
  <2>1. 0 \in T
    BY <1>2
  <2>2. \A n \in 0..23 - b - 1 : n \in T => n + 1 \in T
    <3> SUFFICES ASSUME NEW n \in 0..23 - b - 1, n \in T PROVE n + 1 \in T
      OBVIOUS
    <3>1. b + n \in 0..22 /\ b + n + 1 = b + (n + 1) /\ b + n \in 0..23 /\ b + (n + 1) \in 0..23
      OBVIOUS
    <3>2. power(b) <= power(b + n) /\ power(b + n) <= power(b + (n + 1))
      BY <1>3, <3>1
    <3>3. power(b) \in Nat /\ power(b + n) \in Nat /\ power(b + (n + 1)) \in Nat
      BY <1>2, <3>1
    <3>4. power(b) <= power(b + (n + 1)) /\ n + 1 \in 0..23 - b
      BY <3>2, <3>3
    <3> QED BY <3>4
  <2> HIDE DEF T
  <2>3. 0..23 - b \subseteq T
    BY <2>1, <2>2, UpTo
  <2> SUFFICES ASSUME NEW c \in 0..23, b <= c PROVE power(b) <= power(c)
    OBVIOUS
  <2>4. c - b \in 0..23 - b /\ b + (c - b) = c
    OBVIOUS
  <2>5. c - b \in T
    BY <2>3, <2>4
  <2>6. power(b) <= power(b + (c - b))
    BY <2>5 DEF T
  <2> QED BY <2>4, <2>6
<1> QED BY <1>2, <1>4 DEF power

\* The bits of a number below 2^w are w bits.
LEMMA BitsBelow ==
  ASSUME NEW w \in 0..23, NEW n \in Nat, n < 2^w, NEW k \in Nat
  PROVE  \A b \in Bits(n, k) : b \in Nat /\ k <= b /\ b < k + w
<1> DEFINE power(b) == 2^b
<1>1. ASSUME NEW b \in 0..23, (n \div 2^b) % 2 = 1 PROVE b < w
  <2> DEFINE p == power(b)
             q == power(w)
  <2>1. p \in Nat \ {0} /\ q \in Nat \ {0} /\ (w <= b => q <= p) /\ n < q
    BY PowersGrow
  <2>2. (n \div p) % 2 = 1
    BY <1>1
  <2> HIDE DEF p, q
  <2>3. SUFFICES ASSUME w <= b PROVE FALSE
    OBVIOUS
  <2>4. n < p
    BY <2>1, <2>3
  <2>5. n \div p = 0
    BY <2>1, <2>4
  <2> QED BY <2>2, <2>5
<1>2. ASSUME NEW c \in Bits(n, k) PROVE \E b \in 0..23 : (n \div 2^b) % 2 = 1 /\ c = b + k
  BY DEF Bits
<1> QED BY <1>1, <1>2

\* Numbers of the widths of the fields.
LEMMA FieldBits ==
  ASSUME NEW n \in Nat, NEW k \in Nat
  PROVE  /\ n < 2 => Bits(n, k) \subseteq {k}
         /\ n < 4 => Bits(n, k) \subseteq k..k + 1
         /\ n < 8 => Bits(n, k) \subseteq k..k + 2
         /\ n < 16 => Bits(n, k) \subseteq k..k + 3
         /\ n < 32 => Bits(n, k) \subseteq k..k + 4
         /\ n < 64 => Bits(n, k) \subseteq k..k + 5
         /\ n < 128 => Bits(n, k) \subseteq k..k + 6
         /\ n < 256 => Bits(n, k) \subseteq k..k + 7
         /\ n < 512 => Bits(n, k) \subseteq k..k + 8
         /\ Bits(n, k) \subseteq Nat
<1>1. 2^1 = 2 /\ 2^2 = 4 /\ 2^3 = 8 /\ 2^4 = 16 /\ 2^5 = 32 /\ 2^6 = 64 /\ 2^7 = 128 /\ 2^8 = 256
      /\ 2^9 = 512
  OBVIOUS
<1>2. ASSUME NEW w \in 0..23, n < 2^w, NEW b \in Bits(n, k)
      PROVE  b \in Nat /\ k <= b /\ b < k + w
  BY <1>2, BitsBelow
<1> DEFINE B == Bits(n, k)
           Within(w) == \A b \in B : b \in Nat /\ k <= b /\ b < k + w
<1>3. ASSUME n < 2 PROVE Within(1)
  <2>1. n < 2^1
    BY <1>1, <1>3
  <2> QED BY <1>2, <2>1
<1>4. ASSUME n < 4 PROVE Within(2)
  <2>1. n < 2^2
    BY <1>1, <1>4
  <2> QED BY <1>2, <2>1
<1>5. ASSUME n < 8 PROVE Within(3)
  <2>1. n < 2^3
    BY <1>1, <1>5
  <2> QED BY <1>2, <2>1
<1>6. ASSUME n < 16 PROVE Within(4)
  <2>1. n < 2^4
    BY <1>1, <1>6
  <2> QED BY <1>2, <2>1
<1>7. ASSUME n < 32 PROVE Within(5)
  <2>1. n < 2^5
    BY <1>1, <1>7
  <2> QED BY <1>2, <2>1
<1>8. ASSUME n < 64 PROVE Within(6)
  <2>1. n < 2^6
    BY <1>1, <1>8
  <2> QED BY <1>2, <2>1
<1>9. ASSUME n < 128 PROVE Within(7)
  <2>1. n < 2^7
    BY <1>1, <1>9
  <2> QED BY <1>2, <2>1
<1>10. ASSUME n < 256 PROVE Within(8)
  <2>1. n < 2^8
    BY <1>1, <1>10
  <2> QED BY <1>2, <2>1
<1>11. ASSUME n < 512 PROVE Within(9)
  <2>1. n < 2^9
    BY <1>1, <1>11
  <2> QED BY <1>2, <2>1
<1>12. B \subseteq Nat
  BY DEF Bits
<1> HIDE DEF B
<1>13. /\ n < 2 => B \subseteq {k}
       /\ n < 4 => B \subseteq k..k + 1
       /\ n < 8 => B \subseteq k..k + 2
       /\ n < 16 => B \subseteq k..k + 3
       /\ n < 32 => B \subseteq k..k + 4
  BY <1>3, <1>4, <1>5, <1>6, <1>7
<1>14. /\ n < 64 => B \subseteq k..k + 5
       /\ n < 128 => B \subseteq k..k + 6
       /\ n < 256 => B \subseteq k..k + 7
       /\ n < 512 => B \subseteq k..k + 8
  BY <1>8, <1>9, <1>10, <1>11
<1> QED BY <1>12, <1>13, <1>14 DEF B

\* The bit numbers of the header, of the first registers and of the signal paths.
LEMMA BitNumbers ==
  /\ Bit["BUFIOEN"] = 2 /\ Bit["BIASEN"] = 3 /\ Bit["MICBEN"] = 4 /\ Bit["PLLEN"] = 5
  /\ Bit["OUT3MIXEN"] = 6 /\ Bit["OUT4MIXEN"] = 7 /\ Bit["BUFDCOPEN"] = 8 /\ Bit["ADCENL"] = 0
  /\ Bit["ADCENR"] = 1 /\ Bit["INPPGAENL"] = 2 /\ Bit["INPPGAENR"] = 3 /\ Bit["BOOSTENL"] = 4
  /\ Bit["BOOSTENR"] = 5 /\ Bit["SLEEP"] = 6 /\ Bit["LOUT1EN"] = 7 /\ Bit["ROUT1EN"] = 8
  /\ Bit["DACENL"] = 0 /\ Bit["DACENR"] = 1 /\ Bit["LMIXEN"] = 2 /\ Bit["RMIXEN"] = 3
  /\ Bit["ROUT2EN"] = 5 /\ Bit["LOUT2EN"] = 6 /\ Bit["OUT3EN"] = 7 /\ Bit["OUT4EN"] = 8
  /\ Bit["LOOPBACK"] = 0 /\ Bit["MS"] = 0 /\ Bit["CLKSEL"] = 8 /\ Bit["SLOWCLKEN"] = 0
  /\ Bit["GPIO1POL"] = 3 /\ Bit["JD_EN"] = 6 /\ Bit["AMUTE"] = 2 /\ Bit["DACOSR"] = 3
  /\ Bit["SOFTMUTE"] = 6 /\ Bit["DACVU"] = 8 /\ Bit["ADCOSR128"] = 3 /\ Bit["HPFEN"] = 8
  /\ Bit["ADCVU"] = 8 /\ Bit["EQ3DMODE"] = 8 /\ Bit["EQ2BW"] = 8 /\ Bit["EQ3BW"] = 8
  /\ Bit["EQ4BW"] = 8 /\ Bit["LIMEN"] = 8 /\ Bit["NFEN"] = 7 /\ Bit["NFU"] = 8
  /\ Bit["NGATEN"] = 3 /\ Bit["PLLPRESCALE"] = 4
<1>1. /\ PowerBit["BUFIOEN"] = 2 /\ PowerBit["BIASEN"] = 3 /\ PowerBit["MICBEN"] = 4
      /\ PowerBit["PLLEN"] = 5 /\ PowerBit["OUT3MIXEN"] = 6 /\ PowerBit["OUT4MIXEN"] = 7
      /\ PowerBit["BUFDCOPEN"] = 8 /\ PowerBit["ADCENL"] = 0 /\ PowerBit["ADCENR"] = 1
      /\ PowerBit["INPPGAENL"] = 2 /\ PowerBit["INPPGAENR"] = 3 /\ PowerBit["BOOSTENL"] = 4
      /\ PowerBit["BOOSTENR"] = 5 /\ PowerBit["SLEEP"] = 6 /\ PowerBit["LOUT1EN"] = 7
      /\ PowerBit["ROUT1EN"] = 8 /\ PowerBit["DACENL"] = 0 /\ PowerBit["DACENR"] = 1
      /\ PowerBit["LMIXEN"] = 2 /\ PowerBit["RMIXEN"] = 3 /\ PowerBit["ROUT2EN"] = 5
      /\ PowerBit["LOUT2EN"] = 6 /\ PowerBit["OUT3EN"] = 7 /\ PowerBit["OUT4EN"] = 8
      /\ PowerBit["LOOPBACK"] = 0 /\ PowerBit["MS"] = 0 /\ PowerBit["CLKSEL"] = 8
      /\ PowerBit["SLOWCLKEN"] = 0 /\ PowerBit["GPIO1POL"] = 3 /\ PowerBit["JD_EN"] = 6
      /\ PowerBit["AMUTE"] = 2 /\ PowerBit["DACOSR"] = 3 /\ PowerBit["SOFTMUTE"] = 6
      /\ PowerBit["DACVU"] = 8 /\ PowerBit["ADCOSR128"] = 3 /\ PowerBit["HPFEN"] = 8
      /\ PowerBit["ADCVU"] = 8 /\ PowerBit["EQ3DMODE"] = 8 /\ PowerBit["EQ2BW"] = 8
      /\ PowerBit["EQ3BW"] = 8 /\ PowerBit["EQ4BW"] = 8 /\ PowerBit["LIMEN"] = 8
      /\ PowerBit["NFEN"] = 7 /\ PowerBit["NFU"] = 8 /\ PowerBit["NGATEN"] = 3
      /\ PowerBit["PLLPRESCALE"] = 4
  BY DEF PowerBit
<1>2. {"BUFIOEN", "BIASEN", "MICBEN", "PLLEN", "OUT3MIXEN", "OUT4MIXEN", "BUFDCOPEN", "ADCENL",
       "ADCENR", "INPPGAENL", "INPPGAENR", "BOOSTENL", "BOOSTENR", "SLEEP", "LOUT1EN", "ROUT1EN",
       "DACENL", "DACENR", "LMIXEN", "RMIXEN", "ROUT2EN", "LOUT2EN", "OUT3EN", "OUT4EN",
       "LOOPBACK", "MS", "CLKSEL", "SLOWCLKEN", "GPIO1POL", "JD_EN", "AMUTE", "DACOSR",
       "SOFTMUTE", "DACVU", "ADCOSR128", "HPFEN", "ADCVU", "EQ3DMODE", "EQ2BW", "EQ3BW", "EQ4BW",
       "LIMEN", "NFEN", "NFU", "NGATEN", "PLLPRESCALE"}
        \subseteq DOMAIN PowerBit
  BY DEF PowerBit
<1>3. \A n \in DOMAIN PowerBit : Bit[n] = PowerBit[n]
  BY DEF Bit, Beside
<1> QED BY <1>1, <1>2, <1>3

\* The bits of the path registers are bits of a word of nine.
LEMMA PathBitNumbers ==
  /\ Bit["BEEPEN"] = 0 /\ Bit["INVROUT2"] = 4 /\ Bit["MUTERPGA2INV"] = 5 /\ Bit["LIP2INPPGA"] = 0
  /\ Bit["LIN2INPPGA"] = 1 /\ Bit["L2_2INPPGA"] = 2 /\ Bit["RIP2INPPGA"] = 4
  /\ Bit["RIN2INPPGA"] = 5 /\ Bit["R2_2INPPGA"] = 6 /\ Bit["MBVSEL"] = 8 /\ Bit["INPPGAMUTEL"] = 6
  /\ Bit["INPPGAZCL"] = 7 /\ Bit["INPPGAUPDATE"] = 8 /\ Bit["INPPGAMUTER"] = 6
  /\ Bit["INPPGAZCR"] = 7 /\ Bit["PGABOOSTL"] = 8 /\ Bit["PGABOOSTR"] = 8 /\ Bit["VROI"] = 0
  /\ Bit["TSDEN"] = 1 /\ Bit["SPKBOOST"] = 2 /\ Bit["OUT3BOOST"] = 3 /\ Bit["OUT4BOOST"] = 4
  /\ Bit["DACL2LMIX"] = 0 /\ Bit["BYPL2LMIX"] = 1 /\ Bit["AUXL2LMIX"] = 5 /\ Bit["DACR2RMIX"] = 0
  /\ Bit["BYPR2RMIX"] = 1 /\ Bit["AUXR2RMIX"] = 5 /\ Bit["LOUT1MUTE"] = 6 /\ Bit["HPVU"] = 8
  /\ Bit["ROUT1MUTE"] = 6 /\ Bit["LOUT2MUTE"] = 6 /\ Bit["SPKVU"] = 8 /\ Bit["ROUT2MUTE"] = 6
  /\ Bit["LDAC2OUT3"] = 0 /\ Bit["LMIX2OUT3"] = 1 /\ Bit["BYPL2OUT3"] = 2 /\ Bit["OUT4_2OUT3"] = 3
  /\ Bit["OUT3MUTE"] = 6 /\ Bit["RDAC2OUT4"] = 0 /\ Bit["RMIX2OUT4"] = 1 /\ Bit["BYPL2OUT4"] = 2
  /\ Bit["LDAC2OUT4"] = 3 /\ Bit["LMIX2OUT4"] = 4 /\ Bit["OUT4MUTE"] = 6
<1>1. /\ PathBit["BEEPEN"] = 0 /\ PathBit["INVROUT2"] = 4 /\ PathBit["MUTERPGA2INV"] = 5
      /\ PathBit["LIP2INPPGA"] = 0 /\ PathBit["LIN2INPPGA"] = 1 /\ PathBit["L2_2INPPGA"] = 2
      /\ PathBit["RIP2INPPGA"] = 4 /\ PathBit["RIN2INPPGA"] = 5 /\ PathBit["R2_2INPPGA"] = 6
      /\ PathBit["MBVSEL"] = 8 /\ PathBit["INPPGAMUTEL"] = 6 /\ PathBit["INPPGAZCL"] = 7
      /\ PathBit["INPPGAUPDATE"] = 8 /\ PathBit["INPPGAMUTER"] = 6 /\ PathBit["INPPGAZCR"] = 7
      /\ PathBit["PGABOOSTL"] = 8 /\ PathBit["PGABOOSTR"] = 8 /\ PathBit["VROI"] = 0
      /\ PathBit["TSDEN"] = 1 /\ PathBit["SPKBOOST"] = 2 /\ PathBit["OUT3BOOST"] = 3
      /\ PathBit["OUT4BOOST"] = 4 /\ PathBit["DACL2LMIX"] = 0 /\ PathBit["BYPL2LMIX"] = 1
      /\ PathBit["AUXL2LMIX"] = 5 /\ PathBit["DACR2RMIX"] = 0 /\ PathBit["BYPR2RMIX"] = 1
      /\ PathBit["AUXR2RMIX"] = 5 /\ PathBit["LOUT1MUTE"] = 6 /\ PathBit["HPVU"] = 8
      /\ PathBit["ROUT1MUTE"] = 6 /\ PathBit["LOUT2MUTE"] = 6 /\ PathBit["SPKVU"] = 8
      /\ PathBit["ROUT2MUTE"] = 6 /\ PathBit["LDAC2OUT3"] = 0 /\ PathBit["LMIX2OUT3"] = 1
      /\ PathBit["BYPL2OUT3"] = 2 /\ PathBit["OUT4_2OUT3"] = 3 /\ PathBit["OUT3MUTE"] = 6
      /\ PathBit["RDAC2OUT4"] = 0 /\ PathBit["RMIX2OUT4"] = 1 /\ PathBit["BYPL2OUT4"] = 2
      /\ PathBit["LDAC2OUT4"] = 3 /\ PathBit["LMIX2OUT4"] = 4 /\ PathBit["OUT4MUTE"] = 6
  BY DEF PathBit
<1>2. {"BEEPEN", "INVROUT2", "MUTERPGA2INV", "LIP2INPPGA", "LIN2INPPGA", "L2_2INPPGA", "RIP2INPPGA",
       "RIN2INPPGA", "R2_2INPPGA", "MBVSEL", "INPPGAMUTEL", "INPPGAZCL", "INPPGAUPDATE",
       "INPPGAMUTER", "INPPGAZCR", "PGABOOSTL", "PGABOOSTR", "VROI", "TSDEN", "SPKBOOST",
       "OUT3BOOST", "OUT4BOOST", "DACL2LMIX", "BYPL2LMIX", "AUXL2LMIX", "DACR2RMIX", "BYPR2RMIX",
       "AUXR2RMIX", "LOUT1MUTE", "HPVU", "ROUT1MUTE", "LOUT2MUTE", "SPKVU", "ROUT2MUTE",
       "LDAC2OUT3", "LMIX2OUT3", "BYPL2OUT3", "OUT4_2OUT3", "OUT3MUTE", "RDAC2OUT4", "RMIX2OUT4",
       "BYPL2OUT4", "LDAC2OUT4", "LMIX2OUT4", "OUT4MUTE"}
        \subseteq DOMAIN PathBit
  BY DEF PathBit
<1>3. DOMAIN PowerBit \cap DOMAIN PathBit = {}
  BY DEF PowerBit, PathBit
<1>4. \A n \in DOMAIN PathBit : Bit[n] = PathBit[n]
  BY <1>3 DEF Bit, Beside
<1> QED BY <1>1, <1>2, <1>4

\* The setter that a bit of a register belongs to.
Owner(reg, b) ==
  CASE reg = 1 -> (CASE b \in {0, 1, 3} -> "VMID" [] b = 2 -> "BufIO" [] b = 4 -> "MicBias"
                     [] b = 5 -> "PLLEnable" [] b = 6 -> "OUT3MIXEnable" [] b = 7 -> "OUT4MIXEnable"
                     [] OTHER -> "SpkBoost")
    [] reg = 2 -> (CASE b \in {0, 1} -> "ADCEnable" [] b = 2 -> "InpPGAL" [] b = 3 -> "InpPGAR"
                     [] b = 4 -> "BoostL" [] b = 5 -> "BoostR" [] b = 6 -> "Sleep"
                     [] OTHER -> "OUT1Enable")
    [] reg = 3 -> (CASE b \in {0, 1} -> "DACEnable" [] b \in {2, 3} -> "MIXEnable"
                     [] b \in {5, 6} -> "OUT2Enable" [] b = 7 -> "OUT3Enable" [] OTHER -> "OUT4Enable")
    [] reg = 7 -> (IF b = 0 THEN "SlowClkEnable" ELSE "SampleRate")
    [] reg = 18 -> (IF b = 8 THEN "EQ3DMode" ELSE "EQ1")
    [] reg = 43 -> (IF b \in 0..3 THEN "BeepVol" ELSE "InvROUT2")
    [] reg = 44 -> (CASE b \in 0..2 -> "InpPGAL" [] b \in 4..6 -> "InpPGAR" [] OTHER -> "MicBias")
    [] reg = 49 -> (CASE b = 0 -> "BufIO" [] b = 1 -> "TSDEnable" [] b = 2 -> "SpkBoost"
                      [] b = 3 -> "OUT3Boost" [] OTHER -> "OUT4Boost")
    [] OTHER ->
         LET whole == << "", "", "", "I2SInterface", "Loopback", "ClockControl", "", "GPIO1", "JDSel",
                         "DACMode", "DACVolume", "DACVolume", "JDen", "ADCMode", "ADCVolume",
                         "ADCVolume", "", "", "EQ2", "EQ3", "EQ4", "EQ5", "", "DACLimiter",
                         "DACLimiter", "", "NotchFilter", "NotchFilter", "NotchFilter", "NotchFilter",
                         "", "ALCGain", "ALCMode", "ALCMode", "ALCNoiseGate", "PLLClock", "PLLClock",
                         "PLLClock", "PLLClock", "", "Depth3D", "", "", "", "PGAGainL", "PGAGainR",
                         "BoostL", "BoostR", "", "LeftMixer", "RightMixer", "LOUT1Volume",
                         "ROUT1Volume", "LOUT2Volume", "ROUT2Volume", "OUT3Mixer", "OUT4Mixer" >>
         IN  whole[reg]

----------------------------------------------------------------------------
(* The writes of a setter stay within its own bits.                        *)

WriteSet == [reg : Nat, keep : SUBSET Word, put : SUBSET Nat]

\* A write that changes bits of one setter only, and puts nothing where it keeps.
Fits(name, w) ==
  /\ w \in WriteSet /\ w.reg \in Registers
  /\ w.put \cap w.keep \cap NineBits = {}
  /\ w.reg \in {38, 39} => name = "PLLClock"
  /\ w.reg \notin {38, 39} => w.put \subseteq NineBits
  /\ \A b \in NineBits \ w.keep : Owner(w.reg, b) = name

\* The calls of a setter: no register is written twice.
CallsOf(name) ==
  {ws \in Seq(WriteSet) : /\ \A i \in DOMAIN ws : Fits(name, ws[i])
                          /\ \A i, j \in DOMAIN ws : ws[i].reg = ws[j].reg => i = j}

\* The two other registers of the PLL are the clock setter's.
LEMMA PLLOwners == Owner(38, 0) = "PLLClock" /\ Owner(39, 0) = "PLLClock"
BY DEF Owner

\* A write of a whole register is within the setter's bits when all nine are its own.
LEMMA PutFits ==
  ASSUME NEW name, NEW reg \in Registers, NEW bits \in SUBSET Nat,
         reg \notin {38, 39} => bits \subseteq NineBits, \A b \in NineBits : Owner(reg, b) = name
  PROVE  Fits(name, Put(reg, bits)) /\ Put(reg, bits).reg = reg
<1>1. reg \in {38, 39} => name = "PLLClock"
  <2>1. Owner(38, 0) = "PLLClock" /\ Owner(39, 0) = "PLLClock"
    BY PLLOwners
  <2>2. 0 \in NineBits
    BY DEF NineBits
  <2> QED BY <2>1, <2>2
<1> QED BY <1>1 DEF Fits, Put, WriteSet, Registers

\* A write of some bits is within the setter's bits when they are its own.
LEMMA ChangeFits ==
  ASSUME NEW name, NEW reg \in Registers, NEW cleared \in SUBSET NineBits, NEW bits \in SUBSET cleared,
         reg \notin {38, 39}, \A b \in cleared : Owner(reg, b) = name
  PROVE  Fits(name, Change(reg, cleared, bits)) /\ Change(reg, cleared, bits).reg = reg
BY DEF Fits, Change, WriteSet, Registers, NineBits, Word

\* The bits to set in a switch register are the ones of its table.
LEMMA OnFits ==
  ASSUME NEW f, \A x \in DOMAIN f : Bit[x] \in NineBits
  PROVE  On(f) \in SUBSET NineBits
BY DEF On

\* So is a write that switches some bits of a table.
LEMMA SwitchFits ==
  ASSUME NEW name, NEW reg \in Registers, reg \notin {38, 39}, NEW f,
         \A x \in DOMAIN f : Bit[x] \in NineBits /\ Owner(reg, Bit[x]) = name
  PROVE  Fits(name, Switch(reg, f)) /\ Switch(reg, f).reg = reg
<1>1. On(f) \in SUBSET {Bit[x] : x \in DOMAIN f} /\ {Bit[x] : x \in DOMAIN f} \in SUBSET NineBits
  BY DEF On
<1>2. \A b \in {Bit[x] : x \in DOMAIN f} : Owner(reg, b) = name
  OBVIOUS
<1> QED BY <1>1, <1>2, ChangeFits DEF Switch

\* A call of one, two or four such writes.
LEMMA OneWriteCall == ASSUME NEW name, NEW a, Fits(name, a) PROVE <<a>> \in CallsOf(name)
BY DEF CallsOf, Fits

LEMMA TwoWriteCall ==
  ASSUME NEW name, NEW a, NEW b, Fits(name, a), Fits(name, b), a.reg # b.reg
  PROVE  <<a, b>> \in CallsOf(name)
BY DEF CallsOf, Fits

LEMMA FourWriteCall ==
  ASSUME NEW name, NEW a, NEW b, NEW c, NEW d,
         Fits(name, a), Fits(name, b), Fits(name, c), Fits(name, d),
         a.reg # b.reg, a.reg # c.reg, a.reg # d.reg, b.reg # c.reg, b.reg # d.reg, c.reg # d.reg
  PROVE  <<a, b, c, d>> \in CallsOf(name)
BY DEF CallsOf, Fits

\* The bits that are named belong to a setter.
Ours(f, reg, name) == \A x \in DOMAIN f : Bit[x] \in NineBits /\ Owner(reg, Bit[x]) = name

\* A switch is a call of its setter.
LEMMA SwitchCall ==
  ASSUME NEW name, NEW reg \in Registers, reg \notin {38, 39}, NEW f, Ours(f, reg, name)
  PROVE  <<Switch(reg, f)>> \in CallsOf(name)
BY SwitchFits, OneWriteCall DEF Ours

\* The setters of a register's switches.
LEMMA PowerSwitches ==
  ASSUME NEW p, NEW q, NEW v
  PROVE  /\ Sleep(p) \in CallsOf("Sleep")
         /\ Loopback(p) \in CallsOf("Loopback")
         /\ PLLEnable(p) \in CallsOf("PLLEnable")
         /\ ADCEnable(p, q) \in CallsOf("ADCEnable")
         /\ ADCMode(v) \in CallsOf("ADCMode")
         /\ EQ3DMode(v) \in CallsOf("EQ3DMode")
         /\ DACEnable(p, q) \in CallsOf("DACEnable")
         /\ DACMode(v, p, q) \in CallsOf("DACMode")
         /\ OUT1Enable(p, q) \in CallsOf("OUT1Enable")
         /\ OUT2Enable(p, q) \in CallsOf("OUT2Enable")
         /\ OUT3Enable(p) \in CallsOf("OUT3Enable")
         /\ OUT4Enable(p) \in CallsOf("OUT4Enable")
         /\ MIXEnable(p, q) \in CallsOf("MIXEnable")
         /\ OUT3MIXEnable(p) \in CallsOf("OUT3MIXEnable")
         /\ OUT4MIXEnable(p) \in CallsOf("OUT4MIXEnable")
         /\ SlowClkEnable(p) \in CallsOf("SlowClkEnable")
<1>1. Ours([SLEEP |-> p], 2, "Sleep")
  BY BitNumbers DEF Ours, NineBits, Owner
<1>2. Ours([LOOPBACK |-> p], 5, "Loopback")
  BY BitNumbers DEF Ours, NineBits, Owner
<1>3. Ours([PLLEN |-> p], 1, "PLLEnable")
  BY BitNumbers DEF Ours, NineBits, Owner
<1>4. Ours([ADCENL |-> p, ADCENR |-> q], 2, "ADCEnable")
  BY BitNumbers DEF Ours, NineBits, Owner
<1>5. Ours([ADCOSR128 |-> v = 1], 14, "ADCMode")
  BY BitNumbers DEF Ours, NineBits, Owner
<1>6. Ours([EQ3DMODE |-> v = 1], 18, "EQ3DMode")
  BY BitNumbers DEF Ours, NineBits, Owner
<1>7. Ours([DACENL |-> p, DACENR |-> q], 3, "DACEnable")
  BY BitNumbers DEF Ours, NineBits, Owner
<1>8. Ours([DACOSR |-> v = 1, AMUTE |-> p, SOFTMUTE |-> q], 10, "DACMode")
  BY BitNumbers DEF Ours, NineBits, Owner
<1>9. Ours([LOUT1EN |-> p, ROUT1EN |-> q], 2, "OUT1Enable")
  BY BitNumbers DEF Ours, NineBits, Owner
<1>10. Ours([LOUT2EN |-> p, ROUT2EN |-> q], 3, "OUT2Enable")
  BY BitNumbers DEF Ours, NineBits, Owner
<1>11. Ours([OUT3EN |-> p], 3, "OUT3Enable")
  BY BitNumbers DEF Ours, NineBits, Owner
<1>12. Ours([OUT4EN |-> p], 3, "OUT4Enable")
  BY BitNumbers DEF Ours, NineBits, Owner
<1>13. Ours([LMIXEN |-> p, RMIXEN |-> q], 3, "MIXEnable")
  BY BitNumbers DEF Ours, NineBits, Owner
<1>14. Ours([OUT3MIXEN |-> p], 1, "OUT3MIXEnable")
  BY BitNumbers DEF Ours, NineBits, Owner
<1>15. Ours([OUT4MIXEN |-> p], 1, "OUT4MIXEnable")
  BY BitNumbers DEF Ours, NineBits, Owner
<1>16. Ours([SLOWCLKEN |-> p], 7, "SlowClkEnable")
  BY BitNumbers DEF Ours, NineBits, Owner
<1>17. {1, 2, 3, 5, 7, 10, 14, 18} \subseteq Registers
  BY DEF Registers
<1>18. Sleep(p) \in CallsOf("Sleep")
  BY <1>1, <1>17, SwitchCall DEF Sleep
<1>19. Loopback(p) \in CallsOf("Loopback")
  BY <1>2, <1>17, SwitchCall DEF Loopback
<1>20. PLLEnable(p) \in CallsOf("PLLEnable")
  BY <1>3, <1>17, SwitchCall DEF PLLEnable
<1>21. ADCEnable(p, q) \in CallsOf("ADCEnable")
  BY <1>4, <1>17, SwitchCall DEF ADCEnable
<1>22. ADCMode(v) \in CallsOf("ADCMode")
  BY <1>5, <1>17, SwitchCall DEF ADCMode
<1>23. EQ3DMode(v) \in CallsOf("EQ3DMode")
  BY <1>6, <1>17, SwitchCall DEF EQ3DMode
<1>24. DACEnable(p, q) \in CallsOf("DACEnable")
  BY <1>7, <1>17, SwitchCall DEF DACEnable
<1>25. DACMode(v, p, q) \in CallsOf("DACMode")
  BY <1>8, <1>17, SwitchCall DEF DACMode
<1>26. OUT1Enable(p, q) \in CallsOf("OUT1Enable")
  BY <1>9, <1>17, SwitchCall DEF OUT1Enable
<1>27. OUT2Enable(p, q) \in CallsOf("OUT2Enable")
  BY <1>10, <1>17, SwitchCall DEF OUT2Enable
<1>28. OUT3Enable(p) \in CallsOf("OUT3Enable")
  BY <1>11, <1>17, SwitchCall DEF OUT3Enable
<1>29. OUT4Enable(p) \in CallsOf("OUT4Enable")
  BY <1>12, <1>17, SwitchCall DEF OUT4Enable
<1>30. MIXEnable(p, q) \in CallsOf("MIXEnable")
  BY <1>13, <1>17, SwitchCall DEF MIXEnable
<1>31. OUT3MIXEnable(p) \in CallsOf("OUT3MIXEnable")
  BY <1>14, <1>17, SwitchCall DEF OUT3MIXEnable
<1>32. OUT4MIXEnable(p) \in CallsOf("OUT4MIXEnable")
  BY <1>15, <1>17, SwitchCall DEF OUT4MIXEnable
<1>33. SlowClkEnable(p) \in CallsOf("SlowClkEnable")
  BY <1>16, <1>17, SwitchCall DEF SlowClkEnable
<1> QED BY <1>18, <1>19, <1>20, <1>21, <1>22, <1>23, <1>24, <1>25, <1>26, <1>27, <1>28, <1>29, <1>30, <1>31, <1>32, <1>33

\* Those of the signal paths.
LEMMA PathSwitches ==
  ASSUME NEW p, NEW q, NEW r, NEW s, NEW t, NEW u
  PROVE  /\ OUT3Boost(p) \in CallsOf("OUT3Boost")
         /\ OUT4Boost(p) \in CallsOf("OUT4Boost")
         /\ InvROUT2(p, q) \in CallsOf("InvROUT2")
         /\ TSDEnable(p) \in CallsOf("TSDEnable")
         /\ OUT3Mixer(p, q, r, s, t) \in CallsOf("OUT3Mixer")
         /\ OUT4Mixer(p, q, r, s, t, u) \in CallsOf("OUT4Mixer")
<1>1. Ours([OUT3BOOST |-> p], 49, "OUT3Boost")
  BY PathBitNumbers DEF Ours, NineBits, Owner
<1>2. Ours([OUT4BOOST |-> p], 49, "OUT4Boost")
  BY PathBitNumbers DEF Ours, NineBits, Owner
<1>3. Ours([INVROUT2 |-> p, MUTERPGA2INV |-> q], 43, "InvROUT2")
  BY PathBitNumbers DEF Ours, NineBits, Owner
<1>4. Ours([TSDEN |-> p], 49, "TSDEnable")
  BY PathBitNumbers DEF Ours, NineBits, Owner
<1>5. Ours([LDAC2OUT3 |-> t, LMIX2OUT3 |-> s, BYPL2OUT3 |-> r,
                OUT4_2OUT3 |-> q, OUT3MUTE |-> p], 56, "OUT3Mixer")
  BY PathBitNumbers DEF Ours, NineBits, Owner
<1>6. Ours([RDAC2OUT4 |-> u, RMIX2OUT4 |-> t, BYPL2OUT4 |-> s,
                LDAC2OUT4 |-> r, LMIX2OUT4 |-> q, OUT4MUTE |-> p], 57, "OUT4Mixer")
  BY PathBitNumbers DEF Ours, NineBits, Owner
<1>7. {43, 49, 56, 57} \subseteq Registers
  BY DEF Registers
<1>8. OUT3Boost(p) \in CallsOf("OUT3Boost")
  BY <1>1, <1>7, SwitchCall DEF OUT3Boost
<1>9. OUT4Boost(p) \in CallsOf("OUT4Boost")
  BY <1>2, <1>7, SwitchCall DEF OUT4Boost
<1>10. InvROUT2(p, q) \in CallsOf("InvROUT2")
  BY <1>3, <1>7, SwitchCall DEF InvROUT2
<1>11. TSDEnable(p) \in CallsOf("TSDEnable")
  BY <1>4, <1>7, SwitchCall DEF TSDEnable
<1>12. OUT3Mixer(p, q, r, s, t) \in CallsOf("OUT3Mixer")
  BY <1>5, <1>7, SwitchCall DEF OUT3Mixer
<1>13. OUT4Mixer(p, q, r, s, t, u) \in CallsOf("OUT4Mixer")
  BY <1>6, <1>7, SwitchCall DEF OUT4Mixer
<1> QED BY <1>8, <1>9, <1>10, <1>11, <1>12, <1>13

\* Numbers that fit into a register.
LEMMA InNine ==
  ASSUME NEW n \in Nat, NEW k \in Nat,
         \/ n < 2 /\ k <= 8
         \/ n < 4 /\ k <= 7
         \/ n < 8 /\ k <= 6
         \/ n < 16 /\ k <= 5
         \/ n < 512 /\ k = 0
  PROVE  Bits(n, k) \in SUBSET NineBits
<1>1. \/ Bits(n, k) \subseteq {k} /\ k <= 8
      \/ Bits(n, k) \subseteq k..k + 1 /\ k <= 7
      \/ Bits(n, k) \subseteq k..k + 2 /\ k <= 6
      \/ Bits(n, k) \subseteq k..k + 3 /\ k <= 5
      \/ Bits(n, k) \subseteq k..k + 8 /\ k = 0
  BY FieldBits
<1> QED BY <1>1 DEF NineBits

\* A value cut to its limit is in the range of the field.
LEMMA Limited ==
  ASSUME NEW v \in Nat
  PROVE  /\ Bits(Upto(v, 7), 0) \in SUBSET NineBits /\ Bits(Upto(v, 7), 2) \in SUBSET NineBits
         /\ Bits(Upto(v, 7), 3) \in SUBSET NineBits /\ Bits(Upto(v, 7), 4) \in SUBSET NineBits
         /\ Bits(Upto(v, 7), 6) \in SUBSET NineBits /\ Bits(Upto(v, 13), 0) \in SUBSET NineBits
         /\ Bits(Upto(v, 15), 0) \in SUBSET NineBits /\ Bits(Upto(v, 15), 4) \in SUBSET NineBits
         /\ Bits(Upto(v, 31), 0) \in SUBSET NineBits /\ Bits(Upto(v, 63), 0) \in SUBSET NineBits
<1>1. /\ Upto(v, 7) \in Nat /\ Upto(v, 7) < 8 /\ Upto(v, 13) \in Nat /\ Upto(v, 13) < 16
      /\ Upto(v, 15) \in Nat /\ Upto(v, 15) < 16 /\ Upto(v, 31) \in Nat /\ Upto(v, 31) < 512
      /\ Upto(v, 63) \in Nat /\ Upto(v, 63) < 512
  BY DEF Upto
<1> QED BY <1>1, InNine

\* So is a value of an enumeration.
LEMMA Enumerated ==
  /\ \A v \in 0..1 : Bits(v, 8) \in SUBSET NineBits
  /\ \A v \in 0..2 : Bits(v, 4) \in SUBSET NineBits
  /\ \A v \in 0..3 : Bits(v, 5) \in SUBSET NineBits /\ Bits(v, 7) \in SUBSET NineBits
  /\ \A v \in 0..5 : Bits(v, 2) \in SUBSET NineBits
  /\ \A v \in 0..7 : Bits(v, 0) \in SUBSET NineBits /\ Bits(v, 5) \in SUBSET NineBits
  /\ \A v \in 0..255 : Bits(v, 0) \in SUBSET NineBits
BY InNine

\* The registers that one setter writes whole.
Whole(reg, name) == reg \in Registers /\ \A b \in NineBits : Owner(reg, b) = name

\* The registers that one setter has for itself.
LEMMA WholeOwners ==
  /\ Whole(6, "ClockControl") /\ Whole(8, "GPIO1") /\ Whole(9, "JDSel") /\ Whole(11, "DACVolume")
  /\ Whole(12, "DACVolume") /\ Whole(13, "JDen") /\ Whole(15, "ADCVolume")
  /\ Whole(16, "ADCVolume") /\ Whole(19, "EQ2") /\ Whole(20, "EQ3") /\ Whole(21, "EQ4")
  /\ Whole(22, "EQ5") /\ Whole(24, "DACLimiter") /\ Whole(25, "DACLimiter")
  /\ Whole(27, "NotchFilter") /\ Whole(28, "NotchFilter") /\ Whole(29, "NotchFilter")
  /\ Whole(30, "NotchFilter") /\ Whole(32, "ALCGain") /\ Whole(33, "ALCMode")
  /\ Whole(34, "ALCMode") /\ Whole(35, "ALCNoiseGate") /\ Whole(36, "PLLClock")
  /\ Whole(37, "PLLClock") /\ Whole(38, "PLLClock") /\ Whole(39, "PLLClock")
  /\ Whole(41, "Depth3D") /\ Whole(45, "PGAGainL") /\ Whole(46, "PGAGainR")
  /\ Whole(47, "BoostL") /\ Whole(48, "BoostR") /\ Whole(50, "LeftMixer")
  /\ Whole(51, "RightMixer") /\ Whole(52, "LOUT1Volume") /\ Whole(53, "ROUT1Volume")
  /\ Whole(54, "LOUT2Volume") /\ Whole(55, "ROUT2Volume")
BY DEF Whole, Owner, Registers

\* Writes of one, two and three fields into a register.
LEMMA PutOne ==
  ASSUME NEW name, NEW reg, NEW bits \in SUBSET NineBits, Whole(reg, name)
  PROVE  /\ Fits(name, Put(reg, bits)) /\ Put(reg, bits).reg = reg
         /\ <<Put(reg, bits)>> \in CallsOf(name)
<1>1. bits \in SUBSET Nat
  BY DEF NineBits
<1> QED BY <1>1, PutFits, OneWriteCall DEF Whole

LEMMA PutTwo ==
  ASSUME NEW name, NEW reg, NEW a \in SUBSET NineBits, NEW b \in SUBSET NineBits, Whole(reg, name)
  PROVE  /\ Fits(name, Put(reg, a \cup b)) /\ Put(reg, a \cup b).reg = reg
         /\ <<Put(reg, a \cup b)>> \in CallsOf(name)
<1>1. a \cup b \in SUBSET NineBits
  OBVIOUS
<1> QED BY <1>1, PutOne

LEMMA PutThree ==
  ASSUME NEW name, NEW reg, NEW a \in SUBSET NineBits, NEW b \in SUBSET NineBits,
         NEW c \in SUBSET NineBits, Whole(reg, name)
  PROVE  /\ Fits(name, Put(reg, a \cup b \cup c)) /\ Put(reg, a \cup b \cup c).reg = reg
         /\ <<Put(reg, a \cup b \cup c)>> \in CallsOf(name)
<1>1. a \cup b \cup c \in SUBSET NineBits
  OBVIOUS
<1> QED BY <1>1, PutOne

\* The setters of the volumes.
LEMMA GainCalls ==
  ASSUME NEW mute, NEW vol \in Nat
  PROVE  /\ PGAGainL(mute, vol) \in CallsOf("PGAGainL")
         /\ PGAGainR(mute, vol) \in CallsOf("PGAGainR")
         /\ LOUT1Volume(mute, vol) \in CallsOf("LOUT1Volume")
         /\ ROUT1Volume(mute, vol) \in CallsOf("ROUT1Volume")
         /\ LOUT2Volume(mute, vol) \in CallsOf("LOUT2Volume")
         /\ ROUT2Volume(mute, vol) \in CallsOf("ROUT2Volume")
<1> DEFINE six == Bits(Upto(vol, 63), 0)
           left == On([INPPGAMUTEL |-> mute, INPPGAZCL |-> TRUE, INPPGAUPDATE |-> TRUE])
           right == On([INPPGAMUTER |-> mute, INPPGAZCR |-> TRUE, INPPGAUPDATE |-> TRUE])
           lout1 == On([LOUT1MUTE |-> mute, HPVU |-> TRUE])
           rout1 == On([ROUT1MUTE |-> mute, HPVU |-> TRUE])
           lout2 == On([LOUT2MUTE |-> mute, SPKVU |-> TRUE])
           rout2 == On([ROUT2MUTE |-> mute, SPKVU |-> TRUE])
<1>1. /\ six \in SUBSET NineBits
  BY Limited, Enumerated
<1>2. /\ left \in SUBSET NineBits /\ right \in SUBSET NineBits /\ lout1 \in SUBSET NineBits
      /\ rout1 \in SUBSET NineBits /\ lout2 \in SUBSET NineBits /\ rout2 \in SUBSET NineBits
  BY OnFits, PathBitNumbers DEF NineBits
<1>3. /\ PGAGainL(mute, vol) = << Put(45, six \cup left) >>
      /\ PGAGainR(mute, vol) = << Put(46, six \cup right) >>
      /\ LOUT1Volume(mute, vol) = << Put(52, lout1 \cup six) >>
      /\ ROUT1Volume(mute, vol) = << Put(53, rout1 \cup six) >>
      /\ LOUT2Volume(mute, vol) = << Put(54, lout2 \cup six) >>
      /\ ROUT2Volume(mute, vol) = << Put(55, rout2 \cup six) >>
  BY DEF PGAGainL, PGAGainR, LOUT1Volume, ROUT1Volume, LOUT2Volume, ROUT2Volume
<1> HIDE DEF six, left, right, lout1, rout1, lout2, rout2
<1>4. <<Put(45, six \cup left)>> \in CallsOf("PGAGainL")
  BY <1>1, <1>2, WholeOwners, PutTwo
<1>5. <<Put(46, six \cup right)>> \in CallsOf("PGAGainR")
  BY <1>1, <1>2, WholeOwners, PutTwo
<1>6. <<Put(52, lout1 \cup six)>> \in CallsOf("LOUT1Volume")
  BY <1>1, <1>2, WholeOwners, PutTwo
<1>7. <<Put(53, rout1 \cup six)>> \in CallsOf("ROUT1Volume")
  BY <1>1, <1>2, WholeOwners, PutTwo
<1>8. <<Put(54, lout2 \cup six)>> \in CallsOf("LOUT2Volume")
  BY <1>1, <1>2, WholeOwners, PutTwo
<1>9. <<Put(55, rout2 \cup six)>> \in CallsOf("ROUT2Volume")
  BY <1>1, <1>2, WholeOwners, PutTwo
<1> QED BY <1>3, <1>4, <1>5, <1>6, <1>7, <1>8, <1>9

\* The setters of the equalizer's upper bands.
LEMMA EqualizerCalls ==
  ASSUME NEW gain \in Nat, NEW cutoff \in 0..3, NEW wide
  PROVE  /\ EQ2(gain, cutoff, wide) \in CallsOf("EQ2")
         /\ EQ3(gain, cutoff, wide) \in CallsOf("EQ3")
         /\ EQ4(gain, cutoff, wide) \in CallsOf("EQ4")
         /\ EQ5(gain, cutoff) \in CallsOf("EQ5")
<1> DEFINE level == Bits(Upto(gain, 31), 0)
           corner == Bits(cutoff, 5)
           eq2 == On([EQ2BW |-> wide])
           eq3 == On([EQ3BW |-> wide])
           eq4 == On([EQ4BW |-> wide])
<1>1. /\ level \in SUBSET NineBits /\ corner \in SUBSET NineBits
  BY Limited, Enumerated
<1>2. /\ eq2 \in SUBSET NineBits /\ eq3 \in SUBSET NineBits /\ eq4 \in SUBSET NineBits
  BY OnFits, BitNumbers DEF NineBits
<1>3. /\ EQ2(gain, cutoff, wide) = << Put(19, level \cup corner \cup eq2) >>
      /\ EQ3(gain, cutoff, wide) = << Put(20, level \cup corner \cup eq3) >>
      /\ EQ4(gain, cutoff, wide) = << Put(21, level \cup corner \cup eq4) >>
      /\ EQ5(gain, cutoff) = << Put(22, level \cup corner) >>
  BY DEF EQ2, EQ3, EQ4, EQ5
<1> HIDE DEF level, corner, eq2, eq3, eq4
<1>4. <<Put(19, level \cup corner \cup eq2)>> \in CallsOf("EQ2")
  BY <1>1, <1>2, WholeOwners, PutThree
<1>5. <<Put(20, level \cup corner \cup eq3)>> \in CallsOf("EQ3")
  BY <1>1, <1>2, WholeOwners, PutThree
<1>6. <<Put(21, level \cup corner \cup eq4)>> \in CallsOf("EQ4")
  BY <1>1, <1>2, WholeOwners, PutThree
<1>7. <<Put(22, level \cup corner)>> \in CallsOf("EQ5")
  BY <1>1, <1>2, WholeOwners, PutTwo
<1> QED BY <1>3, <1>4, <1>5, <1>6, <1>7

\* The setters of the mixers.
LEMMA MixerCalls ==
  ASSUME NEW dac, NEW byp, NEW aux, NEW byp_vol \in Nat, NEW aux_vol \in Nat
  PROVE  /\ LeftMixer(dac, byp, aux, byp_vol, aux_vol) \in CallsOf("LeftMixer")
         /\ RightMixer(dac, byp, aux, byp_vol, aux_vol) \in CallsOf("RightMixer")
<1> DEFINE bypassed == Bits(Upto(byp_vol, 7), 2)
           auxiliary == Bits(Upto(aux_vol, 7), 6)
           lmix == On([DACL2LMIX |-> dac, BYPL2LMIX |-> byp, AUXL2LMIX |-> aux])
           rmix == On([DACR2RMIX |-> dac, BYPR2RMIX |-> byp, AUXR2RMIX |-> aux])
<1>1. /\ bypassed \in SUBSET NineBits /\ auxiliary \in SUBSET NineBits
  BY Limited, Enumerated
<1>2. /\ lmix \in SUBSET NineBits /\ rmix \in SUBSET NineBits
  BY OnFits, PathBitNumbers DEF NineBits
<1>3. /\ LeftMixer(dac, byp, aux, byp_vol, aux_vol) = << Put(50, lmix \cup bypassed \cup auxiliary) >>
      /\ RightMixer(dac, byp, aux, byp_vol, aux_vol) = << Put(51, rmix \cup bypassed \cup auxiliary) >>
  BY DEF LeftMixer, RightMixer
<1> HIDE DEF bypassed, auxiliary, lmix, rmix
<1>4. <<Put(50, lmix \cup bypassed \cup auxiliary)>> \in CallsOf("LeftMixer")
  BY <1>1, <1>2, WholeOwners, PutThree
<1>5. <<Put(51, rmix \cup bypassed \cup auxiliary)>> \in CallsOf("RightMixer")
  BY <1>1, <1>2, WholeOwners, PutThree
<1> QED BY <1>3, <1>4, <1>5

\* The setters of the limiter, the level control and the noise gate.
LEMMA LimitCalls ==
  ASSUME NEW on, NEW a \in Nat, NEW b \in Nat, NEW c \in Nat, NEW d \in Nat, NEW two \in 0..3, NEW one \in 0..1
  PROVE  /\ DACLimiter(on, c, d, b, a) \in CallsOf("DACLimiter")
         /\ ALCGain(two, a, b) \in CallsOf("ALCGain")
         /\ ALCMode(one, a, b, c, d) \in CallsOf("ALCMode")
         /\ ALCNoiseGate(on, a) \in CallsOf("ALCNoiseGate")
<1> DEFINE a0 == Bits(Upto(a, 15), 0)
           b4 == Bits(Upto(b, 15), 4)
           c0 == Bits(Upto(c, 15), 0)
           d0 == Bits(Upto(d, 15), 0)
           c4 == Bits(Upto(c, 15), 4)
           d4 == Bits(Upto(d, 7), 4)
           a7 == Bits(Upto(a, 7), 0)
           b7 == Bits(Upto(b, 7), 3)
           high2 == Bits(two, 7)
           high1 == Bits(one, 8)
           limit == On([LIMEN |-> on])
           gate == On([NGATEN |-> on])
<1>1. /\ a0 \in SUBSET NineBits /\ b4 \in SUBSET NineBits /\ c0 \in SUBSET NineBits
      /\ d0 \in SUBSET NineBits /\ c4 \in SUBSET NineBits /\ d4 \in SUBSET NineBits
      /\ a7 \in SUBSET NineBits /\ b7 \in SUBSET NineBits /\ high2 \in SUBSET NineBits
      /\ high1 \in SUBSET NineBits
  BY Limited, Enumerated
<1>2. /\ limit \in SUBSET NineBits /\ gate \in SUBSET NineBits
  BY OnFits, BitNumbers DEF NineBits
<1>3. /\ DACLimiter(on, c, d, b, a) = << Put(24, limit \cup a0 \cup b4), Put(25, c0 \cup d4) >>
      /\ ALCGain(two, a, b) = << Put(32, high2 \cup a7 \cup b7) >>
      /\ ALCMode(one, a, b, c, d) = << Put(33, a0 \cup b4), Put(34, high1 \cup c4 \cup d0) >>
      /\ ALCNoiseGate(on, a) = << Put(35, gate \cup a7) >>
  BY DEF DACLimiter, ALCGain, ALCMode, ALCNoiseGate
<1> HIDE DEF a0, b4, c0, d0, c4, d4, a7, b7, high2, high1, limit, gate
<1>4. <<Put(24, limit \cup a0 \cup b4), Put(25, c0 \cup d4)>> \in CallsOf("DACLimiter")
  <2>1. Fits("DACLimiter", Put(24, limit \cup a0 \cup b4))
    BY <1>1, <1>2, WholeOwners, PutThree
  <2>2. Fits("DACLimiter", Put(25, c0 \cup d4))
    BY <1>1, <1>2, WholeOwners, PutTwo
  <2>3. Put(24, limit \cup a0 \cup b4).reg = 24 /\ Put(25, c0 \cup d4).reg = 25
    BY DEF Put
  <2> QED BY <2>1, <2>2, <2>3, TwoWriteCall
<1>5. <<Put(32, high2 \cup a7 \cup b7)>> \in CallsOf("ALCGain")
  BY <1>1, <1>2, WholeOwners, PutThree
<1>6. <<Put(33, a0 \cup b4), Put(34, high1 \cup c4 \cup d0)>> \in CallsOf("ALCMode")
  <2>1. Fits("ALCMode", Put(33, a0 \cup b4))
    BY <1>1, <1>2, WholeOwners, PutTwo
  <2>2. Fits("ALCMode", Put(34, high1 \cup c4 \cup d0))
    BY <1>1, <1>2, WholeOwners, PutThree
  <2>3. Put(33, a0 \cup b4).reg = 33 /\ Put(34, high1 \cup c4 \cup d0).reg = 34
    BY DEF Put
  <2> QED BY <2>1, <2>2, <2>3, TwoWriteCall
<1>7. <<Put(35, gate \cup a7)>> \in CallsOf("ALCNoiseGate")
  BY <1>1, <1>2, WholeOwners, PutTwo
<1> QED BY <1>3, <1>4, <1>5, <1>6, <1>7

\* The setters of the clocks and the interface.
LEMMA ClockCalls ==
  ASSUME NEW on, NEW clk, NEW bclk \in 0..5, NEW mclk \in 0..7, NEW sel \in 0..7, NEW jd \in 0..2
  PROVE  /\ ClockControl(on, clk, bclk, mclk) \in CallsOf("ClockControl")
         /\ GPIO1(sel, on) \in CallsOf("GPIO1")
         /\ JDSel(jd, on) \in CallsOf("JDSel")
<1> DEFINE bit == Bits(bclk, 2)
           master == Bits(mclk, 5)
           io == Bits(sel, 0)
           jack == Bits(jd, 4)
           clock == On([MS |-> on, CLKSEL |-> clk = 1])
           polarity == On([GPIO1POL |-> on])
           detect == On([JD_EN |-> on])
<1>1. /\ bit \in SUBSET NineBits /\ master \in SUBSET NineBits /\ io \in SUBSET NineBits
      /\ jack \in SUBSET NineBits
  BY Limited, Enumerated
<1>2. /\ clock \in SUBSET NineBits /\ polarity \in SUBSET NineBits /\ detect \in SUBSET NineBits
  BY OnFits, BitNumbers DEF NineBits
<1>3. /\ ClockControl(on, clk, bclk, mclk) = << Put(6, clock \cup bit \cup master) >>
      /\ GPIO1(sel, on) = << Put(8, polarity \cup io) >>
      /\ JDSel(jd, on) = << Put(9, detect \cup jack) >>
  BY DEF ClockControl, GPIO1, JDSel
<1> HIDE DEF bit, master, io, jack, clock, polarity, detect
<1>4. <<Put(6, clock \cup bit \cup master)>> \in CallsOf("ClockControl")
  BY <1>1, <1>2, WholeOwners, PutThree
<1>5. <<Put(8, polarity \cup io)>> \in CallsOf("GPIO1")
  BY <1>1, <1>2, WholeOwners, PutTwo
<1>6. <<Put(9, detect \cup jack)>> \in CallsOf("JDSel")
  BY <1>1, <1>2, WholeOwners, PutTwo
<1> QED BY <1>3, <1>4, <1>5, <1>6

\* The setters that change some bits of a register to a number.
Part(reg, cleared, name) ==
  /\ reg \in Registers \ {38, 39} /\ cleared \in SUBSET NineBits
  /\ \A b \in cleared : Owner(reg, b) = name

\* A change of one field, and the setters that make one.
LEMMA ChangeCall ==
  ASSUME NEW name, NEW reg, NEW cleared, NEW bits \in SUBSET cleared, Part(reg, cleared, name)
  PROVE  <<Change(reg, cleared, bits)>> \in CallsOf(name)
BY ChangeFits, OneWriteCall DEF Part

LEMMA ChangeCalls ==
  /\ \A i2s_mode, word_len \in 0..3 : I2SInterface(i2s_mode, word_len) \in CallsOf("I2SInterface")
  /\ \A bias, sel : sel \in 0..3 => VMID(bias, sel) \in CallsOf("VMID")
  /\ \A rate \in 0..7 : SampleRate(rate) \in CallsOf("SampleRate")
  /\ \A gain \in Nat, cutoff \in 0..3 : EQ1(gain, cutoff) \in CallsOf("EQ1")
  /\ \A on, vol : vol \in Nat => BeepVol(on, vol) \in CallsOf("BeepVol")
<1>1. ASSUME NEW i2s_mode \in 0..3, NEW word_len \in 0..3
      PROVE  I2SInterface(i2s_mode, word_len) \in CallsOf("I2SInterface")
  <2> DEFINE bits == Bits(i2s_mode, 3) \cup Bits(word_len, 5)
  <2>1. bits \in SUBSET (3..6)
    BY FieldBits
  <2>2. Part(4, 3..6, "I2SInterface")
    BY DEF Part, Owner, Registers, NineBits
  <2>3. I2SInterface(i2s_mode, word_len) = <<Change(4, 3..6, bits)>>
    BY DEF I2SInterface
  <2> HIDE DEF bits
  <2> QED BY <2>1, <2>2, <2>3, ChangeCall
<1>2. ASSUME NEW bias, NEW sel \in 0..3 PROVE VMID(bias, sel) \in CallsOf("VMID")
  <2> DEFINE bits == On([BIASEN |-> bias]) \cup Bits(sel, 0)
             cleared == {3, 0, 1}
  <2>1. VMID(bias, sel) = <<Change(1, cleared, bits)>>
    BY BitNumbers DEF VMID
  <2>2. Bits(sel, 0) \subseteq {0, 1} /\ On([BIASEN |-> bias]) \subseteq {3}
    BY FieldBits, BitNumbers DEF On
  <2>3. Part(1, cleared, "VMID")
    BY DEF Part, Owner, Registers, NineBits
  <2>4. bits \in SUBSET cleared
    BY <2>2
  <2> HIDE DEF bits, cleared
  <2> QED BY <2>1, <2>2, <2>3, <2>4, ChangeCall
<1>3. ASSUME NEW rate \in 0..7 PROVE SampleRate(rate) \in CallsOf("SampleRate")
  <2>1. Bits(rate, 1) \in SUBSET (1..3)
    BY FieldBits
  <2>2. Part(7, 1..3, "SampleRate")
    BY DEF Part, Owner, Registers, NineBits
  <2> QED BY <2>1, <2>2, ChangeCall DEF SampleRate
<1>4. ASSUME NEW gain \in Nat, NEW cutoff \in 0..3 PROVE EQ1(gain, cutoff) \in CallsOf("EQ1")
  <2> DEFINE bits == Bits(Upto(gain, 31), 0) \cup Bits(cutoff, 5)
  <2>1. Bits(Upto(gain, 31), 0) \subseteq 0..4 /\ Bits(cutoff, 5) \subseteq 5..6
    <3>1. Upto(gain, 31) \in Nat /\ Upto(gain, 31) < 32
      BY DEF Upto
    <3>2. Bits(Upto(gain, 31), 0) \subseteq 0..0 + 4
      BY <3>1, FieldBits
    <3>3. Bits(cutoff, 5) \subseteq 5..5 + 1
      BY FieldBits
    <3> QED BY <3>2, <3>3
  <2>2. bits \in SUBSET (0..6)
    BY <2>1
  <2>3. Part(18, 0..6, "EQ1")
    BY DEF Part, Owner, Registers, NineBits
  <2>4. EQ1(gain, cutoff) = <<Change(18, 0..6, bits)>>
    BY DEF EQ1
  <2> HIDE DEF bits
  <2> QED BY <2>2, <2>3, <2>4, ChangeCall
<1>5. ASSUME NEW on, NEW vol \in Nat PROVE BeepVol(on, vol) \in CallsOf("BeepVol")
  <2> DEFINE bits == On([BEEPEN |-> on]) \cup Bits(Upto(vol, 7), 1)
  <2>1. Bits(Upto(vol, 7), 1) \subseteq 1..3 /\ On([BEEPEN |-> on]) \subseteq {0}
    <3>1. Upto(vol, 7) \in Nat /\ Upto(vol, 7) < 8
      BY DEF Upto
    <3>2. Bits(Upto(vol, 7), 1) \subseteq 1..1 + 2
      BY <3>1, FieldBits
    <3>3. On([BEEPEN |-> on]) \subseteq {0}
      BY PathBitNumbers DEF On
    <3> QED BY <3>2, <3>3
  <2>2. bits \in SUBSET (0..3)
    BY <2>1
  <2>3. Part(43, 0..3, "BeepVol")
    BY DEF Part, Owner, Registers, NineBits
  <2>4. BeepVol(on, vol) = <<Change(43, 0..3, bits)>>
    BY DEF BeepVol
  <2> HIDE DEF bits
  <2> QED BY <2>2, <2>3, <2>4, ChangeCall
<1> QED BY <1>1, <1>2, <1>3, <1>4, <1>5

\* The setters that write two registers, at least one of them bit by bit.
LEMMA PathCalls ==
  ASSUME NEW on, NEW v
  PROVE  /\ SpkBoost(on) \in CallsOf("SpkBoost") /\ BufIO(on, v) \in CallsOf("BufIO")
         /\ MicBias(on, v) \in CallsOf("MicBias")
         /\ InpPGAL(v) \in CallsOf("InpPGAL") /\ InpPGAR(v) \in CallsOf("InpPGAR")
<1> DEFINE ofLeft == [LIP2INPPGA |-> v >= 2, LIN2INPPGA |-> TRUE, L2_2INPPGA |-> v = 3]
           ofRight == [RIP2INPPGA |-> v >= 2, RIN2INPPGA |-> TRUE, R2_2INPPGA |-> v = 3]
<1>1. /\ Ours([SPKBOOST |-> on], 49, "SpkBoost") /\ Ours([VROI |-> v = 1], 49, "BufIO")
      /\ Ours([MBVSEL |-> v = 1], 44, "MicBias")
      /\ Ours(ofLeft, 44, "InpPGAL") /\ Ours(ofRight, 44, "InpPGAR")
  BY PathBitNumbers DEF Ours, Owner, NineBits
<1>2. /\ Ours([BUFDCOPEN |-> on], 1, "SpkBoost") /\ Ours([BUFIOEN |-> on], 1, "BufIO")
      /\ Ours([MICBEN |-> on], 1, "MicBias")
      /\ \A p : Ours([INPPGAENL |-> p], 2, "InpPGAL") /\ Ours([INPPGAENR |-> p], 2, "InpPGAR")
  BY BitNumbers DEF Ours, Owner, NineBits
<1>3. 1 \in Registers /\ 2 \in Registers /\ 44 \in Registers /\ 49 \in Registers
  BY DEF Registers
<1>4. \A name, reg, f : reg \in {1, 2, 44, 49} /\ Ours(f, reg, name) => Fits(name, Switch(reg, f))
  BY <1>3, SwitchFits DEF Ours
<1>5. \A reg, f : Switch(reg, f).reg = reg
  BY DEF Switch, Change
<1>6. InpPGAL(v) = (IF v = 0 THEN <<Switch(2, [INPPGAENL |-> FALSE])>>
                    ELSE <<Switch(2, [INPPGAENL |-> TRUE]), Switch(44, ofLeft)>>)
  BY DEF InpPGAL
<1>7. InpPGAR(v) = (IF v = 0 THEN <<Switch(2, [INPPGAENR |-> FALSE])>>
                    ELSE <<Switch(2, [INPPGAENR |-> TRUE]), Switch(44, ofRight)>>)
  BY DEF InpPGAR
<1> HIDE DEF ofLeft, ofRight
<1>8. SpkBoost(on) \in CallsOf("SpkBoost")
  BY <1>1, <1>2, <1>4, <1>5, TwoWriteCall DEF SpkBoost
<1>9. BufIO(on, v) \in CallsOf("BufIO")
  BY <1>1, <1>2, <1>4, <1>5, TwoWriteCall DEF BufIO
<1>10. MicBias(on, v) \in CallsOf("MicBias")
  BY <1>1, <1>2, <1>4, <1>5, TwoWriteCall DEF MicBias
<1>11. InpPGAL(v) \in CallsOf("InpPGAL")
  <2>1. /\ Fits("InpPGAL", Switch(2, [INPPGAENL |-> FALSE])) /\ Fits("InpPGAL", Switch(2, [INPPGAENL |-> TRUE]))
        /\ Fits("InpPGAL", Switch(44, ofLeft))
    BY <1>1, <1>2, <1>4
  <2> QED BY <1>5, <1>6, <2>1, OneWriteCall, TwoWriteCall
<1>12. InpPGAR(v) \in CallsOf("InpPGAR")
  <2>1. /\ Fits("InpPGAR", Switch(2, [INPPGAENR |-> FALSE])) /\ Fits("InpPGAR", Switch(2, [INPPGAENR |-> TRUE]))
        /\ Fits("InpPGAR", Switch(44, ofRight))
    BY <1>1, <1>2, <1>4
  <2> QED BY <1>5, <1>7, <2>1, OneWriteCall, TwoWriteCall
<1> QED BY <1>8, <1>9, <1>10, <1>11, <1>12

\* The setters of the boost stages.
LEMMA BoostCalls ==
  ASSUME NEW on, NEW pga, NEW aux \in Nat, NEW l \in Nat
  PROVE  BoostL(on, pga, aux, l) \in CallsOf("BoostL") /\ BoostR(on, pga, aux, l) \in CallsOf("BoostR")
<1> DEFINE side(name) == On(name) \cup Bits(Upto(aux, 7), 0) \cup Bits(Upto(l, 7), 4)
           left == side([PGABOOSTL |-> pga # 0])
           right == side([PGABOOSTR |-> pga # 0])
<1>1. On([PGABOOSTL |-> pga # 0]) \in SUBSET NineBits /\ On([PGABOOSTR |-> pga # 0]) \in SUBSET NineBits
  BY OnFits, PathBitNumbers DEF NineBits
<1>2. Bits(Upto(aux, 7), 0) \in SUBSET NineBits /\ Bits(Upto(l, 7), 4) \in SUBSET NineBits
  BY Limited
<1>3. left \in SUBSET NineBits /\ right \in SUBSET NineBits
  BY <1>1, <1>2
<1>4. Ours([BOOSTENL |-> on], 2, "BoostL") /\ Ours([BOOSTENR |-> on], 2, "BoostR")
  BY BitNumbers DEF Ours, Owner, NineBits
<1>5. Fits("BoostL", Switch(2, [BOOSTENL |-> on])) /\ Fits("BoostR", Switch(2, [BOOSTENR |-> on]))
  <2>1. 2 \in Registers
    BY DEF Registers
  <2> QED BY <1>4, <2>1, SwitchFits DEF Ours
<1>6. /\ BoostL(on, pga, aux, l) = <<Switch(2, [BOOSTENL |-> on]), Put(47, left)>>
      /\ BoostR(on, pga, aux, l) = <<Switch(2, [BOOSTENR |-> on]), Put(48, right)>>
  BY DEF BoostL, BoostR
<1>7. Switch(2, [BOOSTENL |-> on]).reg = 2 /\ Switch(2, [BOOSTENR |-> on]).reg = 2
  BY DEF Switch, Change
<1> HIDE DEF left, right
<1>8. Fits("BoostL", Put(47, left)) /\ Fits("BoostR", Put(48, right))
  BY <1>3, WholeOwners, PutOne
<1>9. Put(47, left).reg = 47 /\ Put(48, right).reg = 48
  BY DEF Put
<1> QED BY <1>5, <1>6, <1>7, <1>8, <1>9, TwoWriteCall

\* The setters of numbers without switches.
LEMMA VolumeCalls ==
  ASSUME NEW l \in 0..255, NEW r \in 0..255
  PROVE  /\ ADCVolume(l, r) \in CallsOf("ADCVolume") /\ DACVolume(l, r) \in CallsOf("DACVolume")
         /\ Depth3D(l) \in CallsOf("Depth3D") /\ JDen(l, r) \in CallsOf("JDen")
<1> DEFINE left == Bits(l, 0)
           adc == Bits(r, 0) \cup {Bit.ADCVU}
           dac == Bits(r, 0) \cup {Bit.DACVU}
           depth == Bits(Upto(l, 15), 0)
           jack == Bits(l % 16, 0) \cup (Bits(r, 0) \cap 4..7)
<1>1. left \in SUBSET NineBits /\ Bits(r, 0) \in SUBSET NineBits /\ depth \in SUBSET NineBits
  BY Enumerated, Limited
<1>2. Bits(l % 16, 0) \in SUBSET NineBits
  <2>1. l % 16 \in 0..255
    OBVIOUS
  <2> QED BY <2>1, Enumerated
<1>3. adc \in SUBSET NineBits /\ dac \in SUBSET NineBits /\ jack \in SUBSET NineBits
  BY <1>1, <1>2, BitNumbers DEF NineBits
<1>4. /\ ADCVolume(l, r) = <<Put(15, left), Put(16, adc)>>
      /\ DACVolume(l, r) = <<Put(11, left), Put(12, dac)>>
      /\ Depth3D(l) = <<Put(41, depth)>> /\ JDen(l, r) = <<Put(13, jack)>>
  BY DEF ADCVolume, DACVolume, Depth3D, JDen
<1> HIDE DEF left, adc, dac, depth, jack
<1>5. /\ Fits("ADCVolume", Put(15, left)) /\ Fits("ADCVolume", Put(16, adc))
      /\ Fits("DACVolume", Put(11, left)) /\ Fits("DACVolume", Put(12, dac))
  BY <1>1, <1>3, WholeOwners, PutOne
<1>6. \A reg, bits : Put(reg, bits).reg = reg
  BY DEF Put
<1>7. /\ <<Put(15, left), Put(16, adc)>> \in CallsOf("ADCVolume")
      /\ <<Put(11, left), Put(12, dac)>> \in CallsOf("DACVolume")
  BY <1>5, <1>6, TwoWriteCall
<1>8. <<Put(41, depth)>> \in CallsOf("Depth3D") /\ <<Put(13, jack)>> \in CallsOf("JDen")
  BY <1>1, <1>3, WholeOwners, PutOne
<1> QED BY <1>4, <1>7, <1>8

\* The notch filter's coefficients come in two parts each.
LEMMA NotchCalls ==
  ASSUME NEW on, NEW a0 \in Nat, NEW a1 \in Nat
  PROVE  NotchFilter(on, a0, a1) \in CallsOf("NotchFilter")
<1> DEFINE high0 == On([NFEN |-> on]) \cup Bits(a0 % 64, 0)
           low0 == Bits((a0 \div 128) % 64, 0)
           high1 == Bits(a1 % 64, 0)
           low1 == {Bit.NFU} \cup Bits((a1 \div 128) % 64, 0)
<1>1. /\ a0 % 64 \in 0..255 /\ a1 % 64 \in 0..255
      /\ (a0 \div 128) % 64 \in 0..255 /\ (a1 \div 128) % 64 \in 0..255
  OBVIOUS
<1>2. /\ Bits(a0 % 64, 0) \in SUBSET NineBits /\ Bits(a1 % 64, 0) \in SUBSET NineBits
      /\ Bits((a0 \div 128) % 64, 0) \in SUBSET NineBits /\ Bits((a1 \div 128) % 64, 0) \in SUBSET NineBits
  BY <1>1, Enumerated
<1>3. On([NFEN |-> on]) \in SUBSET NineBits /\ {Bit.NFU} \in SUBSET NineBits
  BY OnFits, BitNumbers DEF NineBits
<1>4. /\ high0 \in SUBSET NineBits /\ low0 \in SUBSET NineBits
      /\ high1 \in SUBSET NineBits /\ low1 \in SUBSET NineBits
  BY <1>2, <1>3
<1>5. NotchFilter(on, a0, a1) = <<Put(27, high0), Put(28, low0), Put(29, high1), Put(30, low1)>>
  BY DEF NotchFilter
<1> HIDE DEF high0, low0, high1, low1
<1>6. /\ Fits("NotchFilter", Put(27, high0)) /\ Fits("NotchFilter", Put(28, low0))
      /\ Fits("NotchFilter", Put(29, high1)) /\ Fits("NotchFilter", Put(30, low1))
  BY <1>4, WholeOwners, PutOne
<1>7. \A reg, bits : Put(reg, bits).reg = reg
  BY DEF Put
<1> QED BY <1>5, <1>6, <1>7, FourWriteCall

\* The PLL's fraction is cut to the registers' width where it is sent only.
LEMMA PLLCalls ==
  ASSUME NEW prescale, NEW n \in Nat, NEW k \in Nat, k \div 2^18 \in 0..255
  PROVE  PLLClock(prescale, n, k) \in CallsOf("PLLClock")
<1> DEFINE whole == On([PLLPRESCALE |-> prescale]) \cup Bits(IF n < 5 THEN 5 ELSE Upto(n, 13), 0)
           high == Bits(k \div 2^18, 0)
           middle == Bits(k \div 2^9, 0) \cap Word
           low == Bits(k, 0) \cap Word
<1>1. On([PLLPRESCALE |-> prescale]) \in SUBSET NineBits
  BY OnFits, BitNumbers DEF NineBits
<1>2. Bits(IF n < 5 THEN 5 ELSE Upto(n, 13), 0) \in SUBSET NineBits
  <2>1. 5 \in 0..255
    OBVIOUS
  <2> QED BY <2>1, Limited, Enumerated
<1>3. high \in SUBSET NineBits
  BY Enumerated
<1>4. whole \in SUBSET NineBits /\ middle \in SUBSET Nat /\ low \in SUBSET Nat
  BY <1>1, <1>2 DEF Word
<1>5. PLLClock(prescale, n, k) = <<Put(36, whole), Put(37, high), Put(38, middle), Put(39, low)>>
  BY DEF PLLClock
<1> HIDE DEF whole, high, middle, low
<1>6. Fits("PLLClock", Put(36, whole)) /\ Fits("PLLClock", Put(37, high))
  BY <1>3, <1>4, WholeOwners, PutOne
<1>7. Fits("PLLClock", Put(38, middle)) /\ Fits("PLLClock", Put(39, low))
  BY <1>4, WholeOwners, PutFits DEF Whole
<1>8. \A reg, bits : Put(reg, bits).reg = reg
  BY DEF Put
<1> QED BY <1>5, <1>6, <1>7, <1>8, FourWriteCall

\* The sizes of the enumerations.
LEMMA EnumSizes ==
  LET E == Beside(InterfaceEnum, GainEnum)
  IN  /\ E["i2s_mode"] = 4 /\ E["word_len"] = 4 /\ E["clk"] = 2 /\ E["bclk"] = 6 /\ E["mclk"] = 8
      /\ E["vmid"] = 4 /\ E["rate"] = 8 /\ E["gpio"] = 8 /\ E["jd"] = 3 /\ E["eq3d"] = 2
      /\ E["cutoff"] = 4 /\ E["osr"] = 2 /\ E["inp"] = 4 /\ E["mbv"] = 2 /\ E["alc_on"] = 4
      /\ E["alc_mode"] = 2 /\ E["vroi"] = 2
BY DEF Beside, InterfaceEnum, GainEnum

\* Whatever is called writes the bits of its own setter.
LEMMA EverySetter ==
  ASSUME NEW b \in BOOLEAN, NEW v \in 0..255
  PROVE  \A n \in DOMAIN ApiCalls(b, v) : ApiCalls(b, v)[n] \in CallsOf(n)
<1> DEFINE c == ApiCalls(b, v)
           k == 65793 * v
           E == Beside(InterfaceEnum, GainEnum)
<1>1. /\ v \in Nat /\ v % 2 \in 0..1 /\ v % 3 \in 0..2 /\ v % 4 \in 0..3 /\ v % 6 \in 0..5
      /\ v % 8 \in 0..7 /\ v * 64 \in Nat
  OBVIOUS
<1>2. k \in Nat /\ k \div 2^18 \in 0..255
  <2>1. k \in Nat /\ 2^18 = 262144 /\ k <= 16777215
    BY SMT
  <2>2. k \div 262144 \in 0..255
    BY <2>1, SMT
  <2> QED BY <2>1, <2>2, SMT
<1>3. /\ E["i2s_mode"] = 4 /\ E["word_len"] = 4 /\ E["clk"] = 2 /\ E["bclk"] = 6 /\ E["mclk"] = 8
      /\ E["vmid"] = 4 /\ E["rate"] = 8 /\ E["gpio"] = 8 /\ E["jd"] = 3 /\ E["eq3d"] = 2
      /\ E["cutoff"] = 4 /\ E["osr"] = 2 /\ E["inp"] = 4 /\ E["mbv"] = 2 /\ E["alc_on"] = 4
      /\ E["alc_mode"] = 2 /\ E["vroi"] = 2
  BY EnumSizes
<1>4. c = [ Sleep |-> Sleep(b), I2SInterface |-> I2SInterface(v % 4, v % 4),
          Loopback |-> Loopback(b), ClockControl |-> ClockControl(b, v % 2, v % 6, v % 8),
          VMID |-> VMID(b, v % 4), PLLEnable |-> PLLEnable(b), PLLClock |-> PLLClock(b, v, k),
          SampleRate |-> SampleRate(v % 8), ADCEnable |-> ADCEnable(b, b),
          ADCMode |-> ADCMode(v % 2), ADCVolume |-> ADCVolume(v, v), InpPGAL |-> InpPGAL(v % 4),
          InpPGAR |-> InpPGAR(v % 4), PGAGainL |-> PGAGainL(b, v), PGAGainR |-> PGAGainR(b, v),
          BoostL |-> BoostL(b, v, v, v), BoostR |-> BoostR(b, v, v, v),
          MicBias |-> MicBias(b, v % 2), ALCGain |-> ALCGain(v % 4, v, v),
          ALCMode |-> ALCMode(v % 2, v, v, v, v), ALCNoiseGate |-> ALCNoiseGate(b, v),
          EQ3DMode |-> EQ3DMode(v % 2), EQ1 |-> EQ1(v, v % 4), EQ2 |-> EQ2(v, v % 4, b),
          EQ3 |-> EQ3(v, v % 4, b), EQ4 |-> EQ4(v, v % 4, b), EQ5 |-> EQ5(v, v % 4),
          Depth3D |-> Depth3D(v), NotchFilter |-> NotchFilter(b, v * 64, v * 64),
          DACEnable |-> DACEnable(b, b), DACMode |-> DACMode(v % 2, b, b),
          DACVolume |-> DACVolume(v, v), DACLimiter |-> DACLimiter(b, v, v, v, v),
          OUT1Enable |-> OUT1Enable(b, b), OUT2Enable |-> OUT2Enable(b, b),
          OUT3Enable |-> OUT3Enable(b), OUT4Enable |-> OUT4Enable(b),
          MIXEnable |-> MIXEnable(b, b), LeftMixer |-> LeftMixer(b, b, b, v, v),
          RightMixer |-> RightMixer(b, b, b, v, v), OUT3MIXEnable |-> OUT3MIXEnable(b),
          OUT3Mixer |-> OUT3Mixer(b, b, b, b, b), OUT4MIXEnable |-> OUT4MIXEnable(b),
          OUT4Mixer |-> OUT4Mixer(b, b, b, b, b, b), LOUT1Volume |-> LOUT1Volume(b, v),
          ROUT1Volume |-> ROUT1Volume(b, v), SpkBoost |-> SpkBoost(b), OUT3Boost |-> OUT3Boost(b),
          OUT4Boost |-> OUT4Boost(b), InvROUT2 |-> InvROUT2(b, b), BeepVol |-> BeepVol(b, v),
          LOUT2Volume |-> LOUT2Volume(b, v), ROUT2Volume |-> ROUT2Volume(b, v),
          TSDEnable |-> TSDEnable(b), BufIO |-> BufIO(b, v % 2),
          SlowClkEnable |-> SlowClkEnable(b), GPIO1 |-> GPIO1(v % 8, b),
          JDSel |-> JDSel(v % 3, b), JDen |-> JDen(v, v) ]
  BY <1>3, SMTT(60) DEF ApiCalls
<1> HIDE DEF c, k, E
<1>5. DOMAIN c = { "Sleep", "I2SInterface", "Loopback", "ClockControl", "VMID", "PLLEnable",
                   "PLLClock", "SampleRate", "ADCEnable", "ADCMode", "ADCVolume", "InpPGAL",
                   "InpPGAR", "PGAGainL", "PGAGainR", "BoostL", "BoostR", "MicBias", "ALCGain",
                   "ALCMode", "ALCNoiseGate", "EQ3DMode", "EQ1", "EQ2", "EQ3", "EQ4", "EQ5",
                   "Depth3D", "NotchFilter", "DACEnable", "DACMode", "DACVolume", "DACLimiter",
                   "OUT1Enable", "OUT2Enable", "OUT3Enable", "OUT4Enable", "MIXEnable",
                   "LeftMixer", "RightMixer", "OUT3MIXEnable", "OUT3Mixer", "OUT4MIXEnable",
                   "OUT4Mixer", "LOUT1Volume", "ROUT1Volume", "SpkBoost", "OUT3Boost",
                   "OUT4Boost", "InvROUT2", "BeepVol", "LOUT2Volume", "ROUT2Volume", "TSDEnable",
                   "BufIO", "SlowClkEnable", "GPIO1", "JDSel", "JDen" }
  BY <1>4
<1>6. /\ c["Sleep"] \in CallsOf("Sleep") /\ c["Loopback"] \in CallsOf("Loopback")
      /\ c["PLLEnable"] \in CallsOf("PLLEnable") /\ c["ADCEnable"] \in CallsOf("ADCEnable")
      /\ c["ADCMode"] \in CallsOf("ADCMode") /\ c["EQ3DMode"] \in CallsOf("EQ3DMode")
      /\ c["DACEnable"] \in CallsOf("DACEnable") /\ c["DACMode"] \in CallsOf("DACMode")
      /\ c["OUT1Enable"] \in CallsOf("OUT1Enable") /\ c["OUT2Enable"] \in CallsOf("OUT2Enable")
      /\ c["OUT3Enable"] \in CallsOf("OUT3Enable") /\ c["OUT4Enable"] \in CallsOf("OUT4Enable")
      /\ c["MIXEnable"] \in CallsOf("MIXEnable")
      /\ c["OUT3MIXEnable"] \in CallsOf("OUT3MIXEnable")
      /\ c["OUT4MIXEnable"] \in CallsOf("OUT4MIXEnable")
      /\ c["SlowClkEnable"] \in CallsOf("SlowClkEnable")
  <2>1. /\ c["Sleep"] = Sleep(b)
        /\ c["Loopback"] = Loopback(b)
        /\ c["PLLEnable"] = PLLEnable(b)
        /\ c["ADCEnable"] = ADCEnable(b, b)
        /\ c["ADCMode"] = ADCMode(v % 2)
        /\ c["EQ3DMode"] = EQ3DMode(v % 2)
        /\ c["DACEnable"] = DACEnable(b, b)
        /\ c["DACMode"] = DACMode(v % 2, b, b)
        /\ c["OUT1Enable"] = OUT1Enable(b, b)
        /\ c["OUT2Enable"] = OUT2Enable(b, b)
        /\ c["OUT3Enable"] = OUT3Enable(b)
        /\ c["OUT4Enable"] = OUT4Enable(b)
        /\ c["MIXEnable"] = MIXEnable(b, b)
        /\ c["OUT3MIXEnable"] = OUT3MIXEnable(b)
        /\ c["OUT4MIXEnable"] = OUT4MIXEnable(b)
        /\ c["SlowClkEnable"] = SlowClkEnable(b)
    BY <1>4
  <2> QED BY <1>1, <1>2, <2>1, PowerSwitches
<1>7. /\ c["OUT3Mixer"] \in CallsOf("OUT3Mixer") /\ c["OUT4Mixer"] \in CallsOf("OUT4Mixer")
      /\ c["OUT3Boost"] \in CallsOf("OUT3Boost") /\ c["OUT4Boost"] \in CallsOf("OUT4Boost")
      /\ c["InvROUT2"] \in CallsOf("InvROUT2") /\ c["TSDEnable"] \in CallsOf("TSDEnable")
  <2>1. /\ c["OUT3Mixer"] = OUT3Mixer(b, b, b, b, b)
        /\ c["OUT4Mixer"] = OUT4Mixer(b, b, b, b, b, b)
        /\ c["OUT3Boost"] = OUT3Boost(b)
        /\ c["OUT4Boost"] = OUT4Boost(b)
        /\ c["InvROUT2"] = InvROUT2(b, b)
        /\ c["TSDEnable"] = TSDEnable(b)
    BY <1>4
  <2> QED BY <1>1, <1>2, <2>1, PathSwitches
<1>8. /\ c["PGAGainL"] \in CallsOf("PGAGainL") /\ c["PGAGainR"] \in CallsOf("PGAGainR")
      /\ c["LOUT1Volume"] \in CallsOf("LOUT1Volume")
      /\ c["ROUT1Volume"] \in CallsOf("ROUT1Volume")
      /\ c["LOUT2Volume"] \in CallsOf("LOUT2Volume")
      /\ c["ROUT2Volume"] \in CallsOf("ROUT2Volume")
  <2>1. /\ c["PGAGainL"] = PGAGainL(b, v)
        /\ c["PGAGainR"] = PGAGainR(b, v)
        /\ c["LOUT1Volume"] = LOUT1Volume(b, v)
        /\ c["ROUT1Volume"] = ROUT1Volume(b, v)
        /\ c["LOUT2Volume"] = LOUT2Volume(b, v)
        /\ c["ROUT2Volume"] = ROUT2Volume(b, v)
    BY <1>4
  <2> QED BY <1>1, <1>2, <2>1, GainCalls
<1>9. /\ c["EQ2"] \in CallsOf("EQ2") /\ c["EQ3"] \in CallsOf("EQ3") /\ c["EQ4"] \in CallsOf("EQ4")
      /\ c["EQ5"] \in CallsOf("EQ5")
  <2>1. /\ c["EQ2"] = EQ2(v, v % 4, b)
        /\ c["EQ3"] = EQ3(v, v % 4, b)
        /\ c["EQ4"] = EQ4(v, v % 4, b)
        /\ c["EQ5"] = EQ5(v, v % 4)
    BY <1>4
  <2> QED BY <1>1, <1>2, <2>1, EqualizerCalls
<1>10. /\ c["LeftMixer"] \in CallsOf("LeftMixer") /\ c["RightMixer"] \in CallsOf("RightMixer")
  <2>1. /\ c["LeftMixer"] = LeftMixer(b, b, b, v, v)
        /\ c["RightMixer"] = RightMixer(b, b, b, v, v)
    BY <1>4
  <2> QED BY <1>1, <1>2, <2>1, MixerCalls
<1>11. /\ c["ALCGain"] \in CallsOf("ALCGain") /\ c["ALCMode"] \in CallsOf("ALCMode")
      /\ c["ALCNoiseGate"] \in CallsOf("ALCNoiseGate")
      /\ c["DACLimiter"] \in CallsOf("DACLimiter")
  <2>1. /\ c["ALCGain"] = ALCGain(v % 4, v, v)
        /\ c["ALCMode"] = ALCMode(v % 2, v, v, v, v)
        /\ c["ALCNoiseGate"] = ALCNoiseGate(b, v)
        /\ c["DACLimiter"] = DACLimiter(b, v, v, v, v)
    BY <1>4
  <2> QED BY <1>1, <1>2, <2>1, LimitCalls
<1>12. /\ c["ClockControl"] \in CallsOf("ClockControl") /\ c["GPIO1"] \in CallsOf("GPIO1")
      /\ c["JDSel"] \in CallsOf("JDSel")
  <2>1. /\ c["ClockControl"] = ClockControl(b, v % 2, v % 6, v % 8)
        /\ c["GPIO1"] = GPIO1(v % 8, b)
        /\ c["JDSel"] = JDSel(v % 3, b)
    BY <1>4
  <2> QED BY <1>1, <1>2, <2>1, ClockCalls
<1>13. /\ c["I2SInterface"] \in CallsOf("I2SInterface") /\ c["VMID"] \in CallsOf("VMID")
      /\ c["SampleRate"] \in CallsOf("SampleRate") /\ c["EQ1"] \in CallsOf("EQ1")
      /\ c["BeepVol"] \in CallsOf("BeepVol")
  <2>1. /\ c["I2SInterface"] = I2SInterface(v % 4, v % 4)
        /\ c["VMID"] = VMID(b, v % 4)
        /\ c["SampleRate"] = SampleRate(v % 8)
        /\ c["EQ1"] = EQ1(v, v % 4)
        /\ c["BeepVol"] = BeepVol(b, v)
    BY <1>4
  <2> QED BY <1>1, <1>2, <2>1, ChangeCalls
<1>14. /\ c["InpPGAL"] \in CallsOf("InpPGAL") /\ c["InpPGAR"] \in CallsOf("InpPGAR")
      /\ c["MicBias"] \in CallsOf("MicBias") /\ c["SpkBoost"] \in CallsOf("SpkBoost")
      /\ c["BufIO"] \in CallsOf("BufIO")
  <2>1. /\ c["InpPGAL"] = InpPGAL(v % 4)
        /\ c["InpPGAR"] = InpPGAR(v % 4)
        /\ c["MicBias"] = MicBias(b, v % 2)
        /\ c["SpkBoost"] = SpkBoost(b)
        /\ c["BufIO"] = BufIO(b, v % 2)
    BY <1>4
  <2> QED BY <1>1, <1>2, <2>1, PathCalls
<1>15. /\ c["BoostL"] \in CallsOf("BoostL") /\ c["BoostR"] \in CallsOf("BoostR")
  <2>1. /\ c["BoostL"] = BoostL(b, v, v, v)
        /\ c["BoostR"] = BoostR(b, v, v, v)
    BY <1>4
  <2> QED BY <1>1, <1>2, <2>1, BoostCalls
<1>16. /\ c["ADCVolume"] \in CallsOf("ADCVolume") /\ c["Depth3D"] \in CallsOf("Depth3D")
      /\ c["DACVolume"] \in CallsOf("DACVolume") /\ c["JDen"] \in CallsOf("JDen")
  <2>1. /\ c["ADCVolume"] = ADCVolume(v, v)
        /\ c["Depth3D"] = Depth3D(v)
        /\ c["DACVolume"] = DACVolume(v, v)
        /\ c["JDen"] = JDen(v, v)
    BY <1>4
  <2> QED BY <1>1, <1>2, <2>1, VolumeCalls, ZenonT(30)
<1>17. /\ c["NotchFilter"] \in CallsOf("NotchFilter")
  <2>1. /\ c["NotchFilter"] = NotchFilter(b, v * 64, v * 64)
    BY <1>4
  <2> QED BY <1>1, <1>2, <2>1, NotchCalls
<1>18. /\ c["PLLClock"] \in CallsOf("PLLClock")
  <2>1. /\ c["PLLClock"] = PLLClock(b, v, k)
    BY <1>4
  <2> QED BY <1>1, <1>2, <2>1, PLLCalls
<1> QED BY <1>5, <1>6, <1>7, <1>8, <1>9, <1>10, <1>11, <1>12, <1>13, <1>14, <1>15, <1>16, <1>17, <1>18 DEF c

----------------------------------------------------------------------------
(* The registers after some writes.                                        *)

Cells == [Registers -> SUBSET Nat]

\* A write keeps the registers sets of bits.
LEMMA OneWriteCells ==
  ASSUME NEW c \in Cells, NEW w \in WriteSet
  PROVE  /\ OneWrite(c, w) \in Cells
         /\ \A r \in Registers : OneWrite(c, w)[r] = IF w.reg = r THEN NewValue(c, w) ELSE c[r]
<1>1. w.reg \in Registers => NewValue(c, w) \in SUBSET Nat
  BY DEF NewValue, Cells, WriteSet
<1> QED BY <1>1 DEF OneWrite, Cells

\* The registers between the writes.
LEMMA AfterSteps ==
  ASSUME NEW regs \in Cells, NEW ws \in Seq(WriteSet)
  PROVE  \E a \in [0..Len(ws) -> Cells] :
           /\ a[0] = regs /\ After(regs, ws) = a[Len(ws)]
           /\ \A n \in 1..Len(ws) : a[n] = OneWrite(a[n - 1], ws[n])
<1> DEFINE N == Len(ws)
           step == [n \in 1..N |-> [c \in Cells |-> OneWrite(c, ws[n])]]
           Def(a) == a = [n \in 0..N |-> IF n = 0 THEN regs ELSE OneWrite(a[n - 1], ws[n])]
           A == CHOOSE a : Def(a)
<1>1. N \in Nat /\ \A n \in 1..N : ws[n] \in WriteSet
  BY LenProperties, ElementOfSeq
<1>2. After(regs, ws) = A[N]
  BY DEF After
<1>3. step \in [1..N -> [Cells -> Cells]]
  BY <1>1, OneWriteCells
<1>4. \A n \in 1..N, c \in Cells : step[n][c] = OneWrite(c, ws[n])
  OBVIOUS
<1> HIDE DEF step, N, A
<1>5. PICK f \in [0..N -> Cells] : Follows(f, N, regs, step)
  BY <1>1, <1>3, ByRecursion
<1>6. \A n \in 1..N : f[n] = OneWrite(f[n - 1], ws[n])
  <2> SUFFICES ASSUME NEW n \in 1..N PROVE f[n] = OneWrite(f[n - 1], ws[n])
    OBVIOUS
  <2>1. n - 1 \in 0..N
    BY <1>1
  <2>2. f[n - 1] \in Cells /\ f[n] = step[n][f[n - 1]]
    BY <1>5, <2>1 DEF Follows
  <2> QED BY <1>4, <2>2
<1>7. Def(f)
  BY <1>1, <1>5, <1>6 DEF Follows
<1> HIDE DEF Def
<1>8. Def(A)
  BY <1>7 DEF A
<1>9. A = [n \in 0..N |-> IF n = 0 THEN regs ELSE OneWrite(A[n - 1], ws[n])]
  BY <1>8 DEF Def
<1>10. A[0] = regs /\ \A n \in 1..N : A[n] = OneWrite(A[n - 1], ws[n])
  BY <1>1, <1>9
<1> DEFINE T == {n \in 0..N : A[n] \in Cells}
<1>11. 0 \in T
  BY <1>1, <1>10
<1>12. \A n \in 0..N - 1 : n \in T => n + 1 \in T
  <2> SUFFICES ASSUME NEW n \in 0..N - 1, n \in T PROVE n + 1 \in T
    OBVIOUS
  <2>1. n + 1 \in 1..N /\ n + 1 - 1 = n /\ n + 1 \in 0..N /\ A[n] \in Cells
    BY <1>1
  <2>2. A[n + 1] = OneWrite(A[n], ws[n + 1]) /\ ws[n + 1] \in WriteSet
    BY <1>1, <1>10, <2>1
  <2> QED BY <2>1, <2>2, OneWriteCells
<1> HIDE DEF T
<1>13. 0..N \subseteq T
  BY <1>1, <1>11, <1>12, UpTo
<1>14. \A n \in 0..N : A[n] \in Cells
  BY <1>13 DEF T
<1>15. A \in [0..N -> Cells]
  BY <1>9, <1>14
<1> QED BY <1>2, <1>10, <1>15 DEF N

\* What every write keeps, all of them keep.
LEMMA AfterStays ==
  ASSUME NEW regs \in Cells, NEW ws \in Seq(WriteSet), NEW T, regs \in T,
         \A c \in Cells \cap T, i \in 1..Len(ws) : OneWrite(c, ws[i]) \in T
  PROVE  After(regs, ws) \in Cells \cap T
<1> PICK a \in [0..Len(ws) -> Cells] :
           /\ a[0] = regs /\ After(regs, ws) = a[Len(ws)]
           /\ \A n \in 1..Len(ws) : a[n] = OneWrite(a[n - 1], ws[n])
  BY AfterSteps
<1> DEFINE N == Len(ws)
           S == {n \in 0..N : a[n] \in T}
<1>1. N \in Nat
  BY LenProperties
<1>2. 0 \in S
  BY <1>1
<1>3. \A n \in 0..N - 1 : n \in S => n + 1 \in S
  <2> SUFFICES ASSUME NEW n \in 0..N - 1, n \in S PROVE n + 1 \in S
    OBVIOUS
  <2>1. n + 1 \in 1..N /\ n + 1 - 1 = n /\ n + 1 \in 0..N /\ n \in 0..N /\ a[n] \in Cells \cap T
    BY <1>1
  <2> QED BY <2>1
<1> HIDE DEF S
<1>4. 0..N \subseteq S
  BY <1>1, <1>2, <1>3, UpTo
<1>5. N \in S /\ N \in 0..N
  BY <1>1, <1>4
<1> QED BY <1>5 DEF S

\* A call writes each of its registers once, and leaves the others as they were.
LEMMA AfterCall ==
  ASSUME NEW name, NEW ws \in CallsOf(name), NEW regs \in Cells
  PROVE  /\ After(regs, ws) \in Cells
         /\ \A i \in 1..Len(ws) : After(regs, ws)[ws[i].reg] = NewValue(regs, ws[i])
         /\ \A r \in Registers : (\A i \in 1..Len(ws) : ws[i].reg # r) => After(regs, ws)[r] = regs[r]
<1> DEFINE N == Len(ws)
<1>1. /\ ws \in Seq(WriteSet) /\ N \in Nat
      /\ \A i \in 1..N : ws[i] \in WriteSet /\ ws[i].reg \in Registers
      /\ \A i, j \in 1..N : ws[i].reg = ws[j].reg => i = j
  BY LenProperties DEF CallsOf, Fits
<1> PICK a \in [0..N -> Cells] :
           /\ a[0] = regs /\ After(regs, ws) = a[N]
           /\ \A n \in 1..N : a[n] = OneWrite(a[n - 1], ws[n])
  BY <1>1, AfterSteps
<1> DEFINE S == {n \in 0..N :
                   \A r \in Registers :
                     /\ \A i \in 1..n : ws[i].reg = r => a[n][r] = NewValue(regs, ws[i])
                     /\ (\A i \in 1..n : ws[i].reg # r) => a[n][r] = regs[r]}
<1>2. 0 \in S
  BY <1>1
<1>3. \A n \in 0..N - 1 : n \in S => n + 1 \in S
  <2> SUFFICES ASSUME NEW n \in 0..N - 1, n \in S PROVE n + 1 \in S
    OBVIOUS
  <2> DEFINE m == n + 1
             w == ws[m]
             q == w.reg
  <2>1. m \in 1..N /\ m - 1 = n /\ m \in 0..N /\ n \in 0..N /\ a[n] \in Cells
    BY <1>1
  <2>2. w \in WriteSet /\ q \in Registers /\ \A i \in 1..N : ws[i].reg = q => i = m
    BY <1>1, <2>1
  <2>3. \A r \in Registers : a[m][r] = IF q = r THEN NewValue(a[n], w) ELSE a[n][r]
    <3>1. a[m] = OneWrite(a[n], ws[m])
      BY <2>1
    <3> HIDE DEF m, w
    <3>2. \A r \in Registers : OneWrite(a[n], w)[r] = IF w.reg = r THEN NewValue(a[n], w) ELSE a[n][r]
      BY <2>1, <2>2, OneWriteCells
    <3> QED BY <3>1, <3>2 DEF w
  <2>4. 1..m = 1..n \cup {m} /\ 1..n \subseteq 1..N /\ m \notin 1..n
    BY <1>1, <2>1
  <2>5. a[n][q] = regs[q]
    <3>1. \A i \in 1..n : ws[i].reg # q
      BY <2>2, <2>4
    <3> QED BY <2>2, <3>1
  <2>6. NewValue(a[n], w) = NewValue(regs, w)
    BY <2>5 DEF NewValue
  <2>7. \A r \in Registers :
          /\ \A i \in 1..m : ws[i].reg = r => a[m][r] = NewValue(regs, ws[i])
          /\ (\A i \in 1..m : ws[i].reg # r) => a[m][r] = regs[r]
    <3> SUFFICES ASSUME NEW r \in Registers
                 PROVE  /\ \A i \in 1..m : ws[i].reg = r => a[m][r] = NewValue(regs, ws[i])
                        /\ (\A i \in 1..m : ws[i].reg # r) => a[m][r] = regs[r]
      OBVIOUS
    <3>1. /\ \A i \in 1..n : ws[i].reg = r => a[n][r] = NewValue(regs, ws[i])
          /\ (\A i \in 1..n : ws[i].reg # r) => a[n][r] = regs[r]
      OBVIOUS
    <3> HIDE DEF m, q, w
    <3>2. CASE q = r
      <4>1. a[m][r] = NewValue(regs, w) /\ w = ws[m]
        BY <2>3, <2>6, <3>2 DEF w
      <4>2. \A i \in 1..m : ws[i].reg = r => i = m
        BY <2>1, <2>2, <2>4, <3>2
      <4>3. ws[m].reg = r /\ m \in 1..m
        BY <2>4, <3>2 DEF w, q
      <4> QED BY <4>1, <4>2, <4>3
    <3>3. CASE q # r
      <4>1. a[m][r] = a[n][r] /\ ws[m].reg # r
        BY <2>3, <3>3 DEF w, q
      <4> QED BY <2>4, <3>1, <4>1
    <3> QED BY <3>2, <3>3
  <2> QED BY <2>1, <2>7
<1> HIDE DEF S
<1>4. 0..N \subseteq S
  BY <1>1, <1>2, <1>3, UpTo
<1>5. N \in S /\ N \in 0..N /\ a[N] \in Cells
  BY <1>1, <1>4
<1> QED BY <1>1, <1>5 DEF S

\* A sequence of writes after another.
LEMMA AfterJoined ==
  ASSUME NEW regs \in Cells, NEW ws \in Seq(WriteSet), NEW more \in Seq(WriteSet)
  PROVE  After(regs, ws \o more) = After(After(regs, ws), more)
<1> DEFINE M == Len(ws)
           N == Len(more)
           all == ws \o more
           mid == After(regs, ws)
<1>1. /\ M \in Nat /\ N \in Nat /\ all \in Seq(WriteSet) /\ Len(all) = M + N
      /\ \A i \in 1..M : all[i] = ws[i]
      /\ \A i \in 1..N : all[M + i] = more[i]
  BY LenProperties, ConcatProperties
<1> HIDE DEF all, M, N
<1> PICK a \in [0..M -> Cells] :
           /\ a[0] = regs /\ After(regs, ws) = a[M]
           /\ \A n \in 1..M : a[n] = OneWrite(a[n - 1], ws[n])
  BY AfterSteps DEF M
<1>2. mid \in Cells /\ mid = a[M]
  BY <1>1
<1> HIDE DEF mid
<1> PICK b \in [0..N -> Cells] :
           /\ b[0] = mid /\ After(mid, more) = b[N]
           /\ \A n \in 1..N : b[n] = OneWrite(b[n - 1], more[n])
  BY <1>2, AfterSteps DEF N
<1>a. \E c \in [0..Len(all) -> Cells] :
           /\ c[0] = regs /\ After(regs, all) = c[Len(all)]
           /\ \A n \in 1..Len(all) : c[n] = OneWrite(c[n - 1], all[n])
  BY <1>1, AfterSteps
<1> PICK c \in [0..M + N -> Cells] :
           /\ c[0] = regs /\ After(regs, all) = c[M + N]
           /\ \A n \in 1..M + N : c[n] = OneWrite(c[n - 1], all[n])
  BY <1>1, <1>a
<1> DEFINE S == {n \in 0..M : c[n] = a[n]}
           T == {n \in 0..N : c[M + n] = b[n]}
<1>3. 0 \in S
  BY <1>1
<1>4. \A n \in 0..M - 1 : n \in S => n + 1 \in S
  <2> SUFFICES ASSUME NEW n \in 0..M - 1, n \in S PROVE n + 1 \in S
    OBVIOUS
  <2>1. n + 1 \in 1..M /\ n + 1 - 1 = n /\ n + 1 \in 0..M /\ n + 1 \in 1..M + N /\ c[n] = a[n]
    BY <1>1
  <2>2. c[n + 1] = OneWrite(c[n], all[n + 1]) /\ a[n + 1] = OneWrite(a[n], ws[n + 1])
    BY <2>1
  <2> QED BY <1>1, <2>1, <2>2
<1> HIDE DEF S
<1>5. 0..M \subseteq S
  BY <1>1, <1>3, <1>4, UpTo
<1>6. c[M] = mid
  <2>1. M \in S
    BY <1>1, <1>5
  <2> QED BY <1>2, <2>1 DEF S
<1>7. 0 \in T
  BY <1>1, <1>6
<1>8. \A n \in 0..N - 1 : n \in T => n + 1 \in T
  <2> SUFFICES ASSUME NEW n \in 0..N - 1, n \in T PROVE n + 1 \in T
    OBVIOUS
  <2>1. n + 1 \in 1..N /\ n + 1 - 1 = n /\ n + 1 \in 0..N /\ c[M + n] = b[n]
    BY <1>1
  <2> PICK p \in Nat : p = M + (n + 1)
    BY <1>1, <2>1
  <2>2. p \in 1..M + N /\ p - 1 = M + n /\ all[p] = more[n + 1]
    BY <1>1, <2>1
  <2>3. c[p] = OneWrite(c[p - 1], all[p])
    BY <2>2
  <2>4. b[n + 1] = OneWrite(b[n + 1 - 1], more[n + 1])
    BY <2>1
  <2>5. c[p] = b[n + 1]
    BY <2>1, <2>2, <2>3, <2>4
  <2> QED BY <2>1, <2>5
<1> HIDE DEF T
<1>9. 0..N \subseteq T
  BY <1>1, <1>7, <1>8, UpTo
<1>10. c[M + N] = b[N]
  <2>1. N \in T
    BY <1>1, <1>9
  <2> QED BY <2>1 DEF T
<1> QED BY <1>10 DEF all, mid

----------------------------------------------------------------------------
(* One caller: what a setter asked for stands.                             *)

\* Registers without a bit the chip has not, but for those of the PLL's fraction.
CleanCells == {c \in Cells : \A r \in Registers \ {38, 39} : c[r] \subseteq NineBits}

Shows(r) == chip[r] = Sent(cache[r])

\* A claim of setter n is on bits of its own, and the cache has them as they were put.
Stands(n, d) ==
  /\ d.reg \in Registers /\ d.bits \subseteq NineBits
  /\ \A b \in d.bits : Owner(d.reg, b) = n
  /\ cache[d.reg] \cap d.bits = d.put

AtRest ==
  /\ \A t \in Tasks : todo[t] = <<>> /\ hand[t] = Nothing
  /\ decoder = "off" /\ lost = {} /\ crossed = {}

\* R14 of the chip and of the cache differ after a reset, until its setter is called.
ApiInv ==
  /\ part = "api" /\ AtRest
  /\ cache \in CleanCells /\ chip \in Cells
  /\ \A n \in DOMAIN claims : \A d \in claims[n] : Stands(n, d)
  /\ \A r \in Registers : \/ Shows(r)
                          \/ /\ r = 14 /\ cache[14] = {}
                             /\ \A n \in DOMAIN claims : \A d \in claims[n] : d.reg # 14

\* The values after power on fit into nine bits.
LEMMA PowerOnFits ==
  /\ PowerOn \in CleanCells /\ ResetCache \in CleanCells
  /\ \A r \in Registers : PowerOn[r] \subseteq NineBits
  /\ \A r \in Registers : r # 14 => ResetCache[r] = PowerOn[r]
  /\ ResetCache[14] = {}
<1> DEFINE table == <<0, 0, 0, 0, 80, 0, 320, 0, 0, 0, 0, 255, 255, 0, 256, 255, 255, 0, 300, 44, 44,
                 44, 44, 0, 50, 0, 0, 0, 0, 0, 0, 0, 56, 11, 50, 0, 8, 12, 147, 233, 0, 0, 0, 0, 3,
                 16, 16, 256, 256, 2, 1, 1, 57, 57, 57, 57, 1, 1>>
<1>1. table \in Seq(0..511) /\ Len(table) = 58
  OBVIOUS
<1>2. PowerOn = [r \in Registers |-> Bits(table[r + 1], 0)]
  BY DEF PowerOn
<1> HIDE DEF table
<1>3. \A r \in Registers : table[r + 1] \in 0..511
  <2> SUFFICES ASSUME NEW r \in Registers PROVE table[r + 1] \in 0..511
    OBVIOUS
  <2>1. r + 1 \in 1..58
    BY DEF Registers
  <2> QED BY <1>1, <2>1, ElementOfSeq
<1>4. \A n \in 0..511 : Bits(n, 0) \in SUBSET NineBits
  BY InNine
<1>5. \A r \in Registers : PowerOn[r] \subseteq NineBits
  BY <1>2, <1>3, <1>4
<1>6. /\ PowerOn \in CleanCells
      /\ \A r \in Registers : r # 14 => ResetCache[r] = PowerOn[r]
      /\ ResetCache[14] = {} /\ DOMAIN ResetCache = Registers
  BY <1>2, <1>5 DEF CleanCells, Cells, ResetCache, Registers, NineBits
<1>7. ResetCache = [r \in Registers |-> IF r = 14 THEN {} ELSE PowerOn[r]]
  BY <1>2 DEF ResetCache
<1>8. ResetCache \in CleanCells
  <2>1. \A r \in Registers : ResetCache[r] \in SUBSET NineBits
    BY <1>5, <1>6
  <2>2. ResetCache \in [Registers -> SUBSET NineBits]
    BY <1>7, <2>1
  <2> QED BY <2>2 DEF CleanCells, Cells, NineBits
<1> QED BY <1>5, <1>6, <1>8

\* One of the calls is a call of its setter.
LEMMA CallsKnown ==
  ASSUME NEW c \in CallSet
  PROVE  c.writes \in CallsOf(c.name)
<1>1. PICK b \in BOOLEAN, v \in {0, 15, 255} :
        c \in {[name |-> n, writes |-> ApiCalls(b, v)[n]] : n \in DOMAIN ApiCalls(b, v)}
  BY DEF CallSet
<1>2. v \in 0..255
  OBVIOUS
<1>3. PICK n \in DOMAIN ApiCalls(b, v) : c = [name |-> n, writes |-> ApiCalls(b, v)[n]]
  BY <1>1
<1>4. ApiCalls(b, v)[n] \in CallsOf(n)
  BY <1>2, <1>3, EverySetter
<1> QED BY <1>3, <1>4

\* The registers after a call: those it writes have its value, the others stay.
LEMMA CallWrites ==
  ASSUME NEW name, NEW ws \in CallsOf(name), NEW regs \in CleanCells
  PROVE  /\ After(regs, ws) \in CleanCells
         /\ \A i \in DOMAIN ws :
              Fits(name, ws[i]) /\ After(regs, ws)[ws[i].reg] = NewValue(regs, ws[i])
         /\ \A r \in Registers : (\A i \in DOMAIN ws : ws[i].reg # r) => After(regs, ws)[r] = regs[r]
<1> DEFINE a == After(regs, ws)
<1>1. DOMAIN ws = 1..Len(ws) /\ \A i \in DOMAIN ws : Fits(name, ws[i])
  BY LenProperties DEF CallsOf
<1>2. regs \in Cells
  BY DEF CleanCells
<1>3. /\ a \in Cells
      /\ \A i \in DOMAIN ws : a[ws[i].reg] = NewValue(regs, ws[i])
      /\ \A r \in Registers : (\A i \in DOMAIN ws : ws[i].reg # r) => a[r] = regs[r]
  BY <1>1, <1>2, AfterCall
<1> HIDE DEF a
<1>4. \A r \in Registers \ {38, 39} : a[r] \subseteq NineBits
  <2> SUFFICES ASSUME NEW r \in Registers \ {38, 39} PROVE a[r] \subseteq NineBits
    OBVIOUS
  <2>1. regs[r] \subseteq NineBits
    BY DEF CleanCells
  <2>2. CASE \E i \in DOMAIN ws : ws[i].reg = r
    <3>1. PICK i \in DOMAIN ws : ws[i].reg = r
      BY <2>2
    <3>2. ws[i].put \subseteq NineBits
      BY <1>1, <3>1 DEF Fits
    <3> QED BY <1>3, <2>1, <3>1, <3>2 DEF NewValue
  <2>3. CASE \A i \in DOMAIN ws : ws[i].reg # r
    BY <1>3, <2>1, <2>3
  <2> QED BY <2>2, <2>3
<1>5. a \in CleanCells
  BY <1>3, <1>4 DEF CleanCells
<1> QED BY <1>1, <1>3, <1>5 DEF a

\* A write of setter n keeps what another setter put.
LEMMA OthersStand ==
  ASSUME NEW n, NEW w, Fits(n, w), NEW m, m # n, NEW d, d.reg = w.reg, NEW regs \in Cells,
         d.bits \subseteq NineBits, \A b \in d.bits : Owner(d.reg, b) = m
  PROVE  NewValue(regs, w) \cap d.bits = regs[w.reg] \cap d.bits
<1>1. \A b \in d.bits : b \in w.keep
  BY DEF Fits
<1>2. \A b \in d.bits : b \notin w.put
  BY <1>1 DEF Fits
<1> QED BY <1>1, <1>2 DEF NewValue

\* A setter called again replaces its own claim and leaves the other ones standing.
LEMMA ApiSetStep == ASSUME ApiInv, ApiSet PROVE ApiInv'
<1> PICK c \in CallSet :
      /\ cache' = After(cache, c.writes)
      /\ chip' = SentAfter(chip, c.writes)
      /\ claims' = [n \in DOMAIN claims \cup {c.name} |-> IF n = c.name THEN Claimed(c) ELSE claims[n]]
  BY DEF ApiSet
<1> DEFINE ws == c.writes
           name == c.name
<1>1. ws \in CallsOf(name)
  BY CallsKnown
<1>2. cache \in CleanCells /\ cache \in Cells
  BY DEF ApiInv, CleanCells
<1>3. /\ cache' \in CleanCells
      /\ \A i \in DOMAIN ws : Fits(name, ws[i]) /\ cache'[ws[i].reg] = NewValue(cache, ws[i])
      /\ \A r \in Registers : (\A i \in DOMAIN ws : ws[i].reg # r) => cache'[r] = cache[r]
  BY <1>1, <1>2, CallWrites
<1>4. /\ DOMAIN chip' = Registers
      /\ \A r \in Registers : chip'[r] = IF \E i \in DOMAIN ws : ws[i].reg = r
                                         THEN Sent(cache'[r]) ELSE chip[r]
  BY DEF SentAfter
<1>5. Range(ws) = {ws[i] : i \in DOMAIN ws}
  BY DEF Range
<1>6. Claimed(c) = {[reg |-> w.reg, bits |-> NineBits \ w.keep, put |-> Sent(w.put)] : w \in Range(ws)}
                   \cup {old \in (IF name \in DOMAIN claims THEN claims[name] ELSE {}) :
                           \A w \in Range(ws) : w.reg # old.reg}
  BY DEF Claimed
<1>7. AtRest' /\ part' = "api"
  BY DEF ApiInv, ApiSet, AtRest
<1> HIDE DEF ws, name
<1>8. chip' \in Cells
  <2>1. \A r \in Registers : chip'[r] \in SUBSET Nat
    <3>1. \A r \in Registers : chip[r] \in SUBSET Nat
      BY DEF ApiInv, Cells
    <3>2. \A r \in Registers : Sent(cache'[r]) \in SUBSET Nat
      BY DEF Sent, NineBits
    <3> QED BY <1>4, <3>1, <3>2
  <2>2. chip' = [r \in Registers |-> chip'[r]]
    BY DEF SentAfter
  <2> QED BY <2>1, <2>2 DEF Cells
<1>9. ASSUME NEW n \in DOMAIN claims', NEW d \in claims'[n] PROVE Stands(n, d)'
  <2>1. CASE \E w \in Range(ws) : n = name /\ d = [reg |-> w.reg, bits |-> NineBits \ w.keep, put |-> Sent(w.put)]
    <3>1. PICK i \in DOMAIN ws :
            n = name /\ d = [reg |-> ws[i].reg, bits |-> NineBits \ ws[i].keep, put |-> Sent(ws[i].put)]
      BY <1>5, <2>1
    <3> DEFINE w == ws[i]
    <3>2. d.reg = w.reg /\ d.bits = NineBits \ w.keep /\ d.put = Sent(w.put)
      BY <3>1
    <3>3. Fits(name, w) /\ cache'[w.reg] = NewValue(cache, w)
      BY <1>3, <3>1
    <3> HIDE DEF w
    <3>4. NewValue(cache, w) \cap (NineBits \ w.keep) = Sent(w.put)
      BY <3>3 DEF NewValue, Sent, Fits
    <3> QED BY <3>1, <3>2, <3>3, <3>4 DEF Stands, Fits
  <2>2. CASE n \in DOMAIN claims /\ d \in claims[n] /\ (n = name => \A w \in Range(ws) : w.reg # d.reg)
    <3>1. Stands(n, d)
      BY <2>2 DEF ApiInv
    <3>2. CASE \E i \in DOMAIN ws : ws[i].reg = d.reg
      <4>1. PICK i \in DOMAIN ws : ws[i].reg = d.reg
        BY <3>2
      <4>2. n # name
        BY <1>5, <2>2, <4>1
      <4>3. Fits(name, ws[i]) /\ cache'[d.reg] = NewValue(cache, ws[i])
        BY <1>3, <4>1
      <4>4. NewValue(cache, ws[i]) \cap d.bits = cache[d.reg] \cap d.bits
        BY <1>2, <3>1, <4>1, <4>2, <4>3, OthersStand DEF Stands
      <4> QED BY <3>1, <4>3, <4>4 DEF Stands
    <3>3. CASE \A i \in DOMAIN ws : ws[i].reg # d.reg
      <4>1. cache'[d.reg] = cache[d.reg]
        BY <1>3, <3>1, <3>3 DEF Stands
      <4> QED BY <3>1, <4>1 DEF Stands
    <3> QED BY <3>2, <3>3
  <2>3. CASE n = name
    <3>1. d \in Claimed(c)
      BY <2>3 DEF name
    <3> QED BY <1>6, <2>1, <2>2, <2>3, <3>1
  <2>4. CASE n # name
    <3>1. n \in DOMAIN claims /\ d \in claims[n]
      BY <2>4 DEF name
    <3> QED BY <2>2, <2>4, <3>1
  <2> QED BY <2>3, <2>4
<1>10. ASSUME NEW r \in Registers, ~Shows(r)'
       PROVE  r = 14 /\ cache'[14] = {} /\ \A n \in DOMAIN claims' : \A d \in claims'[n] : d.reg # 14
  <2>1. \A i \in DOMAIN ws : ws[i].reg # r
    BY <1>4, <1>10 DEF Shows
  <2>2. cache'[r] = cache[r] /\ chip'[r] = chip[r]
    BY <1>3, <1>4, <2>1
  <2>3. r = 14 /\ cache[14] = {} /\ \A n \in DOMAIN claims : \A d \in claims[n] : d.reg # 14
    BY <1>10, <2>2 DEF ApiInv, Shows
  <2>4. \A w \in Range(ws) : w.reg # 14
    BY <1>5, <2>1, <2>3
  <2>5. \A d \in Claimed(c) : d.reg # 14
    BY <1>6, <2>3, <2>4
  <2> QED BY <2>2, <2>3, <2>5
<1> QED BY <1>3, <1>7, <1>8, <1>9, <1>10 DEF ApiInv

\* After a reset there is nothing to stand.
LEMMA ApiResetStep == ASSUME ApiInv, ApiReset PROVE ApiInv'
<1>1. cache' = ResetCache /\ chip' = PowerOn /\ claims' = Unclaimed /\ DOMAIN claims' = {}
  BY DEF ApiReset, Unclaimed
<1>2. \A r \in Registers : Sent(PowerOn[r]) = PowerOn[r]
  BY PowerOnFits DEF Sent
<1>3. /\ ResetCache \in CleanCells /\ PowerOn \in Cells
      /\ \A r \in Registers : r # 14 => ResetCache[r] = PowerOn[r]
      /\ ResetCache[14] = {}
  BY PowerOnFits DEF CleanCells
<1>4. AtRest' /\ part' = "api"
  BY DEF ApiInv, ApiReset, AtRest
<1> QED BY <1>1, <1>2, <1>3, <1>4 DEF ApiInv, Shows

\* No other step has something to do while the setters are called one by one.
LEMMA ApiStep == ASSUME ApiInv, Next PROVE ApiInv'
<1>1. ApiSet \/ ApiReset
  <2>1. \A t \in Tasks : ~ReadReg(t) /\ ~StoreReg(t) /\ ~SendReg(t) /\ ~SetI2s(t)
    BY DEF ApiInv, AtRest, ReadReg, StoreReg, SendReg, SetI2s, Idle, Nothing
  <2>2. ~parse_Vol /\ ~jack_dect_cb /\ ~WavStart /\ ~Mp3Start /\ ~Frame /\ ~Stop /\ ~DecoderExit
    BY DEF ApiInv, AtRest, parse_Vol, jack_dect_cb, WavStart, Mp3Start, Frame, Stop, DecoderExit
  <2> QED BY <2>1, <2>2 DEF Next
<1> QED BY <1>1, ApiSetStep, ApiResetStep

\* The property follows.
LEMMA ApiHolds == ASSUME ApiInv PROVE RegistersHold
<1>1. SettingsStand
  <2> SUFFICES ASSUME NEW n \in DOMAIN claims, NEW d \in claims[n]
               PROVE  chip[d.reg] \cap d.bits = d.put
    BY DEF SettingsStand
  <2>1. Stands(n, d) /\ Shows(d.reg)
    BY DEF ApiInv, Stands
  <2> QED BY <2>1 DEF Stands, Shows, Sent
<1>2. ShadowTrue
  BY DEF ApiInv, CleanCells, ShadowTrue, Shows
<1> QED BY <1>1, <1>2 DEF RegistersHold

----------------------------------------------------------------------------
(* Tasks that write registers at the same time.                            *)

\* A write of a task: not of the PLL's fraction, and of nine bits.
TidySet == [reg : Nat \ {38, 39}, keep : SUBSET Word, put : SUBSET NineBits]
Tidy(ws) == ws \in Seq(TidySet)

\* The writes of every call but the PLL's.
LEMMA CallsTidy ==
  ASSUME NEW name, name # "PLLClock", NEW ws \in CallsOf(name)
  PROVE  Tidy(ws)
<1>1. ws \in Seq(WriteSet) /\ \A i \in DOMAIN ws : Fits(name, ws[i])
  BY DEF CallsOf
<1>2. \A i \in DOMAIN ws : ws[i] \in TidySet
  BY <1>1 DEF Fits, WriteSet, TidySet
<1>3. Len(ws) \in Nat /\ DOMAIN ws = 1..Len(ws) /\ ws = [i \in 1..Len(ws) |-> ws[i]]
  BY <1>1, LenProperties
<1> QED BY <1>2, <1>3, SeqDef DEF Tidy

\* One list after another.
LEMMA TidyJoined == \A s, t : Tidy(s) /\ Tidy(t) => Tidy(s \o t)
BY ConcatProperties DEF Tidy

\* A write to the I2S port is no write to the codec's registers.
LEMMA I2sTidy ==
  ASSUME NEW what \in {Clock, RxChannel}, NEW setting \in NineBits
  PROVE  Tidy(<<I2s(what, setting)>>)
<1>1. I2s(what, setting) \in TidySet
  BY DEF I2s, TidySet, Clock, RxChannel
<1> QED BY <1>1 DEF Tidy

\* The writes of the rate, the volume, the microphone and the start of the board.
LEMMA RateTidy ==
  /\ \A rate \in 0..8 : Tidy(SetSampleRates(rate))
  /\ \A rate \in Rates \cup {NoRate + 1} : Tidy(SetTxclk(rate))
<1>1. ASSUME NEW rate \in 0..8 PROVE Tidy(SetSampleRates(rate))
  <2>1. rate % 8 \in 0..7 /\ rate \in NineBits
    BY DEF NineBits
  <2>2. Tidy(SampleRate(rate % 8))
    BY <2>1, ChangeCalls, CallsTidy
  <2>3. Tidy(<<I2s(Clock, rate)>>)
    BY <2>1, I2sTidy
  <2> QED BY <2>2, <2>3, TidyJoined DEF SetSampleRates
<1>2. \A rate \in Rates : rate \in 0..8
  BY CodecAssumption
<1>3. Tidy(<<>>)
  BY DEF Tidy
<1>4. ASSUME NEW rate \in Rates \cup {NoRate + 1} PROVE Tidy(SetTxclk(rate))
  <2>1. CASE rate \in Rates
    BY <1>1, <1>2, <1>3, <2>1 DEF SetTxclk
  <2>2. CASE rate = NoRate + 1
    BY <1>3, <2>2 DEF SetTxclk, NoRate
  <2> QED BY <2>1, <2>2
<1> QED BY <1>1, <1>4

LEMMA VolumeTidy ==
  ASSUME NEW mute, NEW vol \in Nat
  PROVE  Tidy(EarphoneVolume(mute, vol)) /\ Tidy(SpeakerVolume(mute, vol))
<1>1. /\ Tidy(LOUT1Volume(mute, vol)) /\ Tidy(ROUT1Volume(mute, vol))
      /\ Tidy(LOUT2Volume(mute, vol)) /\ Tidy(ROUT2Volume(mute, vol))
  BY GainCalls, CallsTidy
<1> QED BY <1>1, TidyJoined DEF EarphoneVolume, SpeakerVolume

LEMMA MicTidy ==
  /\ \A on : Tidy(LeftMic(on)) /\ Tidy(RightMic(on))
  /\ \A m : Tidy(SetChannel(m))
<1>1. /\ Tidy(InpPGAL(2)) /\ Tidy(InpPGAL(0)) /\ Tidy(InpPGAR(2)) /\ Tidy(InpPGAR(0))
  BY PathCalls, CallsTidy
<1>2. /\ Tidy(BoostL(TRUE, 1, 0, 0)) /\ Tidy(BoostL(FALSE, 0, 0, 0))
      /\ Tidy(BoostR(TRUE, 1, 0, 0)) /\ Tidy(BoostR(FALSE, 0, 0, 0))
  BY BoostCalls, CallsTidy
<1>3. Tidy(PGAGainR(FALSE, 45)) /\ Tidy(PGAGainL(FALSE, 45))
  BY GainCalls, CallsTidy
<1>4. \A on : Tidy(LeftMic(on)) /\ Tidy(RightMic(on))
  BY <1>1, <1>2, TidyJoined DEF LeftMic, RightMic
<1>5. Tidy(<<I2s(RxChannel, 4)>>) /\ Tidy(<<I2s(RxChannel, 3)>>)
  BY I2sTidy DEF NineBits
<1> QED BY <1>3, <1>4, <1>5, TidyJoined DEF SetChannel

LEMMA BoardTidy == Tidy(BoardInit)
<1>1. Tidy(I2sInit(3))
  <2>1. Tidy(SampleRate(3 % 8)) /\ Tidy(I2SInterface(2, 0)) /\ Tidy(VMID(TRUE, 3))
    <3>a. 3 % 8 \in 0..7 /\ 3 \in 0..3 /\ 2 \in 0..3 /\ 0 \in 0..3
      OBVIOUS
    <3>1. /\ SampleRate(3 % 8) \in CallsOf("SampleRate") /\ VMID(TRUE, 3) \in CallsOf("VMID")
      BY <3>a, ChangeCalls, Zenon
    <3>2. \A i2s_mode, word_len \in 0..3 : I2SInterface(i2s_mode, word_len) \in CallsOf("I2SInterface")
      BY ChangeCalls
    <3>3. I2SInterface(2, 0) \in CallsOf("I2SInterface")
      BY <3>2
    <3> QED BY <3>1, <3>3, CallsTidy
  <2>2. Tidy(ClockControl(FALSE, 0, 0, 0))
    <3>1. \A on, clk : \A bclk \in 0..5, mclk \in 0..7 :
            ClockControl(on, clk, bclk, mclk) \in CallsOf("ClockControl")
      BY ClockCalls
    <3>2. ClockControl(FALSE, 0, 0, 0) \in CallsOf("ClockControl")
      <4>1. 0 \in 0..5 /\ 0 \in 0..7
        OBVIOUS
      <4> QED BY <3>1, <4>1, Zenon
    <3> QED BY <3>2, CallsTidy
  <2>3. Tidy(MicBias(TRUE, 1))
    BY PathCalls, CallsTidy
  <2>4. Tidy(TSDEnable(TRUE)) /\ Tidy(InvROUT2(TRUE, FALSE))
    BY PathSwitches, CallsTidy
  <2>5. Tidy(LeftMixer(TRUE, FALSE, FALSE, 0, 0)) /\ Tidy(RightMixer(TRUE, FALSE, FALSE, 0, 0))
    BY MixerCalls, CallsTidy
  <2>6. /\ Tidy(MIXEnable(TRUE, TRUE)) /\ Tidy(DACEnable(TRUE, TRUE)) /\ Tidy(DACMode(1, TRUE, FALSE))
        /\ Tidy(ADCEnable(TRUE, TRUE)) /\ Tidy(ADCMode(1)) /\ Tidy(EQ3DMode(1))
    BY PowerSwitches, CallsTidy
  <2> QED BY <2>1, <2>2, <2>3, <2>4, <2>5, <2>6, TidyJoined DEF I2sInit
<1>2. Tidy(EarphoneSpeaker(30))
  <2>1. Tidy(OUT1Enable(TRUE, TRUE)) /\ Tidy(OUT2Enable(TRUE, TRUE)) /\ Tidy(SlowClkEnable(TRUE))
    BY PowerSwitches, CallsTidy
  <2>2. Tidy(SpkBoost(TRUE))
    BY PathCalls, CallsTidy
  <2>3. Tidy(JDen(1, 32))
    <3>1. \A l, r \in 0..255 : JDen(l, r) \in CallsOf("JDen")
      BY VolumeCalls
    <3>2. JDen(1, 32) \in CallsOf("JDen")
      <4>1. 1 \in 0..255 /\ 32 \in 0..255
        OBVIOUS
      <4> QED BY <3>1, <4>1, Zenon
    <3> QED BY <3>2, CallsTidy
  <2>4. Tidy(JDSel(0, TRUE))
    <3>1. \A on : \A jd \in 0..2 : JDSel(jd, on) \in CallsOf("JDSel")
      BY ClockCalls
    <3>2. JDSel(0, TRUE) \in CallsOf("JDSel")
      <4>1. 0 \in 0..2
        OBVIOUS
      <4> QED BY <3>1, <4>1, Zenon
    <3> QED BY <3>2, CallsTidy
  <2>5. Tidy(EarphoneVolume(FALSE, 30)) /\ Tidy(SpeakerVolume(FALSE, 30))
    BY VolumeTidy
  <2> QED BY <2>1, <2>2, <2>3, <2>4, <2>5, TidyJoined DEF EarphoneSpeaker
<1> QED BY <1>1, <1>2, MicTidy, TidyJoined DEF BoardInit

HandSet == [reg : Registers \ {38, 39}, value : SUBSET NineBits, stored : BOOLEAN]

\* A task has nothing in hand, or the value of its next write, which is in the cache once it is
\* stored, unless another task was at the same register.
Holding(t) ==
  \/ hand[t] = Nothing
  \/ /\ hand[t] \in HandSet /\ todo[t] # <<>> /\ hand[t].reg = Head(todo[t]).reg
     /\ hand[t].stored /\ hand[t].reg \notin crossed => cache[hand[t].reg] = hand[t].value

Held(r) == \E t \in Tasks : hand[t].reg = r

TaskInv ==
  /\ part \in {"paths", "rates"} /\ claims = Unclaimed
  /\ cache \in CleanCells /\ chip \in Cells
  /\ DOMAIN todo = Tasks /\ DOMAIN hand = Tasks
  /\ \A t \in Tasks : Tidy(todo[t]) /\ Holding(t)
  /\ \A t, u \in Tasks : t # u /\ hand[t] # Nothing /\ hand[t].reg = hand[u].reg => hand[t].reg \in crossed
  /\ \A r \in Registers : ~Held(r) /\ r \notin lost \cup crossed /\ (r = 14 => cache[14] # {}) => Shows(r)

\* What the invariant says of the registers does not depend on what is played.
LEMMA TaskRest ==
  ASSUME TaskInv, UNCHANGED <<part, cache, chip, claims, todo, hand, lost, crossed>>
  PROVE  TaskInv'
BY DEF TaskInv, Holding, Held, Shows

\* A task that is idle is given some writes.
LEMMA TaskGiven ==
  ASSUME TaskInv, NEW t \in Tasks, NEW ws, Tidy(ws), todo[t] = <<>>, todo' = [todo EXCEPT ![t] = @ \o ws],
         UNCHANGED <<part, cache, chip, claims, hand, lost, crossed>>
  PROVE  TaskInv'
<1>1. /\ DOMAIN todo' = Tasks /\ todo'[t] = todo[t] \o ws
      /\ \A u \in Tasks : u # t => todo'[u] = todo[u]
  BY DEF TaskInv
<1>2. Tidy(todo[t] \o ws)
  BY TidyJoined DEF TaskInv
<1>3. hand[t] = Nothing
  BY DEF TaskInv, Holding
<1>4. \A u \in Tasks : (Tidy(todo[u]) /\ Holding(u))'
  BY <1>1, <1>2, <1>3 DEF TaskInv, Holding
<1> QED BY <1>1, <1>4 DEF TaskInv, Held, Shows

\* The first of the writes that are left is a tidy one, and so are the others.
LEMMA TidyHead ==
  ASSUME NEW ws, Tidy(ws), ws # <<>>
  PROVE  Head(ws) \in TidySet /\ Tidy(Tail(ws))
BY HeadTailProperties DEF Tidy

\* A task that holds nothing holds no register.
LEMMA NothingHeld == Nothing.reg \notin Registers /\ ~Nothing.stored /\ Nothing.reg = 99
BY DEF Nothing, Registers

\* What a task may hold.
LEMMA HandKnown ==
  ASSUME TaskInv, NEW t \in Tasks, hand[t] # Nothing
  PROVE  /\ hand[t] \in HandSet /\ hand[t].reg \in Registers \ {38, 39}
         /\ hand[t].value \in SUBSET NineBits
         /\ todo[t] # <<>> /\ hand[t].reg = Head(todo[t]).reg
         /\ hand[t].stored /\ hand[t].reg \notin crossed => cache[hand[t].reg] = hand[t].value
BY DEF TaskInv, Holding, HandSet

\* A task that has read a register has put nothing in the cache yet.
LEMMA TaskRead == ASSUME TaskInv, NEW t \in Tasks, ReadReg(t) PROVE TaskInv'
<1> DEFINE w == Head(todo[t])
           h == [reg |-> w.reg, value |-> NewValue(cache, w), stored |-> FALSE]
<1>1. /\ todo[t] # <<>> /\ w.reg \in Registers /\ hand[t] = Nothing
      /\ hand' = [hand EXCEPT ![t] = h]
      /\ crossed' = crossed \cup {r \in {w.reg} : \E u \in Tasks \ {t} : hand[u].reg = r}
      /\ UNCHANGED <<part, cache, chip, claims, todo, lost>>
  BY DEF ReadReg, Idle
<1>2. w \in TidySet
  BY <1>1, TidyHead DEF TaskInv
<1> HIDE DEF w
<1>3. w.reg \in Registers \ {38, 39} /\ w.put \subseteq NineBits
  BY <1>1, <1>2 DEF TidySet
<1>4. cache[w.reg] \subseteq NineBits
  BY <1>3 DEF TaskInv, CleanCells
<1>5. h \in HandSet /\ h.reg = w.reg /\ ~h.stored /\ h # Nothing
  <2>1. NewValue(cache, w) \in SUBSET NineBits
    BY <1>3, <1>4 DEF NewValue
  <2>2. h \in HandSet /\ h.reg = w.reg /\ ~h.stored
    BY <1>3, <2>1 DEF HandSet
  <2> QED BY <1>3, <2>2, NothingHeld
<1> HIDE DEF h
<1>6. /\ DOMAIN hand' = Tasks /\ hand'[t] = h
      /\ \A u \in Tasks : u # t => hand'[u] = hand[u]
  BY <1>1 DEF TaskInv
<1>7. /\ crossed \subseteq crossed'
      /\ (\E u \in Tasks : u # t /\ hand[u].reg = w.reg) => w.reg \in crossed'
  BY <1>1
<1>8. \A u \in Tasks : (Tidy(todo[u]) /\ Holding(u))'
  <2>1. Holding(t)'
    BY <1>1, <1>5, <1>6 DEF Holding, w
  <2>2. \A u \in Tasks : u # t => Holding(u)'
    BY <1>1, <1>6, <1>7 DEF Holding, TaskInv
  <2> QED BY <1>1, <2>1, <2>2 DEF TaskInv
<1>9. \A u, v \in Tasks : u # v /\ hand'[u] # Nothing /\ hand'[u].reg = hand'[v].reg => hand'[u].reg \in crossed'
  <2> SUFFICES ASSUME NEW u \in Tasks, NEW v \in Tasks, u # v, hand'[u] # Nothing, hand'[u].reg = hand'[v].reg
               PROVE  hand'[u].reg \in crossed'
    OBVIOUS
  <2>1. CASE u = t
    BY <1>5, <1>6, <1>7, <2>1
  <2>2. CASE v = t
    BY <1>5, <1>6, <1>7, <2>2
  <2>3. CASE u # t /\ v # t
    BY <1>6, <1>7, <2>3 DEF TaskInv
  <2> QED BY <2>1, <2>2, <2>3
<1>10. \A r \in Registers : ~Held(r)' => ~Held(r)
  BY <1>1, <1>6, NothingHeld DEF Held
<1>11. \A r \in Registers : ~Held(r)' /\ r \notin lost' \cup crossed' /\ (r = 14 => cache'[14] # {}) => Shows(r)'
  BY <1>1, <1>7, <1>10 DEF TaskInv, Shows
<1> QED BY <1>1, <1>6, <1>8, <1>9, <1>11 DEF TaskInv

\* What a task puts in the cache it is about to send.
LEMMA TaskStore == ASSUME TaskInv, NEW t \in Tasks, StoreReg(t) PROVE TaskInv'
<1> DEFINE h == hand[t]
           q == hand[t].reg
           k == hand'[t]
<1>1. /\ h # Nothing /\ ~h.stored
      /\ cache' = [cache EXCEPT ![q] = h.value]
      /\ hand' = [hand EXCEPT ![t].stored = TRUE]
      /\ UNCHANGED <<part, chip, claims, todo, lost, crossed>>
  BY DEF StoreReg
<1>2. h \in HandSet /\ q \in Registers \ {38, 39} /\ h.value \in SUBSET NineBits /\ todo[t] # <<>> /\ q = Head(todo[t]).reg
  BY <1>1, HandKnown
<1>3. /\ DOMAIN hand' = Tasks /\ k \in HandSet /\ k.reg = q /\ k.value = h.value /\ k.stored
      /\ \A u \in Tasks : u # t => hand'[u] = hand[u]
  BY <1>1, <1>2 DEF TaskInv, HandSet
<1>4. k # Nothing
  BY <1>3, NothingHeld
<1> HIDE DEF k
<1>5. cache' \in CleanCells /\ cache'[q] = h.value /\ \A r \in Registers : r # q => cache'[r] = cache[r]
  <2>1. h.value \in SUBSET Nat
    BY <1>2 DEF NineBits
  <2>2. cache' = [r \in Registers |-> IF r = q THEN h.value ELSE cache[r]]
    BY <1>1 DEF TaskInv, CleanCells, Cells
  <2> HIDE DEF h, q
  <2>3. \A r \in Registers : cache'[r] = IF r = q THEN h.value ELSE cache[r]
    BY <2>2
  <2>4. cache \in Cells /\ \A r \in Registers \ {38, 39} : cache[r] \subseteq NineBits
    BY DEF TaskInv, CleanCells
  <2>5. \A r \in Registers : cache[r] \in SUBSET Nat
    BY <2>4 DEF Cells
  <2>6. cache' \in Cells
    BY <2>1, <2>2, <2>5 DEF Cells
  <2>7. \A r \in Registers \ {38, 39} : cache'[r] \subseteq NineBits
    BY <1>2, <2>3, <2>4
  <2> QED BY <1>2, <2>3, <2>6, <2>7 DEF CleanCells
<1>6. \A u \in Tasks : hand'[u].reg = hand[u].reg /\ (hand'[u] = Nothing <=> hand[u] = Nothing)
  BY <1>1, <1>3, <1>4 DEF k
<1>7. \A u \in Tasks : (Tidy(todo[u]) /\ Holding(u))'
  <2>1. Holding(t)'
    BY <1>1, <1>2, <1>3, <1>5 DEF Holding, k
  <2>2. ASSUME NEW u \in Tasks, u # t PROVE Holding(u)'
    <3>1. CASE hand[u] = Nothing
      BY <1>3, <2>2, <3>1 DEF Holding
    <3>2. CASE hand[u] # Nothing
      <4>1. hand[u].reg = q => q \in crossed
        BY <1>1, <2>2 DEF TaskInv
      <4>2. /\ hand[u] \in HandSet /\ hand[u].reg \in Registers /\ todo[u] # <<>> /\ hand[u].reg = Head(todo[u]).reg
            /\ hand[u].stored /\ hand[u].reg \notin crossed => cache[hand[u].reg] = hand[u].value
        BY <3>2, HandKnown
      <4>3. hand[u].reg \notin crossed => cache'[hand[u].reg] = cache[hand[u].reg]
        BY <1>5, <4>1, <4>2
      <4> QED BY <1>1, <1>3, <2>2, <4>2, <4>3 DEF Holding
    <3> QED BY <3>1, <3>2
  <2> QED BY <1>1, <2>1, <2>2 DEF TaskInv
<1>8. \A u, v \in Tasks : u # v /\ hand'[u] # Nothing /\ hand'[u].reg = hand'[v].reg => hand'[u].reg \in crossed'
  BY <1>1, <1>6 DEF TaskInv
<1>9. \A r \in Registers : Held(r)' <=> Held(r)
  BY <1>6 DEF Held
<1>10. ASSUME NEW r \in Registers, ~Held(r), r \notin lost \cup crossed, r = 14 => cache'[14] # {} PROVE Shows(r)'
  <2>1. r # q /\ cache'[r] = cache[r]
    BY <1>5, <1>10 DEF Held
  <2>2. Shows(r)
    BY <1>10, <2>1 DEF TaskInv
  <2> QED BY <1>1, <2>1, <2>2 DEF Shows
<1> QED BY <1>1, <1>3, <1>5, <1>7, <1>8, <1>9, <1>10 DEF TaskInv

\* What a task has sent the codec shows, unless another one is about to send it again.
LEMMA TaskSend == ASSUME TaskInv, NEW t \in Tasks, SendReg(t) PROVE TaskInv'
<1> DEFINE h == hand[t]
           q == hand[t].reg
<1>1. /\ h.stored
      /\ \/ chip' = [chip EXCEPT ![q] = Sent(h.value)] /\ lost' = lost \ {q}
         \/ lost' = lost \cup {q} /\ UNCHANGED chip
      /\ hand' = [hand EXCEPT ![t] = Nothing]
      /\ todo' = [todo EXCEPT ![t] = Tail(@)]
      /\ UNCHANGED <<part, cache, claims, crossed>>
  BY DEF SendReg
<1>2. h # Nothing
  BY <1>1, NothingHeld
<1>3. /\ h \in HandSet /\ q \in Registers \ {38, 39} /\ h.value \in SUBSET NineBits /\ todo[t] # <<>>
      /\ q \notin crossed => cache[q] = h.value
  BY <1>1, <1>2, HandKnown
<1>4. /\ DOMAIN hand' = Tasks /\ hand'[t] = Nothing /\ \A u \in Tasks : u # t => hand'[u] = hand[u]
  BY <1>1 DEF TaskInv
<1>5. /\ DOMAIN todo' = Tasks /\ todo'[t] = Tail(todo[t]) /\ \A u \in Tasks : u # t => todo'[u] = todo[u]
  BY <1>1 DEF TaskInv
<1>6. Tidy(Tail(todo[t]))
  BY <1>3, TidyHead DEF TaskInv
<1>7. /\ chip' \in Cells
      /\ \A r \in Registers : r # q => chip'[r] = chip[r]
      /\ q \notin lost' => chip'[q] = Sent(h.value)
      /\ \A r \in Registers : r # q => (r \in lost' <=> r \in lost)
  <2> HIDE DEF h, q
  <2>1. chip \in Cells /\ Sent(h.value) \in SUBSET Nat
    BY DEF TaskInv, Sent, NineBits
  <2>2. CASE chip' = [chip EXCEPT ![q] = Sent(h.value)] /\ lost' = lost \ {q}
    BY <1>3, <2>1, <2>2 DEF Cells
  <2>3. CASE lost' = lost \cup {q} /\ UNCHANGED chip
    BY <2>1, <2>3
  <2> QED BY <1>1, <2>2, <2>3 DEF h, q
<1>8. \A u \in Tasks : (Tidy(todo[u]) /\ Holding(u))'
  <2>1. Holding(t)'
    BY <1>4 DEF Holding
  <2>2. \A u \in Tasks : u # t => Holding(u)'
    BY <1>1, <1>4, <1>5 DEF Holding, TaskInv
  <2> QED BY <1>5, <1>6, <2>1, <2>2 DEF TaskInv
<1>9. \A u, v \in Tasks : u # v /\ hand'[u] # Nothing /\ hand'[u].reg = hand'[v].reg => hand'[u].reg \in crossed'
  <2> SUFFICES ASSUME NEW u \in Tasks, NEW v \in Tasks, u # v, hand'[u] # Nothing, hand'[u].reg = hand'[v].reg
               PROVE  hand'[u].reg \in crossed'
    OBVIOUS
  <2>1. u # t /\ hand'[u] = hand[u]
    BY <1>4
  <2>2. CASE v = t
    <3>1. hand[u].reg \in Registers /\ hand'[v].reg \notin Registers
      BY <1>4, <2>1, <2>2, HandKnown, NothingHeld
    <3> QED BY <2>1, <3>1
  <2>3. CASE v # t
    BY <1>1, <1>4, <2>1, <2>3 DEF TaskInv
  <2> QED BY <2>2, <2>3
<1>10. ASSUME NEW r \in Registers, ~Held(r)', r \notin lost' \cup crossed', r = 14 => cache'[14] # {} PROVE Shows(r)'
  <2>1. CASE r = q
    BY <1>1, <1>3, <1>7, <1>10, <2>1 DEF Shows
  <2>2. CASE r # q
    <3>1. ~Held(r)
      BY <1>4, <1>10, <2>2 DEF Held
    <3>2. Shows(r)
      BY <1>1, <1>7, <1>10, <2>2, <3>1 DEF TaskInv
    <3> QED BY <1>1, <1>7, <2>2, <3>2 DEF Shows
  <2> QED BY <2>1, <2>2
<1> QED BY <1>1, <1>4, <1>5, <1>7, <1>8, <1>9, <1>10 DEF TaskInv

\* A write to the I2S port leaves the registers alone.
LEMMA TaskI2s == ASSUME TaskInv, NEW t \in Tasks, SetI2s(t) PROVE TaskInv'
<1>1. /\ todo[t] # <<>> /\ Head(todo[t]).reg \notin Registers
      /\ todo' = [todo EXCEPT ![t] = Tail(@)]
      /\ UNCHANGED <<part, cache, chip, claims, hand, lost, crossed>>
  BY DEF SetI2s, Idle
<1>2. /\ DOMAIN todo' = Tasks /\ todo'[t] = Tail(todo[t]) /\ \A u \in Tasks : u # t => todo'[u] = todo[u]
  BY <1>1 DEF TaskInv
<1>3. Tidy(Tail(todo[t]))
  BY <1>1, TidyHead DEF TaskInv
<1>4. hand[t] = Nothing
  BY <1>1, HandKnown
<1>5. \A u \in Tasks : (Tidy(todo[u]) /\ Holding(u))'
  BY <1>1, <1>2, <1>3, <1>4 DEF Holding, TaskInv
<1> QED BY <1>1, <1>2, <1>5 DEF TaskInv, Held, Shows

\* Tidy writes leave tidy registers, and the ones they do not write as they were.
LEMMA AfterTidy ==
  ASSUME NEW regs \in CleanCells, NEW ws, Tidy(ws)
  PROVE  /\ After(regs, ws) \in CleanCells
         /\ \A r \in Registers : (\A i \in DOMAIN ws : ws[i].reg # r) => After(regs, ws)[r] = regs[r]
<1>1. TidySet \subseteq WriteSet
  BY DEF TidySet, WriteSet, NineBits
<1>2. ws \in Seq(TidySet) /\ ws \in Seq(WriteSet) /\ DOMAIN ws = 1..Len(ws)
  BY <1>1, LenProperties, SeqDef DEF Tidy
<1>3. \A i \in 1..Len(ws) : ws[i] \in TidySet /\ ws[i] \in WriteSet
  BY <1>1, <1>2, ElementOfSeq
<1>4. regs \in Cells
  BY DEF CleanCells
<1>5. After(regs, ws) \in CleanCells
  <2>1. \A c \in Cells \cap CleanCells, i \in 1..Len(ws) : OneWrite(c, ws[i]) \in CleanCells
    <3> SUFFICES ASSUME NEW c \in Cells, c \in CleanCells, NEW i \in 1..Len(ws)
                 PROVE  OneWrite(c, ws[i]) \in CleanCells
      OBVIOUS
    <3> DEFINE w == ws[i]
    <3>1. w \in TidySet /\ w \in WriteSet
      BY <1>3
    <3> HIDE DEF w
    <3>2. /\ OneWrite(c, w) \in Cells
          /\ \A r \in Registers : OneWrite(c, w)[r] = IF w.reg = r THEN NewValue(c, w) ELSE c[r]
      BY <3>1, OneWriteCells
    <3>3. \A r \in Registers \ {38, 39} : c[r] \subseteq NineBits
      BY DEF CleanCells
    <3>4. w.put \subseteq NineBits
      BY <3>1 DEF TidySet
    <3>5. \A r \in Registers \ {38, 39} : OneWrite(c, w)[r] \subseteq NineBits
      BY <3>2, <3>3, <3>4 DEF NewValue
    <3>6. OneWrite(c, w) \in CleanCells
      BY <3>2, <3>5 DEF CleanCells
    <3> QED BY <3>6 DEF w
  <2> QED BY <1>2, <1>4, <2>1, AfterStays
<1>6. ASSUME NEW r \in Registers, \A i \in DOMAIN ws : ws[i].reg # r PROVE After(regs, ws)[r] = regs[r]
  <2> DEFINE T == {c \in Cells : c[r] = regs[r]}
  <2>1. \A c \in Cells \cap T, i \in 1..Len(ws) : OneWrite(c, ws[i]) \in T
    <3> SUFFICES ASSUME NEW c \in Cells, c[r] = regs[r], NEW i \in 1..Len(ws)
                 PROVE  OneWrite(c, ws[i]) \in T
      OBVIOUS
    <3> DEFINE w == ws[i]
    <3>1. w \in WriteSet /\ w.reg # r
      BY <1>2, <1>3, <1>6
    <3> HIDE DEF w
    <3>2. OneWrite(c, w) \in Cells /\ OneWrite(c, w)[r] = c[r]
      BY <3>1, OneWriteCells
    <3> QED BY <3>2 DEF w
  <2>2. regs \in T
    BY <1>4
  <2> HIDE DEF T
  <2>3. After(regs, ws) \in T
    BY <1>2, <1>4, <2>1, <2>2, AfterStays
  <2> QED BY <2>3 DEF T
<1> QED BY <1>5, <1>6

CodecInv == ApiInv \/ TaskInv

\* The codec after it was started.
LEMMA CodecInit == ASSUME Init PROVE CodecInv
<1>1. /\ claims = Unclaimed /\ DOMAIN claims = {} /\ lost = {} /\ crossed = {} /\ decoder = "off"
      /\ \A t \in Tasks : hand[t] = Nothing /\ todo[t] = <<>>
      /\ DOMAIN hand = Tasks /\ DOMAIN todo = Tasks
  BY DEF Init, Unclaimed
<1>2. \A r \in Registers : Sent(PowerOn[r]) = PowerOn[r]
  BY PowerOnFits DEF Sent
<1>3. CASE part = "api" /\ cache = PowerOn /\ chip = PowerOn
  <2>1. cache \in CleanCells /\ chip \in Cells /\ \A r \in Registers : Shows(r)
    BY <1>2, <1>3, PowerOnFits DEF CleanCells, Shows
  <2> QED BY <1>1, <1>3, <2>1 DEF CodecInv, ApiInv, AtRest
<1>4. CASE /\ part \in {"paths", "rates"}
           /\ cache = After(ResetCache, BoardInit)
           /\ chip = [r \in Registers |-> IF \E i \in DOMAIN BoardInit : BoardInit[i].reg = r
                                          THEN Sent(cache[r]) ELSE PowerOn[r]]
  <2>1. /\ cache \in CleanCells
        /\ \A r \in Registers : (\A i \in DOMAIN BoardInit : BoardInit[i].reg # r) => cache[r] = ResetCache[r]
    BY <1>4, PowerOnFits, BoardTidy, AfterTidy
  <2>2. \A r \in Registers : chip[r] = IF \E i \in DOMAIN BoardInit : BoardInit[i].reg = r
                                       THEN Sent(cache[r]) ELSE PowerOn[r]
    BY <1>4
  <2>3. chip \in Cells
    <3>1. \A r \in Registers : Sent(cache[r]) \in SUBSET Nat /\ PowerOn[r] \in SUBSET Nat
      <4>1. NineBits \subseteq Nat
        BY DEF NineBits
      <4> QED BY <4>1, PowerOnFits DEF Sent
    <3> QED BY <1>4, <3>1 DEF Cells
  <2>4. ASSUME NEW r \in Registers, r = 14 => cache[14] # {} PROVE Shows(r)
    <3>1. CASE \E i \in DOMAIN BoardInit : BoardInit[i].reg = r
      BY <2>2, <3>1 DEF Shows
    <3>2. CASE \A i \in DOMAIN BoardInit : BoardInit[i].reg # r
      <4>1. cache[r] = ResetCache[r] /\ chip[r] = PowerOn[r]
        BY <2>1, <2>2, <3>2
      <4>2. r # 14
        BY <2>4, <4>1, PowerOnFits
      <4> QED BY <1>2, <4>1, <4>2, PowerOnFits DEF Shows
    <3> QED BY <3>1, <3>2
  <2>5. \A t \in Tasks : Tidy(todo[t]) /\ Holding(t)
    <3>1. Tidy(<<>>)
      BY DEF Tidy
    <3> QED BY <1>1, <3>1 DEF Holding
  <2>6. \A t \in Tasks : hand[t] = Nothing
    BY <1>1
  <2> QED BY <1>1, <1>4, <2>1, <2>3, <2>4, <2>5, <2>6 DEF CodecInv, TaskInv
<1> QED BY <1>3, <1>4 DEF Init

\* Every step of the tasks.
LEMMA TaskStep == ASSUME TaskInv, Next PROVE TaskInv'
<1>1. ~ApiSet /\ ~ApiReset
  BY DEF TaskInv, ApiSet, ApiReset
<1>2. CASE parse_Vol
  <2>1. PICK volume \in Volumes :
          Give("command", EarphoneVolume(volume = 0, volume) \o SpeakerVolume(volume = 0, volume))
    BY <1>2 DEF parse_Vol
  <2>2. volume \in Nat
    BY CodecAssumption
  <2> DEFINE ws == EarphoneVolume(volume = 0, volume) \o SpeakerVolume(volume = 0, volume)
  <2>3. Tidy(ws)
    BY <2>2, VolumeTidy, TidyJoined
  <2> HIDE DEF ws
  <2>4. "command" \in Tasks /\ todo' = [todo EXCEPT !["command"] = @ \o ws]
    BY <2>1 DEF Give, Tasks, ws
  <2>5. todo["command"] = <<>> /\ UNCHANGED <<part, cache, chip, claims, hand, lost, crossed>>
    BY <1>2 DEF parse_Vol, Idle
  <2> QED BY <2>3, <2>4, <2>5, TaskGiven
<1>3. CASE jack_dect_cb
  <2> DEFINE ws == SetChannel(mic')
  <2>1. Tidy(ws)
    BY MicTidy
  <2> HIDE DEF ws
  <2>2. "button" \in Tasks /\ todo' = [todo EXCEPT !["button"] = @ \o ws]
    BY <1>3 DEF jack_dect_cb, Give, Tasks, ws
  <2>3. todo["button"] = <<>> /\ UNCHANGED <<part, cache, chip, claims, hand, lost, crossed>>
    BY <1>3 DEF jack_dect_cb, Idle
  <2> QED BY <2>1, <2>2, <2>3, TaskGiven
<1>4. CASE WavStart
  <2>1. PICK rate \in Rates : Give("player", SetSampleRates(rate))
    BY <1>4 DEF WavStart
  <2> DEFINE ws == SetSampleRates(rate)
  <2>2. rate \in 0..8
    BY CodecAssumption
  <2>3. Tidy(ws)
    BY <2>2, RateTidy
  <2> HIDE DEF ws
  <2>4. "player" \in Tasks /\ todo' = [todo EXCEPT !["player"] = @ \o ws]
    BY <2>1 DEF Give, Tasks, ws
  <2>5. todo["player"] = <<>> /\ UNCHANGED <<part, cache, chip, claims, hand, lost, crossed>>
    BY <1>4 DEF WavStart, Idle
  <2> QED BY <2>3, <2>4, <2>5, TaskGiven
<1>5. CASE Frame
  <2>1. PICK rate \in Rates \cup {NoRate + 1} : Give("decoder", SetTxclk(rate))
    BY <1>5 DEF Frame
  <2> DEFINE ws == SetTxclk(rate)
  <2>2. Tidy(ws)
    BY RateTidy
  <2> HIDE DEF ws
  <2>3. "decoder" \in Tasks /\ todo' = [todo EXCEPT !["decoder"] = @ \o ws]
    BY <2>1 DEF Give, Tasks, ws
  <2>4. todo["decoder"] = <<>> /\ UNCHANGED <<part, cache, chip, claims, hand, lost, crossed>>
    BY <1>5 DEF Frame, Idle
  <2> QED BY <2>2, <2>3, <2>4, TaskGiven
<1>6. CASE Mp3Start \/ Stop \/ DecoderExit
  <2>1. UNCHANGED <<part, cache, chip, claims, todo, hand, lost, crossed>>
    BY <1>6 DEF Mp3Start, Stop, DecoderExit
  <2> QED BY <2>1, TaskRest
<1>7. CASE \E t \in Tasks : ReadReg(t) \/ StoreReg(t) \/ SendReg(t) \/ SetI2s(t)
  BY <1>7, TaskRead, TaskStore, TaskSend, TaskI2s
<1> QED BY <1>1, <1>2, <1>3, <1>4, <1>5, <1>6, <1>7 DEF Next

\* Every step of either part.
LEMMA CodecStep == ASSUME CodecInv, [Next]_vars PROVE CodecInv'
<1>1. CASE Next
  BY <1>1, ApiStep, TaskStep DEF CodecInv
<1>2. CASE UNCHANGED vars
  <2>1. UNCHANGED <<part, cache, chip, claims, todo, hand, lost, crossed, decoder>>
    BY <1>2 DEF vars
  <2>2. ApiInv => ApiInv'
    BY <2>1 DEF ApiInv, AtRest, Shows, Stands
  <2>3. TaskInv => TaskInv'
    BY <2>1, TaskRest
  <2> QED BY <2>2, <2>3 DEF CodecInv
<1> QED BY <1>1, <1>2

\* The property follows.
LEMMA TaskHolds == ASSUME TaskInv PROVE RegistersHold
<1>1. SettingsStand
  BY DEF TaskInv, SettingsStand, Unclaimed
<1>2. ShadowTrue
  BY DEF TaskInv, CleanCells, Held, Shows, ShadowTrue
<1> QED BY <1>1, <1>2 DEF RegistersHold

\* Every setting of the codec stands until its own setter or a reset changes it, for any sequence
\* of calls, and what the program reads back of a register is what the chip has, whatever the
\* tasks write meanwhile, but for a lost write or two tasks at one register.
THEOREM RegistersHoldAlways == Spec => []RegistersHold
<1>1. Init => CodecInv
  BY CodecInit
<1>2. CodecInv /\ [Next]_vars => CodecInv'
  BY CodecStep
<1>3. CodecInv => RegistersHold
  BY ApiHolds, TaskHolds DEF CodecInv
<1> QED BY <1>1, <1>2, <1>3, PTL DEF Spec

----------------------------------------------------------------------------
(* The microphone's path.                                                  *)

\* The nine writes of record_setChannel(), as changes of bits.
MicWrites(m) ==
  IF m = "MIC_BOARD"
  THEN << I2s(RxChannel, 4), Change(2, {2}, {}), Change(2, {4}, {}), Put(47, {}), Change(2, {3}, {3}),
          Change(44, {4, 5, 6}, {4, 5}), Change(2, {5}, {5}), Put(48, {8}), PGAGainR(FALSE, 45)[1] >>
  ELSE << I2s(RxChannel, 3), Change(2, {3}, {}), Change(2, {5}, {}), Put(48, {}), Change(2, {2}, {2}),
          Change(44, {0, 1, 2}, {0, 1}), Change(2, {4}, {4}), Put(47, {8}), PGAGainL(FALSE, 45)[1] >>

\* Those that are left after the first n.
MicLeft(m, n) == [i \in 1..9 - n |-> MicWrites(m)[n + i]]

\* A write has been made, and nothing has changed its bits since.
Placed(w) ==
  IF w.reg \in Registers THEN \A b \in NineBits \ w.keep : b \in cache[w.reg] <=> b \in w.put
  ELSE i2s[w.reg] = w.put

EarSet == {w \in TidySet : w.reg \in 52..55}

\* What at_cmd_init() has set beside the microphones.
BoardKept(regs) == regs[2] \ 2..5 = {0, 1, 7, 8} /\ 8 \in regs[44]

MicInv ==
  /\ part = "paths" /\ mic \in {"MIC_BOARD", "MIC_JACK"} /\ TaskInv /\ crossed = {}
  /\ session = None /\ decoder = "off" /\ DOMAIN i2s = {Clock, RxChannel}
  /\ \A t \in {"player", "decoder"} : todo[t] = <<>> /\ hand[t] = Nothing
  /\ todo["command"] \in Seq(EarSet)
  /\ \E n \in 0..9 : todo["button"] = MicLeft(mic, n) /\ \A j \in 1..n : Placed(MicWrites(mic)[j])
  /\ hand["button"] # Nothing =>
       IF hand["button"].stored THEN Placed(Head(todo["button"]))
       ELSE hand["button"].value = NewValue(cache, Head(todo["button"]))
  /\ BoardKept(cache)

\* Zero has no bits.
LEMMA NoBits == \A k \in Nat : Bits(0, k) = {}
<1> SUFFICES ASSUME NEW k \in Nat PROVE Bits(0, k) = {}
  OBVIOUS
<1>1. 0 < 2^0
  OBVIOUS
<1>2. \A b \in Bits(0, k) : b \in Nat /\ k <= b /\ b < k + 0
  BY <1>1, BitsBelow
<1> QED BY <1>2

\* The writes of a microphone's setters.
LEMMA BoostWrites ==
  /\ BoostL(TRUE, 1, 0, 0) = <<Change(2, {4}, {4}), Put(47, {8})>>
  /\ BoostL(FALSE, 0, 0, 0) = <<Change(2, {4}, {}), Put(47, {})>>
  /\ BoostR(TRUE, 1, 0, 0) = <<Change(2, {5}, {5}), Put(48, {8})>>
  /\ BoostR(FALSE, 0, 0, 0) = <<Change(2, {5}, {}), Put(48, {})>>
<1>1. Upto(0, 7) = 0 /\ Bits(0, 0) = {} /\ Bits(0, 4) = {}
  BY NoBits DEF Upto
<1>2. /\ Switch(2, [BOOSTENL |-> TRUE]) = Change(2, {4}, {4})
      /\ Switch(2, [BOOSTENL |-> FALSE]) = Change(2, {4}, {})
      /\ Switch(2, [BOOSTENR |-> TRUE]) = Change(2, {5}, {5})
      /\ Switch(2, [BOOSTENR |-> FALSE]) = Change(2, {5}, {})
  <2>1. /\ {Bit[n] : n \in DOMAIN [BOOSTENL |-> TRUE]} = {4} /\ On([BOOSTENL |-> TRUE]) = {4}
        /\ {Bit[n] : n \in DOMAIN [BOOSTENL |-> FALSE]} = {4} /\ On([BOOSTENL |-> FALSE]) = {}
        /\ {Bit[n] : n \in DOMAIN [BOOSTENR |-> TRUE]} = {5} /\ On([BOOSTENR |-> TRUE]) = {5}
        /\ {Bit[n] : n \in DOMAIN [BOOSTENR |-> FALSE]} = {5} /\ On([BOOSTENR |-> FALSE]) = {}
    BY BitNumbers DEF On
  <2> QED BY <2>1 DEF Switch
<1>3. /\ On([PGABOOSTL |-> 1 # 0]) = {8} /\ On([PGABOOSTL |-> 0 # 0]) = {}
      /\ On([PGABOOSTR |-> 1 # 0]) = {8} /\ On([PGABOOSTR |-> 0 # 0]) = {}
  <2>1. Bit["PGABOOSTL"] = 8 /\ Bit["PGABOOSTR"] = 8
    BY PathBitNumbers
  <2>2. /\ On([PGABOOSTL |-> TRUE]) = {8} /\ On([PGABOOSTR |-> TRUE]) = {8}
        /\ On([PGABOOSTL |-> FALSE]) = {} /\ On([PGABOOSTR |-> FALSE]) = {}
    BY <2>1 DEF On
  <2> DEFINE p == 1 # 0
             q == 0 # 0
  <2>3. p = TRUE /\ q = FALSE
    OBVIOUS
  <2> HIDE DEF p, q
  <2>4. [PGABOOSTL |-> p] = [PGABOOSTL |-> TRUE] /\ [PGABOOSTR |-> p] = [PGABOOSTR |-> TRUE]
    BY <2>3
  <2>5. [PGABOOSTL |-> q] = [PGABOOSTL |-> FALSE] /\ [PGABOOSTR |-> q] = [PGABOOSTR |-> FALSE]
    BY <2>3
  <2>6. On([PGABOOSTL |-> p]) = {8} /\ On([PGABOOSTR |-> p]) = {8}
    BY <2>2, <2>4
  <2>7. On([PGABOOSTL |-> q]) = {} /\ On([PGABOOSTR |-> q]) = {}
    BY <2>2, <2>5
  <2> QED BY <2>6, <2>7 DEF p, q
<1> QED BY <1>1, <1>2, <1>3 DEF BoostL, BoostR

\* The writes of the gains.
LEMMA PGAWrites ==
  /\ InpPGAL(0) = <<Change(2, {2}, {})>> /\ InpPGAR(0) = <<Change(2, {3}, {})>>
  /\ InpPGAL(2) = <<Change(2, {2}, {2}), Change(44, {0, 1, 2}, {0, 1})>>
  /\ InpPGAR(2) = <<Change(2, {3}, {3}), Change(44, {4, 5, 6}, {4, 5})>>
<1>1. /\ Switch(2, [INPPGAENL |-> TRUE]) = Change(2, {2}, {2})
      /\ Switch(2, [INPPGAENL |-> FALSE]) = Change(2, {2}, {})
      /\ Switch(2, [INPPGAENR |-> TRUE]) = Change(2, {3}, {3})
      /\ Switch(2, [INPPGAENR |-> FALSE]) = Change(2, {3}, {})
  <2>1. /\ {Bit[n] : n \in DOMAIN [INPPGAENL |-> TRUE]} = {2} /\ On([INPPGAENL |-> TRUE]) = {2}
        /\ {Bit[n] : n \in DOMAIN [INPPGAENL |-> FALSE]} = {2} /\ On([INPPGAENL |-> FALSE]) = {}
        /\ {Bit[n] : n \in DOMAIN [INPPGAENR |-> TRUE]} = {3} /\ On([INPPGAENR |-> TRUE]) = {3}
        /\ {Bit[n] : n \in DOMAIN [INPPGAENR |-> FALSE]} = {3} /\ On([INPPGAENR |-> FALSE]) = {}
    BY BitNumbers DEF On
  <2> QED BY <2>1 DEF Switch
<1>2. \A p, q : p = TRUE /\ q = FALSE =>
        /\ Switch(44, [LIP2INPPGA |-> p, LIN2INPPGA |-> TRUE, L2_2INPPGA |-> q]) = Change(44, {0, 1, 2}, {0, 1})
        /\ Switch(44, [RIP2INPPGA |-> p, RIN2INPPGA |-> TRUE, R2_2INPPGA |-> q]) = Change(44, {4, 5, 6}, {4, 5})
  <2>1. /\ Bit["LIP2INPPGA"] = 0 /\ Bit["LIN2INPPGA"] = 1 /\ Bit["L2_2INPPGA"] = 2
        /\ Bit["RIP2INPPGA"] = 4 /\ Bit["RIN2INPPGA"] = 5 /\ Bit["R2_2INPPGA"] = 6
    BY PathBitNumbers
  <2> SUFFICES ASSUME NEW p, NEW q, p = TRUE, q = FALSE
               PROVE  /\ Switch(44, [LIP2INPPGA |-> p, LIN2INPPGA |-> TRUE, L2_2INPPGA |-> q]) = Change(44, {0, 1, 2}, {0, 1})
                      /\ Switch(44, [RIP2INPPGA |-> p, RIN2INPPGA |-> TRUE, R2_2INPPGA |-> q]) = Change(44, {4, 5, 6}, {4, 5})
    OBVIOUS
  <2> DEFINE l == [LIP2INPPGA |-> p, LIN2INPPGA |-> TRUE, L2_2INPPGA |-> q]
             r == [RIP2INPPGA |-> p, RIN2INPPGA |-> TRUE, R2_2INPPGA |-> q]
  <2>2. {Bit[n] : n \in DOMAIN l} = {0, 1, 2} /\ On(l) = {0, 1}
    BY <2>1 DEF On
  <2>3. {Bit[n] : n \in DOMAIN r} = {4, 5, 6} /\ On(r) = {4, 5}
    BY <2>1 DEF On
  <2> HIDE DEF l, r
  <2>4. Switch(44, l) = Change(44, {0, 1, 2}, {0, 1}) /\ Switch(44, r) = Change(44, {4, 5, 6}, {4, 5})
    BY <2>2, <2>3 DEF Switch
  <2> QED BY <2>4 DEF l, r
<1>3. /\ InpPGAL(2) = <<Change(2, {2}, {2}), Change(44, {0, 1, 2}, {0, 1})>>
      /\ InpPGAR(2) = <<Change(2, {3}, {3}), Change(44, {4, 5, 6}, {4, 5})>>
  <2> DEFINE p == 2 >= 2
             q == 2 = 3
  <2>1. p = TRUE /\ q = FALSE
    OBVIOUS
  <2>2. /\ InpPGAL(2) = << Switch(2, [INPPGAENL |-> TRUE]),
                          Switch(44, [LIP2INPPGA |-> p, LIN2INPPGA |-> TRUE, L2_2INPPGA |-> q]) >>
        /\ InpPGAR(2) = << Switch(2, [INPPGAENR |-> TRUE]),
                          Switch(44, [RIP2INPPGA |-> p, RIN2INPPGA |-> TRUE, R2_2INPPGA |-> q]) >>
    BY DEF InpPGAL, InpPGAR
  <2> HIDE DEF p, q
  <2> QED BY <1>1, <1>2, <2>1, <2>2
<1> QED BY <1>1, <1>3 DEF InpPGAL, InpPGAR

\* Lists of writes, one after the other.
LEMMA TwoJoined ==
  ASSUME NEW s \in Seq(TidySet), NEW t \in Seq(TidySet)
  PROVE  /\ s \o t \in Seq(TidySet) /\ Len(s \o t) = Len(s) + Len(t)
         /\ \A i \in 1..Len(s) : (s \o t)[i] = s[i]
         /\ \A i \in 1..Len(t) : (s \o t)[Len(s) + i] = t[i]
<1> DEFINE u == s \o t
           k == Len(s)
           n == Len(t)
<1>1. /\ u \in Seq(TidySet) /\ Len(u) = k + n /\ k \in Nat /\ n \in Nat
      /\ \A i \in 1..k + n : u[i] = IF i <= k THEN s[i] ELSE t[i - k]
  BY ConcatProperties, LenProperties
<1> HIDE DEF u, k, n
<1>2. \A i \in 1..k : u[i] = s[i]
  BY <1>1
<1>3. \A i \in 1..n : u[k + i] = t[i]
  <2> SUFFICES ASSUME NEW i \in 1..n PROVE u[k + i] = t[i]
    OBVIOUS
  <2> PICK j \in 1..k + n : j = k + i
    BY <1>1
  <2>1. u[j] = t[j - k] /\ j - k = i
    BY <1>1
  <2> QED BY <2>1
<1> QED BY <1>1, <1>2, <1>3 DEF u, k, n

LEMMA NineJoined ==
  ASSUME NEW a \in TidySet, NEW off \in Seq(TidySet), Len(off) = 3, NEW on \in Seq(TidySet), Len(on) = 4,
         NEW k \in TidySet
  PROVE  LET all == <<a>> \o off \o on \o <<k>>
         IN
         /\ all \in Seq(TidySet) /\ Len(all) = 9
         /\ all[1] = a /\ all[2] = off[1] /\ all[3] = off[2] /\ all[4] = off[3]
         /\ all[5] = on[1] /\ all[6] = on[2] /\ all[7] = on[3] /\ all[8] = on[4] /\ all[9] = k
<1> DEFINE first == <<a>>
           last == <<k>>
           head == first \o off
           body == head \o on
           all == body \o last
<1>1. /\ first \in Seq(TidySet) /\ Len(first) = 1 /\ first[1] = a
      /\ last \in Seq(TidySet) /\ Len(last) = 1 /\ last[1] = k
  OBVIOUS
<1>2. all = <<a>> \o off \o on \o <<k>>
  OBVIOUS
<1> HIDE DEF first, last
<1>3. /\ head \in Seq(TidySet) /\ Len(head) = 4
      /\ head[1] = a /\ head[2] = off[1] /\ head[3] = off[2] /\ head[4] = off[3]
  <2>1. /\ head \in Seq(TidySet) /\ Len(head) = Len(first) + Len(off)
        /\ \A i \in 1..Len(first) : head[i] = first[i]
        /\ \A i \in 1..Len(off) : head[Len(first) + i] = off[i]
    BY <1>1, TwoJoined
  <2> HIDE DEF head
  <2>2. head[1] = first[1] /\ head[1 + 1] = off[1] /\ head[1 + 2] = off[2] /\ head[1 + 3] = off[3]
    BY <1>1, <2>1
  <2> QED BY <1>1, <2>1, <2>2
<1> HIDE DEF head
<1>4. /\ body \in Seq(TidySet) /\ Len(body) = 8
      /\ body[1] = head[1] /\ body[2] = head[2] /\ body[3] = head[3] /\ body[4] = head[4]
      /\ body[5] = on[1] /\ body[6] = on[2] /\ body[7] = on[3] /\ body[8] = on[4]
  <2>1. /\ body \in Seq(TidySet) /\ Len(body) = Len(head) + Len(on)
        /\ \A i \in 1..Len(head) : body[i] = head[i]
        /\ \A i \in 1..Len(on) : body[Len(head) + i] = on[i]
    BY <1>3, TwoJoined
  <2> HIDE DEF body
  <2>2. body[4 + 1] = on[1] /\ body[4 + 2] = on[2] /\ body[4 + 3] = on[3] /\ body[4 + 4] = on[4]
    BY <1>3, <2>1
  <2>3. body[1] = head[1] /\ body[2] = head[2] /\ body[3] = head[3] /\ body[4] = head[4]
    BY <1>3, <2>1
  <2> QED BY <1>3, <2>1, <2>2, <2>3
<1> HIDE DEF body
<1>5. /\ all \in Seq(TidySet) /\ Len(all) = 9
      /\ all[1] = body[1] /\ all[2] = body[2] /\ all[3] = body[3] /\ all[4] = body[4]
      /\ all[5] = body[5] /\ all[6] = body[6] /\ all[7] = body[7] /\ all[8] = body[8]
      /\ all[9] = k
  <2>1. /\ all \in Seq(TidySet) /\ Len(all) = Len(body) + Len(last)
        /\ \A i \in 1..Len(body) : all[i] = body[i]
        /\ \A i \in 1..Len(last) : all[Len(body) + i] = last[i]
    <3>1. /\ body \o last \in Seq(TidySet) /\ Len(body \o last) = Len(body) + Len(last)
          /\ \A i \in 1..Len(body) : (body \o last)[i] = body[i]
          /\ \A i \in 1..Len(last) : (body \o last)[Len(body) + i] = last[i]
      BY <1>1, <1>4, TwoJoined
    <3> QED BY <3>1
  <2> HIDE DEF all
  <2>2. all[8 + 1] = last[1]
    BY <1>1, <1>4, <2>1
  <2>3. \A i \in 1..8 : all[i] = body[i]
    BY <1>4, <2>1
  <2>4. Len(all) = 9 /\ all[9] = k
    BY <1>1, <1>4, <2>1, <2>2
  <2>5. /\ all[1] = body[1] /\ all[2] = body[2] /\ all[3] = body[3] /\ all[4] = body[4]
        /\ all[5] = body[5] /\ all[6] = body[6] /\ all[7] = body[7] /\ all[8] = body[8]
    BY <2>3
  <2> QED BY <2>1, <2>4, <2>5
<1> HIDE DEF all
<1> QED BY <1>2, <1>3, <1>4, <1>5

\* The nine writes of a microphone, in order.
LEMMA ChannelWrites == \A m : SetChannel(m) = MicWrites(m)
<1>1. PGAGainR(FALSE, 45) = <<PGAGainR(FALSE, 45)[1]>> /\ PGAGainL(FALSE, 45) = <<PGAGainL(FALSE, 45)[1]>>
  BY DEF PGAGainR, PGAGainL
<1>2. /\ LeftMic(FALSE) = <<Change(2, {2}, {})>> \o <<Change(2, {4}, {}), Put(47, {})>>
      /\ RightMic(FALSE) = <<Change(2, {3}, {})>> \o <<Change(2, {5}, {}), Put(48, {})>>
      /\ LeftMic(TRUE) = <<Change(2, {2}, {2}), Change(44, {0, 1, 2}, {0, 1})>> \o
                         <<Change(2, {4}, {4}), Put(47, {8})>>
      /\ RightMic(TRUE) = <<Change(2, {3}, {3}), Change(44, {4, 5, 6}, {4, 5})>> \o
                          <<Change(2, {5}, {5}), Put(48, {8})>>
  BY PGAWrites, BoostWrites DEF LeftMic, RightMic
<1> SUFFICES ASSUME NEW m PROVE SetChannel(m) = MicWrites(m)
  OBVIOUS
<1>5. /\ I2s(RxChannel, 4) \in TidySet /\ I2s(RxChannel, 3) \in TidySet
      /\ PGAGainR(FALSE, 45)[1] \in TidySet /\ PGAGainL(FALSE, 45)[1] \in TidySet
  <2>1. I2s(RxChannel, 4) \in TidySet /\ I2s(RxChannel, 3) \in TidySet
    BY DEF I2s, TidySet, RxChannel, NineBits
  <2>2. Tidy(PGAGainR(FALSE, 45)) /\ Tidy(PGAGainL(FALSE, 45))
    BY GainCalls, CallsTidy
  <2>4. /\ Len(PGAGainR(FALSE, 45)) = 1 /\ Len(PGAGainL(FALSE, 45)) = 1
    BY DEF PGAGainR, PGAGainL
  <2>5. \A ws : Tidy(ws) /\ Len(ws) = 1 => ws[1] \in TidySet
    <3> SUFFICES ASSUME NEW ws \in Seq(TidySet), Len(ws) = 1 PROVE ws[1] \in TidySet
      BY DEF Tidy
    <3>1. \A i \in 1..Len(ws) : ws[i] \in TidySet
      BY ElementOfSeq
    <3> QED BY <3>1
  <2> QED BY <2>1, <2>2, <2>4, <2>5
<1>3. CASE m = "MIC_BOARD"
  <2> DEFINE a == I2s(RxChannel, 4)
             b == Change(2, {2}, {})
             c == Change(2, {4}, {})
             d == Put(47, {})
             e == Change(2, {3}, {3})
             f == Change(44, {4, 5, 6}, {4, 5})
             g == Change(2, {5}, {5})
             h == Put(48, {8})
             k == PGAGainR(FALSE, 45)[1]
             off == LeftMic(FALSE)
             on == RightMic(TRUE)
             all == SetChannel(m)
  <2>1. all = <<a>> \o off \o on \o <<k>>
    BY <1>1, <1>3 DEF SetChannel
  <2>2. off = <<b>> \o <<c, d>> /\ on = <<e, f>> \o <<g, h>>
    BY <1>2
  <2>3. MicWrites(m) = <<a, b, c, d, e, f, g, h, k>>
    BY <1>3 DEF MicWrites
  <2>4. a \in TidySet /\ k \in TidySet
    BY <1>5
  <2>5. off \in Seq(TidySet) /\ on \in Seq(TidySet)
    BY MicTidy DEF Tidy
  <2> HIDE DEF a, b, c, d, e, f, g, h, k
  <2>6. /\ Len(off) = 3 /\ off[1] = b /\ off[2] = c /\ off[3] = d
        /\ Len(on) = 4 /\ on[1] = e /\ on[2] = f /\ on[3] = g /\ on[4] = h
    <3>1. /\ Len(<<b>> \o <<c, d>>) = 3
          /\ (<<b>> \o <<c, d>>)[1] = b /\ (<<b>> \o <<c, d>>)[2] = c /\ (<<b>> \o <<c, d>>)[3] = d
      OBVIOUS
    <3>2. /\ Len(<<e, f>> \o <<g, h>>) = 4
          /\ (<<e, f>> \o <<g, h>>)[1] = e /\ (<<e, f>> \o <<g, h>>)[2] = f
          /\ (<<e, f>> \o <<g, h>>)[3] = g /\ (<<e, f>> \o <<g, h>>)[4] = h
      OBVIOUS
    <3> HIDE DEF off, on
    <3> QED BY <2>2, <3>1, <3>2
  <2> DEFINE nine == MicWrites(m)
  <2>7. /\ Len(nine) = 9 /\ nine[1] = a /\ nine[2] = b /\ nine[3] = c /\ nine[4] = d /\ nine[5] = e
        /\ nine[6] = f /\ nine[7] = g /\ nine[8] = h /\ nine[9] = k
        /\ nine \in Seq({a, b, c, d, e, f, g, h, k})
    BY <2>3
  <2> HIDE DEF off, on, all, nine
  <2>8. /\ all \in Seq(TidySet) /\ Len(all) = 9
        /\ all[1] = a /\ all[2] = b /\ all[3] = c /\ all[4] = d /\ all[5] = e
        /\ all[6] = f /\ all[7] = g /\ all[8] = h /\ all[9] = k
    <3> DEFINE joined == <<a>> \o off \o on \o <<k>>
    <3>1. /\ joined \in Seq(TidySet) /\ Len(joined) = 9
          /\ joined[1] = a /\ joined[2] = off[1] /\ joined[3] = off[2] /\ joined[4] = off[3]
          /\ joined[5] = on[1] /\ joined[6] = on[2] /\ joined[7] = on[3] /\ joined[8] = on[4]
          /\ joined[9] = k
      BY <2>4, <2>5, <2>6, NineJoined
    <3> HIDE DEF joined
    <3>2. all = joined
      BY <2>1 DEF joined
    <3> QED BY <2>6, <3>1, <3>2
  <2>9. \A i \in 1..9 : all[i] = nine[i]
    BY <2>7, <2>8
  <2>10. all = nine
    BY <2>7, <2>8, <2>9, SeqEqual
  <2> QED BY <2>10 DEF all, nine
<1>4. CASE m # "MIC_BOARD"
  <2> DEFINE a == I2s(RxChannel, 3)
             b == Change(2, {3}, {})
             c == Change(2, {5}, {})
             d == Put(48, {})
             e == Change(2, {2}, {2})
             f == Change(44, {0, 1, 2}, {0, 1})
             g == Change(2, {4}, {4})
             h == Put(47, {8})
             k == PGAGainL(FALSE, 45)[1]
             off == RightMic(FALSE)
             on == LeftMic(TRUE)
             all == SetChannel(m)
  <2>1. all = <<a>> \o off \o on \o <<k>>
    BY <1>1, <1>4 DEF SetChannel
  <2>2. off = <<b>> \o <<c, d>> /\ on = <<e, f>> \o <<g, h>>
    BY <1>2
  <2>3. MicWrites(m) = <<a, b, c, d, e, f, g, h, k>>
    BY <1>4 DEF MicWrites
  <2>4. a \in TidySet /\ k \in TidySet
    BY <1>5
  <2>5. off \in Seq(TidySet) /\ on \in Seq(TidySet)
    BY MicTidy DEF Tidy
  <2> HIDE DEF a, b, c, d, e, f, g, h, k
  <2>6. /\ Len(off) = 3 /\ off[1] = b /\ off[2] = c /\ off[3] = d
        /\ Len(on) = 4 /\ on[1] = e /\ on[2] = f /\ on[3] = g /\ on[4] = h
    <3>1. /\ Len(<<b>> \o <<c, d>>) = 3
          /\ (<<b>> \o <<c, d>>)[1] = b /\ (<<b>> \o <<c, d>>)[2] = c /\ (<<b>> \o <<c, d>>)[3] = d
      OBVIOUS
    <3>2. /\ Len(<<e, f>> \o <<g, h>>) = 4
          /\ (<<e, f>> \o <<g, h>>)[1] = e /\ (<<e, f>> \o <<g, h>>)[2] = f
          /\ (<<e, f>> \o <<g, h>>)[3] = g /\ (<<e, f>> \o <<g, h>>)[4] = h
      OBVIOUS
    <3> HIDE DEF off, on
    <3> QED BY <2>2, <3>1, <3>2
  <2> DEFINE nine == MicWrites(m)
  <2>7. /\ Len(nine) = 9 /\ nine[1] = a /\ nine[2] = b /\ nine[3] = c /\ nine[4] = d /\ nine[5] = e
        /\ nine[6] = f /\ nine[7] = g /\ nine[8] = h /\ nine[9] = k
        /\ nine \in Seq({a, b, c, d, e, f, g, h, k})
    BY <2>3
  <2> HIDE DEF off, on, all, nine
  <2>8. /\ all \in Seq(TidySet) /\ Len(all) = 9
        /\ all[1] = a /\ all[2] = b /\ all[3] = c /\ all[4] = d /\ all[5] = e
        /\ all[6] = f /\ all[7] = g /\ all[8] = h /\ all[9] = k
    <3> DEFINE joined == <<a>> \o off \o on \o <<k>>
    <3>1. /\ joined \in Seq(TidySet) /\ Len(joined) = 9
          /\ joined[1] = a /\ joined[2] = off[1] /\ joined[3] = off[2] /\ joined[4] = off[3]
          /\ joined[5] = on[1] /\ joined[6] = on[2] /\ joined[7] = on[3] /\ joined[8] = on[4]
          /\ joined[9] = k
      BY <2>4, <2>5, <2>6, NineJoined
    <3> HIDE DEF joined
    <3>2. all = joined
      BY <2>1 DEF joined
    <3> QED BY <2>6, <3>1, <3>2
  <2>9. \A i \in 1..9 : all[i] = nine[i]
    BY <2>7, <2>8
  <2>10. all = nine
    BY <2>7, <2>8, <2>9, SeqEqual
  <2> QED BY <2>10 DEF all, nine
<1> QED BY <1>3, <1>4

\* The bits that a write does not keep.
Cleared(w) == NineBits \ w.keep

\* The bits that a write of some bits, or of a register, replaces.
LEMMA ChangeClears ==
  \A r, c, p : c \in SUBSET NineBits =>
    /\ Change(r, c, p).reg = r
    /\ Change(r, c, p).put = p
    /\ Cleared(Change(r, c, p)) = c
<1>1. NineBits \subseteq Word
  BY DEF NineBits, Word
<1> QED BY <1>1 DEF Change, Cleared

LEMMA PutClears == \A r, p : Put(r, p).reg = r /\ Put(r, p).put = p /\ Cleared(Put(r, p)) = NineBits
BY DEF Put, Cleared

\* Only the first write is one to the I2S driver, and no two of the others take the same bit.
LEMMA MicFacts ==
  ASSUME NEW m, NEW w, w = MicWrites(m)
  PROVE  /\ w[1].reg = RxChannel
         /\ \A i \in 2..9 : /\ w[i].reg \in {2, 44, 45, 46, 47, 48}
                            /\ w[i].put \cap NineBits \subseteq Cleared(w[i])
                            /\ w[i].reg = 2 => Cleared(w[i]) \subseteq 2..5
                            /\ w[i].reg = 44 => 8 \notin Cleared(w[i])
         /\ \A i, j \in 2..9 : i # j /\ w[i].reg = w[j].reg => Cleared(w[i]) \cap Cleared(w[j]) = {}
<1>1. 2..9 = {2, 3, 4, 5, 6, 7, 8, 9}
  OBVIOUS
<1>2. /\ {2} \in SUBSET NineBits /\ {3} \in SUBSET NineBits /\ {4} \in SUBSET NineBits /\ {5} \in SUBSET NineBits
      /\ {4, 5, 6} \in SUBSET NineBits /\ {0, 1, 2} \in SUBSET NineBits
  BY DEF NineBits
<1>3. CASE m = "MIC_BOARD"
  <2>1. /\ w[1] = I2s(RxChannel, 4) /\ w[2] = Change(2, {2}, {}) /\ w[3] = Change(2, {4}, {})
        /\ w[4] = Put(47, {}) /\ w[5] = Change(2, {3}, {3}) /\ w[6] = Change(44, {4, 5, 6}, {4, 5})
        /\ w[7] = Change(2, {5}, {5}) /\ w[8] = Put(48, {8}) /\ w[9] = PGAGainR(FALSE, 45)[1]
    BY <1>3 DEF MicWrites
  <2>2. w[9].reg = 46 /\ Cleared(w[9]) = NineBits
    BY <2>1 DEF PGAGainR, Put, Cleared
  <2>3. /\ w[2].reg = 2 /\ Cleared(w[2]) = {2} /\ w[2].put = {}
        /\ w[3].reg = 2 /\ Cleared(w[3]) = {4} /\ w[3].put = {}
        /\ w[5].reg = 2 /\ Cleared(w[5]) = {3} /\ w[5].put = {3}
        /\ w[7].reg = 2 /\ Cleared(w[7]) = {5} /\ w[7].put = {5}
        /\ w[6].reg = 44 /\ Cleared(w[6]) = {4, 5, 6} /\ w[6].put = {4, 5}
    BY <1>2, <2>1, ChangeClears
  <2>4. /\ w[4].reg = 47 /\ Cleared(w[4]) = NineBits /\ w[4].put = {}
        /\ w[8].reg = 48 /\ Cleared(w[8]) = NineBits
    BY <2>1, PutClears
  <2>5. w[1].reg = RxChannel
    BY <2>1 DEF I2s
  <2>6. \A i \in 2..9 : /\ w[i].reg \in {2, 44, 45, 46, 47, 48}
                        /\ w[i].put \cap NineBits \subseteq Cleared(w[i])
                        /\ w[i].reg = 2 => Cleared(w[i]) \subseteq 2..5
                        /\ w[i].reg = 44 => 8 \notin Cleared(w[i])
    BY <1>1, <2>2, <2>3, <2>4
  <2>7. \A i, j \in 2..9 : i # j /\ w[i].reg = w[j].reg => Cleared(w[i]) \cap Cleared(w[j]) = {}
    BY <1>1, <2>2, <2>3, <2>4
  <2> QED BY <2>5, <2>6, <2>7
<1>4. CASE m # "MIC_BOARD"
  <2>1. /\ w[1] = I2s(RxChannel, 3) /\ w[2] = Change(2, {3}, {}) /\ w[3] = Change(2, {5}, {})
        /\ w[4] = Put(48, {}) /\ w[5] = Change(2, {2}, {2}) /\ w[6] = Change(44, {0, 1, 2}, {0, 1})
        /\ w[7] = Change(2, {4}, {4}) /\ w[8] = Put(47, {8}) /\ w[9] = PGAGainL(FALSE, 45)[1]
    BY <1>4 DEF MicWrites
  <2>2. w[9].reg = 45 /\ Cleared(w[9]) = NineBits
    BY <2>1 DEF PGAGainL, Put, Cleared
  <2>3. /\ w[2].reg = 2 /\ Cleared(w[2]) = {3} /\ w[2].put = {}
        /\ w[3].reg = 2 /\ Cleared(w[3]) = {5} /\ w[3].put = {}
        /\ w[5].reg = 2 /\ Cleared(w[5]) = {2} /\ w[5].put = {2}
        /\ w[7].reg = 2 /\ Cleared(w[7]) = {4} /\ w[7].put = {4}
        /\ w[6].reg = 44 /\ Cleared(w[6]) = {0, 1, 2} /\ w[6].put = {0, 1}
    BY <1>2, <2>1, ChangeClears
  <2>4. /\ w[4].reg = 48 /\ Cleared(w[4]) = NineBits /\ w[4].put = {}
        /\ w[8].reg = 47 /\ Cleared(w[8]) = NineBits
    BY <2>1, PutClears
  <2>5. w[1].reg = RxChannel
    BY <2>1 DEF I2s
  <2>6. \A i \in 2..9 : /\ w[i].reg \in {2, 44, 45, 46, 47, 48}
                        /\ w[i].put \cap NineBits \subseteq Cleared(w[i])
                        /\ w[i].reg = 2 => Cleared(w[i]) \subseteq 2..5
                        /\ w[i].reg = 44 => 8 \notin Cleared(w[i])
    BY <1>1, <2>2, <2>3, <2>4
  <2>7. \A i, j \in 2..9 : i # j /\ w[i].reg = w[j].reg => Cleared(w[i]) \cap Cleared(w[j]) = {}
    BY <1>1, <2>2, <2>3, <2>4
  <2> QED BY <2>5, <2>6, <2>7
<1> QED BY <1>3, <1>4

\* The writes that are left, one fewer at a time.
LEMMA MicLeftSteps ==
  ASSUME NEW m, NEW n \in 0..9
  PROVE  /\ MicLeft(m, n) = <<>> <=> n = 9
         /\ n < 9 => Head(MicLeft(m, n)) = MicWrites(m)[n + 1] /\ Tail(MicLeft(m, n)) = MicLeft(m, n + 1)
<1> DEFINE w == MicWrites(m)
           S == {w[i] : i \in 1..9}
<1>1. \A k \in 0..9 : MicLeft(m, k) = [i \in 1..9 - k |-> w[k + i]]
  BY DEF MicLeft
<1> HIDE DEF w
<1>2. ASSUME NEW k \in 0..9
      PROVE  /\ MicLeft(m, k) \in Seq(S) /\ Len(MicLeft(m, k)) = 9 - k
             /\ \A i \in 1..9 - k : MicLeft(m, k)[i] = w[k + i]
  <2>1. \A i \in 1..9 - k : k + i \in 1..9
    BY <1>2
  <2>2. MicLeft(m, k) \in [1..9 - k -> S]
    BY <1>1, <2>1
  <2>3. 9 - k \in Nat
    BY <1>2
  <2>4. MicLeft(m, k) \in Seq(S)
    BY <2>2, <2>3, SeqDef
  <2>5. \A i \in 1..9 - k : MicLeft(m, k)[i] = w[k + i]
    BY <1>1
  <2>6. Len(MicLeft(m, k)) = 9 - k
    BY <2>2, <2>3, <2>4, LenProperties
  <2> QED BY <2>4, <2>5, <2>6
<1> DEFINE u == MicLeft(m, n)
           v == MicLeft(m, n + 1)
<1>3. u \in Seq(S) /\ Len(u) = 9 - n /\ \A i \in 1..9 - n : u[i] = w[n + i]
  BY <1>2
<1>4. u = <<>> <=> n = 9
  BY <1>3
<1>5. ASSUME n < 9 PROVE Head(u) = w[n + 1] /\ Tail(u) = v
  <2>1. n + 1 \in 0..9 /\ 9 - (n + 1) = 8 - n /\ 8 - n \in Nat /\ 1 \in 1..9 - n
    BY <1>5
  <2>2. v \in Seq(S) /\ Len(v) = 8 - n /\ \A i \in 1..8 - n : v[i] = w[n + 1 + i]
    BY <1>2, <2>1
  <2> HIDE DEF u, v, S
  <2>3. u # <<>>
    BY <1>4, <1>5
  <2>4. Head(u) = w[n + 1]
    BY <1>3, <2>1, <2>3
  <2>5. Tail(u) \in Seq(S) /\ Len(Tail(u)) = 8 - n /\ \A i \in 1..8 - n : Tail(u)[i] = u[i + 1]
    BY <1>3, <2>3, HeadTailProperties
  <2>6. ASSUME NEW i \in 1..8 - n PROVE Tail(u)[i] = v[i]
    <3> PICK j \in 1..9 - n : j = i + 1
      BY <2>1
    <3>1. Tail(u)[i] = u[j] /\ v[i] = w[n + 1 + i] /\ n + j = n + 1 + i
      BY <2>2, <2>5
    <3>2. u[j] = w[n + j]
      BY <1>3
    <3> QED BY <3>1, <3>2
  <2>7. Tail(u) = v
    BY <2>2, <2>5, <2>6, SeqEqual
  <2> QED BY <2>4, <2>7
<1> QED BY <1>4, <1>5 DEF w

\* A register that gets a write's value has its bits; another write of the register that takes
\* none of these leaves them.
LEMMA PlacedNow ==
  ASSUME NEW w, w.reg \in Registers, w.put \cap NineBits \subseteq Cleared(w), NEW regs,
         cache'[w.reg] = NewValue(regs, w)
  PROVE  Placed(w)'
<1>1. \A b \in NineBits \ w.keep : b \in cache'[w.reg] <=> b \in w.put
  BY DEF NewValue
<1> QED BY <1>1 DEF Placed

\* A write that leaves the bits of another alone leaves it in place.
LEMMA PlacedStill ==
  ASSUME NEW w, Placed(w), w.reg \in Registers, NEW v,
         \/ cache'[w.reg] = cache[w.reg]
         \/ /\ cache'[w.reg] = NewValue(cache, v) /\ v.reg = w.reg
            /\ v.put \cap NineBits \subseteq Cleared(v) /\ Cleared(w) \cap Cleared(v) = {}
  PROVE  Placed(w)'
<1>1. \A b \in NineBits \ w.keep : b \in cache'[w.reg] <=> b \in cache[w.reg]
  BY DEF NewValue, Cleared
<1> QED BY <1>1 DEF Placed

\* The task of the buttons after n of the writes, what it has in hand included.
Routed(n) ==
  /\ todo["button"] = MicLeft(mic, n)
  /\ \A j \in 1..n : Placed(MicWrites(mic)[j])
  /\ hand["button"] # Nothing =>
       IF hand["button"].stored THEN Placed(Head(todo["button"]))
       ELSE hand["button"].value = NewValue(cache, Head(todo["button"]))

\* The writes of the microphone are at some place.
LEMMA RoutedFound == MicInv => \E n \in 0..9 : Routed(n)
BY DEF MicInv, Routed

\* The other parts of the invariant.
MicAlone ==
  /\ part = "paths" /\ mic \in {"MIC_BOARD", "MIC_JACK"} /\ crossed = {}
  /\ session = None /\ decoder = "off" /\ DOMAIN i2s = {Clock, RxChannel}
  /\ \A t \in {"player", "decoder"} : todo[t] = <<>> /\ hand[t] = Nothing
  /\ todo["command"] \in Seq(EarSet)

\* What the two tasks have in hand: registers of their own.
LEMMA MicHands ==
  ASSUME MicInv
  PROVE  /\ hand["command"] # Nothing => hand["command"].reg \in 52..55
         /\ hand["button"] # Nothing => hand["button"].reg \in {2, 44, 45, 46, 47, 48}
<1>1. "command" \in Tasks /\ "button" \in Tasks
  BY DEF Tasks
<1>2. ASSUME hand["command"] # Nothing PROVE hand["command"].reg \in 52..55
  <2> DEFINE ws == todo["command"]
  <2>1. ws \in Seq(EarSet) /\ ws # <<>> /\ hand["command"].reg = Head(ws).reg
    BY <1>1, <1>2, HandKnown DEF MicInv
  <2> HIDE DEF ws
  <2>2. Head(ws) \in EarSet
    BY <2>1, HeadTailProperties
  <2> QED BY <2>1, <2>2 DEF EarSet
<1>3. ASSUME hand["button"] # Nothing PROVE hand["button"].reg \in {2, 44, 45, 46, 47, 48}
  <2> PICK n \in 0..9 : Routed(n)
    BY RoutedFound
  <2> DEFINE w == MicWrites(mic)
  <2>1. /\ todo["button"] = MicLeft(mic, n) /\ MicLeft(mic, n) # <<>>
        /\ hand["button"].reg = Head(MicLeft(mic, n)).reg /\ hand["button"].reg \in Registers
    BY <1>1, <1>3, HandKnown DEF MicInv, Routed
  <2>2. n < 9 /\ hand["button"].reg = w[n + 1].reg
    <3>1. n # 9
      BY <2>1, MicLeftSteps
    <3>2. n < 9
      BY <3>1
    <3>3. Head(MicLeft(mic, n)) = w[n + 1]
      BY <3>2, MicLeftSteps
    <3> QED BY <2>1, <3>2, <3>3
  <2>3. /\ w[1].reg = RxChannel
        /\ \A i \in 2..9 : w[i].reg \in {2, 44, 45, 46, 47, 48}
    BY MicFacts
  <2> HIDE DEF w
  <2>4. n # 0
    <3>1. n = 0 => w[n + 1].reg = RxChannel
      BY <2>3
    <3>2. RxChannel \notin Registers
      BY DEF RxChannel, Registers
    <3> QED BY <2>1, <2>2, <3>1, <3>2
  <2>5. n + 1 \in 2..9
    BY <2>2, <2>4
  <2> QED BY <2>2, <2>3, <2>5
<1> QED BY <1>2, <1>3

\* To read a register moves nothing.
LEMMA MicRead ==
  ASSUME MicInv, NEW t \in {"command", "button"}, ReadReg(t)
  PROVE  MicInv'
<1> DEFINE w == Head(todo[t])
           h == [reg |-> w.reg, value |-> NewValue(cache, w), stored |-> FALSE]
<1>1. /\ todo[t] # <<>> /\ w.reg \in Registers /\ hand[t] = Nothing
      /\ hand' = [hand EXCEPT ![t] = h]
      /\ crossed' = crossed \cup {r \in {w.reg} : \E u \in Tasks \ {t} : hand[u].reg = r}
      /\ UNCHANGED <<part, cache, chip, claims, todo, i2s, lost, mic, session, decoder>>
  BY DEF ReadReg, Idle
<1>2. TaskInv /\ t \in Tasks /\ DOMAIN hand = Tasks
  BY DEF MicInv, TaskInv, Tasks
<1>3. TaskInv'
  BY <1>2, TaskRead
<1>4. \A u \in Tasks : u # t => hand'[u] = hand[u]
  BY <1>1, <1>2
<1>5. hand'[t] = h
  BY <1>1, <1>2
<1> HIDE DEF h
<1>6. h.reg = w.reg /\ h.value = NewValue(cache, w) /\ ~h.stored /\ h # Nothing
  <2>1. h.reg = w.reg /\ h.value = NewValue(cache, w) /\ ~h.stored
    BY DEF h
  <2> QED BY <1>1, <2>1, NothingHeld
<1>7. h.reg \notin {hand[u].reg : u \in Tasks \ {t}}
  <2>1. CASE t = "command"
    <3>1. h.reg \in 52..55
      <4> DEFINE ws == todo["command"]
      <4>1. ws \in Seq(EarSet) /\ ws # <<>>
        BY <1>1, <2>1 DEF MicInv
      <4> HIDE DEF ws
      <4>2. Head(ws) \in EarSet
        BY <4>1, HeadTailProperties
      <4> QED BY <1>6, <2>1, <4>2 DEF EarSet, ws
    <3>2. \A u \in Tasks \ {t} : hand[u] = Nothing \/ hand[u].reg \in {2, 44, 45, 46, 47, 48}
      BY <2>1, MicHands DEF MicInv, Tasks
    <3> QED BY <3>1, <3>2, NothingHeld
  <2>2. CASE t = "button"
    <3>1. h.reg \in {2, 44, 45, 46, 47, 48}
      <4> PICK n \in 0..9 : Routed(n)
        BY RoutedFound
      <4>1. MicLeft(mic, n) # <<>> /\ w = Head(MicLeft(mic, n))
        BY <1>1, <2>2 DEF Routed
      <4>2. n < 9 /\ w = MicWrites(mic)[n + 1]
        <5>1. n # 9
          BY <4>1, MicLeftSteps
        <5>2. n < 9
          BY <5>1
        <5>3. Head(MicLeft(mic, n)) = MicWrites(mic)[n + 1]
          BY <5>2, MicLeftSteps
        <5> QED BY <4>1, <5>2, <5>3
      <4> DEFINE all == MicWrites(mic)
      <4>3. /\ all[1].reg = RxChannel
            /\ \A i \in 2..9 : all[i].reg \in {2, 44, 45, 46, 47, 48}
        BY MicFacts
      <4>4. w = all[n + 1]
        BY <4>2
      <4> HIDE DEF all, w
      <4>5. n # 0
        <5>1. n = 0 => all[n + 1].reg = RxChannel
          BY <4>3
        <5>2. RxChannel \notin Registers
          BY DEF RxChannel, Registers
        <5> QED BY <1>1, <4>4, <5>1, <5>2
      <4>6. n + 1 \in 2..9
        BY <4>2, <4>5
      <4> QED BY <1>6, <4>3, <4>4, <4>6
    <3>2. \A u \in Tasks \ {t} : hand[u] = Nothing \/ hand[u].reg \in 52..55
      BY <2>2, MicHands DEF MicInv, Tasks
    <3> QED BY <3>1, <3>2, NothingHeld
  <2> QED BY <2>1, <2>2
<1>8. crossed' = {}
  BY <1>1, <1>6, <1>7 DEF MicInv
<1>9. MicAlone'
  <2>1. \A u \in {"player", "decoder"} : hand'[u] = hand[u]
    BY <1>4 DEF Tasks
  <2> QED BY <1>1, <1>8, <2>1 DEF MicInv, MicAlone
<1>10. \E n \in 0..9 : Routed(n)'
  <2> PICK n \in 0..9 : Routed(n)
    BY RoutedFound
  <2>1. CASE t = "command"
    <3>1. hand'["button"] = hand["button"]
      BY <1>4, <2>1 DEF Tasks
    <3> QED BY <1>1, <3>1 DEF Routed, Placed
  <2>2. CASE t = "button"
    <3>1. hand'["button"] = h
      BY <1>5, <2>2
    <3> QED BY <1>1, <1>6, <2>2, <3>1 DEF Routed, Placed
  <2> QED BY <2>1, <2>2
<1>11. BoardKept(cache)'
  BY <1>1 DEF MicInv, BoardKept
<1> QED BY <1>3, <1>9, <1>10, <1>11 DEF MicInv, MicAlone, Routed

PathRegs == {2, 44, 45, 46, 47, 48}

\* The writes of the buttons' task are those of MicWrites; the first is one to the I2S driver.
LEMMA MicNext ==
  ASSUME NEW n \in 0..9, Routed(n), todo["button"] # <<>>
  PROVE  /\ n < 9 /\ n + 1 \in 1..9 /\ Head(todo["button"]) = MicWrites(mic)[n + 1]
         /\ Tail(todo["button"]) = MicLeft(mic, n + 1)
         /\ n = 0 => Head(todo["button"]).reg = RxChannel
         /\ n # 0 => n + 1 \in 2..9 /\ Head(todo["button"]).reg \in PathRegs
<1> DEFINE all == MicWrites(mic)
<1>1. todo["button"] = MicLeft(mic, n)
  BY DEF Routed
<1>2. n # 9
  BY <1>1, MicLeftSteps
<1>3. n < 9 /\ n + 1 \in 1..9 /\ (n # 0 => n + 1 \in 2..9)
  BY <1>2
<1>4. Head(todo["button"]) = all[n + 1] /\ Tail(todo["button"]) = MicLeft(mic, n + 1)
  BY <1>1, <1>3, MicLeftSteps
<1>5. all[1].reg = RxChannel /\ \A i \in 2..9 : all[i].reg \in PathRegs
  BY MicFacts DEF PathRegs
<1> HIDE DEF all
<1>6. n = 0 => all[n + 1].reg = RxChannel
  BY <1>5
<1>7. n # 0 => all[n + 1].reg \in PathRegs
  BY <1>3, <1>5
<1> QED BY <1>3, <1>4, <1>6, <1>7 DEF all

\* The registers of the path are other ones than those of the volume.
LEMMA PathRegsKnown == PathRegs \subseteq Registers /\ RxChannel \notin Registers /\ PathRegs \cap 52..55 = {}
BY DEF PathRegs, Registers, RxChannel

LEMMA MicRegs == \A m : /\ MicWrites(m)[1].reg = RxChannel
                       /\ \A j \in 2..9 : MicWrites(m)[j].reg \in PathRegs
BY MicFacts DEF PathRegs

\* A step that leaves the microphones' registers and the task of the buttons alone.
LEMMA RoutedAside ==
  ASSUME NEW n \in 0..9, Routed(n), \A r \in PathRegs : cache'[r] = cache[r],
         hand["button"] # Nothing => Head(todo["button"]).reg \in PathRegs,
         mic' = mic, todo'["button"] = todo["button"], hand'["button"] = hand["button"], i2s' = i2s
  PROVE  Routed(n)'
<1> PICK all : all = MicWrites(mic)
  OBVIOUS
<1> PICK q : q = Head(todo["button"])
  OBVIOUS
<1>1. ASSUME NEW w, Placed(w), w.reg \in PathRegs \/ w.reg \notin Registers PROVE Placed(w)'
  <2>1. CASE w.reg \in PathRegs
    BY <1>1, <2>1, PathRegsKnown, PlacedStill
  <2>2. CASE w.reg \notin Registers
    BY <1>1, <2>2 DEF Placed
  <2> QED BY <1>1, <2>1, <2>2
<1>2. \A j \in 1..9 : all[j].reg \in PathRegs \/ all[j].reg \notin Registers
  <2>1. all[1].reg = RxChannel /\ \A j \in 2..9 : all[j].reg \in PathRegs
    BY MicRegs
  <2>2. \A j \in 1..9 : j = 1 \/ j \in 2..9
    OBVIOUS
  <2> QED BY <2>1, <2>2, PathRegsKnown
<1>3. \A j \in 1..n : Placed(all[j])'
  <2>1. \A j \in 1..n : j \in 1..9 /\ Placed(all[j])
    BY DEF Routed
  <2> QED BY <1>1, <1>2, <2>1
<1>4. MicWrites(mic') = all /\ MicLeft(mic', n) = MicLeft(mic, n) /\ Head(todo'["button"]) = q
  OBVIOUS
<1>5. hand["button"] # Nothing /\ hand["button"].stored => Placed(q)'
  BY <1>1 DEF Routed
<1>6. hand["button"] # Nothing => NewValue(cache', q) = NewValue(cache, q)
  BY DEF NewValue
<1>7. todo'["button"] = MicLeft(mic', n)
  BY <1>4 DEF Routed
<1>8. \A j \in 1..n : Placed(MicWrites(mic)[j])'
  BY <1>3, <1>4 DEF Placed
<1>9. hand["button"] # Nothing => IF hand["button"].stored THEN Placed(q)' ELSE hand["button"].value = NewValue(cache', q)
  BY <1>5, <1>6 DEF Routed
<1>10. hand'["button"] # Nothing =>
         IF hand'["button"].stored THEN Placed(Head(todo["button"]))'
         ELSE hand'["button"].value = NewValue(cache', Head(todo'["button"]))
  BY <1>4, <1>9 DEF Placed
<1> QED BY <1>7, <1>8, <1>10 DEF Routed

\* The command task's writes, of the microphone or the volume, go to the cache.
LEMMA MicStoreCommand == ASSUME MicInv, StoreReg("command") PROVE MicInv'
<1> DEFINE q == hand["command"].reg
<1>1. /\ hand["command"] # Nothing /\ cache' = [cache EXCEPT ![q] = hand["command"].value]
      /\ hand' = [hand EXCEPT !["command"].stored = TRUE]
      /\ UNCHANGED <<part, chip, claims, todo, i2s, lost, crossed, mic, session, decoder>>
  BY DEF StoreReg
<1>2. TaskInv /\ "command" \in Tasks /\ "button" \in Tasks /\ DOMAIN hand = Tasks /\ cache \in Cells
  BY DEF MicInv, TaskInv, Tasks, CleanCells
<1>3. TaskInv'
  BY <1>2, TaskStore
<1>4. q \in 52..55
  BY <1>1, MicHands
<1> HIDE DEF q
<1>5. \A r \in Registers : r # q => cache'[r] = cache[r]
  BY <1>1, <1>2 DEF Cells
<1>6. \A r \in PathRegs : cache'[r] = cache[r]
  BY <1>4, <1>5, PathRegsKnown
<1>7. \A u \in Tasks : u # "command" => hand'[u] = hand[u]
  BY <1>1, <1>2
<1>8. hand["button"] # Nothing => Head(todo["button"]).reg \in PathRegs
  BY <1>2, MicHands, HandKnown DEF PathRegs
<1>9. \E n \in 0..9 : Routed(n)'
  <2> PICK n \in 0..9 : Routed(n)
    BY RoutedFound
  <2>1. hand'["button"] = hand["button"]
    BY <1>2, <1>7
  <2>2. Routed(n)'
    BY <1>1, <1>6, <1>8, <2>1, RoutedAside
  <2> QED BY <2>2
<1>10. BoardKept(cache)'
  BY <1>6 DEF MicInv, BoardKept, PathRegs
<1>11. MicAlone'
  <2>1. \A u \in {"player", "decoder"} : hand'[u] = hand[u]
    BY <1>7 DEF Tasks
  <2> QED BY <1>1, <2>1 DEF MicInv, MicAlone
<1> QED BY <1>3, <1>9, <1>10, <1>11 DEF MicInv, MicAlone, Routed

\* The button's do too; the speaker's switches are beside the microphone's bits.
LEMMA MicStoreButton == ASSUME MicInv, StoreReg("button") PROVE MicInv'
<1> PICK all : all = MicWrites(mic)
  OBVIOUS
<1> PICK v : v = Head(todo["button"])
  OBVIOUS
<1> DEFINE h == hand["button"]
<1>1. /\ h # Nothing /\ ~h.stored /\ cache' = [cache EXCEPT ![h.reg] = h.value]
      /\ hand' = [hand EXCEPT !["button"].stored = TRUE]
      /\ UNCHANGED <<part, chip, claims, todo, i2s, lost, crossed, mic, session, decoder>>
  BY DEF StoreReg
<1>2. TaskInv /\ "button" \in Tasks /\ DOMAIN hand = Tasks /\ cache \in Cells /\ cache \in CleanCells
  BY DEF MicInv, TaskInv, Tasks, CleanCells
<1>3. TaskInv' /\ cache' \in CleanCells
  BY <1>2, TaskStore DEF TaskInv
<1>4. /\ h \in HandSet /\ h.reg \in PathRegs /\ todo["button"] # <<>> /\ h.reg = v.reg
  BY <1>1, <1>2, MicHands, HandKnown DEF PathRegs
<1> PICK n \in 0..9 : Routed(n)
  BY RoutedFound
<1>5. h.value = NewValue(cache, v)
  BY <1>1 DEF Routed
<1>6. n < 9 /\ n # 0 /\ n + 1 \in 2..9 /\ v = all[n + 1] /\ v.reg \in PathRegs /\ v.reg \in Registers
  BY <1>4, MicNext, PathRegsKnown
<1>7. /\ hand'["button"] # Nothing /\ hand'["button"].stored
      /\ \A u \in Tasks : u # "button" => hand'[u] = hand[u]
  <2>1. hand'["button"].stored /\ \A u \in Tasks : u # "button" => hand'[u] = hand[u]
    BY <1>1, <1>2, <1>4 DEF HandSet
  <2> QED BY <2>1, NothingHeld
<1>8. cache'[v.reg] = NewValue(cache, v) /\ \A r \in Registers : r # v.reg => cache'[r] = cache[r]
  BY <1>1, <1>2, <1>4, <1>5, <1>6 DEF Cells
<1>9. /\ \A i \in 2..9 : /\ all[i].put \cap NineBits \subseteq Cleared(all[i])
                         /\ all[i].reg \in PathRegs
                         /\ all[i].reg = 2 => Cleared(all[i]) \subseteq 2..5
                         /\ all[i].reg = 44 => 8 \notin Cleared(all[i])
      /\ \A i, j \in 2..9 : i # j /\ all[i].reg = all[j].reg => Cleared(all[i]) \cap Cleared(all[j]) = {}
      /\ all[1].reg = RxChannel
  BY MicFacts DEF PathRegs
<1>10. mic' = mic /\ todo' = todo /\ i2s' = i2s
  BY <1>1
<1> HIDE DEF h
<1>11. v.put \cap NineBits \subseteq Cleared(v)
  BY <1>6, <1>9
<1>12. Placed(v)'
  BY <1>6, <1>8, <1>11, PlacedNow
<1>13. \A j \in 1..n : Placed(all[j])'
  <2> SUFFICES ASSUME NEW j \in 1..n PROVE Placed(all[j])'
    OBVIOUS
  <2>1. Placed(all[j])
    BY DEF Routed
  <2>2. CASE j = 1
    BY <1>9, <1>10, <2>1, <2>2, PathRegsKnown DEF Placed
  <2>3. CASE j # 1
    <3> PICK w : w = all[j]
      OBVIOUS
    <3>1. j \in 2..9 /\ j # n + 1
      BY <1>6, <2>3
    <3>2. w.reg = v.reg => Cleared(w) \cap Cleared(v) = {}
      BY <1>6, <1>9, <3>1
    <3>3. w.reg \in Registers
      BY <1>9, <3>1, PathRegsKnown
    <3>4. Placed(w)
      BY <2>1
    <3>5. Placed(w)'
      BY <1>8, <1>11, <3>2, <3>3, <3>4, PlacedStill
    <3> QED BY <3>5 DEF Placed
  <2> QED BY <2>2, <2>3
<1>14. Routed(n)'
  <2>1. \A j \in 1..n : Placed(MicWrites(mic)[j])'
    BY <1>10, <1>13 DEF Placed
  <2>2. Placed(Head(todo["button"]))'
    BY <1>10, <1>12 DEF Placed
  <2>3. todo'["button"] = MicLeft(mic', n)
    BY <1>10 DEF Routed
  <2> QED BY <1>7, <2>1, <2>2, <2>3 DEF Routed
<1>15. BoardKept(cache)'
  <2>1. cache[2] \subseteq NineBits /\ cache'[2] \subseteq NineBits
    BY <1>2, <1>3 DEF CleanCells, Registers
  <2>2. cache[2] \ 2..5 = {0, 1, 7, 8} /\ 8 \in cache[44]
    BY DEF MicInv, BoardKept
  <2>3. 2 \in Registers /\ 44 \in Registers /\ 8 \in NineBits
    BY DEF Registers, NineBits
  <2>4. cache'[2] \ 2..5 = cache[2] \ 2..5
    <3>1. CASE v.reg = 2
      <4>1. Cleared(v) \subseteq 2..5
        BY <1>6, <1>9, <3>1
      <4>2. \A b \in NineBits \ 2..5 : b \in v.keep /\ b \notin v.put
        BY <1>11, <4>1 DEF Cleared
      <4>3. \A b \in NineBits \ 2..5 : b \in cache'[2] <=> b \in cache[2]
        BY <1>8, <3>1, <4>2 DEF NewValue
      <4> QED BY <2>1, <4>3
    <3>2. CASE v.reg # 2
      BY <1>8, <2>3, <3>2
    <3> QED BY <3>1, <3>2
  <2>5. 8 \in cache'[44]
    <3>1. CASE v.reg = 44
      <4>1. 8 \in v.keep
        BY <1>6, <1>9, <2>3, <3>1 DEF Cleared
      <4> QED BY <1>8, <2>2, <3>1, <4>1 DEF NewValue
    <3>2. CASE v.reg # 44
      BY <1>8, <2>2, <2>3, <3>2
    <3> QED BY <3>1, <3>2
  <2> QED BY <2>2, <2>4, <2>5 DEF BoardKept
<1>16. MicAlone'
  <2>1. \A u \in {"player", "decoder"} : hand'[u] = hand[u]
    BY <1>7 DEF Tasks
  <2> QED BY <1>1, <2>1 DEF MicInv, MicAlone
<1> QED BY <1>3, <1>14, <1>15, <1>16 DEF MicInv, MicAlone, Routed

\* A write is sent, and the next one is at hand.
LEMMA MicSend == ASSUME MicInv, NEW t \in {"command", "button"}, SendReg(t) PROVE MicInv'
<1>1. /\ hand[t].stored /\ hand' = [hand EXCEPT ![t] = Nothing]
      /\ todo' = [todo EXCEPT ![t] = Tail(@)]
      /\ UNCHANGED <<part, cache, claims, i2s, crossed, mic, session, decoder>>
  BY DEF SendReg
<1>2. TaskInv /\ t \in Tasks /\ DOMAIN hand = Tasks /\ DOMAIN todo = Tasks
  BY DEF MicInv, TaskInv, Tasks
<1>3. TaskInv'
  BY <1>2, TaskSend
<1>4. /\ hand'[t] = Nothing /\ todo'[t] = Tail(todo[t])
      /\ \A u \in Tasks : u # t => hand'[u] = hand[u] /\ todo'[u] = todo[u]
  BY <1>1, <1>2
<1>5. hand[t] # Nothing
  BY <1>1, NothingHeld
<1>6. todo[t] # <<>>
  BY <1>2, <1>5, HandKnown
<1> PICK n \in 0..9 : Routed(n)
  BY RoutedFound
<1>7. \E k \in 0..9 : Routed(k)'
  <2>1. CASE t = "command"
    <3>1. hand'["button"] = hand["button"] /\ todo'["button"] = todo["button"]
      BY <1>4, <2>1 DEF Tasks
    <3> QED BY <1>1, <3>1 DEF Routed, Placed
  <2>2. CASE t = "button"
    <3> PICK all : all = MicWrites(mic)
      OBVIOUS
    <3>0. todo["button"] # <<>>
      BY <1>6, <2>2
    <3>1. n + 1 \in 1..9 /\ n + 1 \in 0..9 /\ todo'["button"] = MicLeft(mic, n + 1) /\ Head(todo["button"]) = all[n + 1]
      <4>1. n + 1 \in 1..9 /\ Head(todo["button"]) = all[n + 1] /\ Tail(todo["button"]) = MicLeft(mic, n + 1)
        BY <3>0, MicNext
      <4> QED BY <1>4, <2>2, <4>1
    <3>2. Placed(all[n + 1])
      BY <1>1, <1>5, <2>2, <3>1 DEF Routed
    <3>3. \A j \in 1..n : Placed(all[j])
      BY DEF Routed
    <3>4. \A j \in 1..n + 1 : Placed(all[j])
      BY <3>2, <3>3
    <3>5. hand'["button"] = Nothing
      BY <1>4, <2>2
    <3> PICK k \in 0..9 : k = n + 1
      BY <3>1
    <3>6. \A j \in 1..k : Placed(MicWrites(mic)[j])'
      BY <1>1, <3>4 DEF Placed
    <3>7. Routed(k)'
      BY <1>1, <3>1, <3>5, <3>6 DEF Routed
    <3> QED BY <3>7
  <2> QED BY <2>1, <2>2
<1>8. todo'["command"] \in Seq(EarSet)
  <2>1. todo["command"] \in Seq(EarSet)
    BY DEF MicInv
  <2>2. CASE t = "command"
    BY <1>4, <1>6, <2>1, <2>2, HeadTailProperties
  <2>3. CASE t # "command"
    BY <1>4, <2>1, <2>3 DEF Tasks
  <2> QED BY <2>2, <2>3
<1>9. MicAlone'
  <2>1. \A u \in {"player", "decoder"} : hand'[u] = hand[u] /\ todo'[u] = todo[u]
    BY <1>4 DEF Tasks
  <2> QED BY <1>1, <1>8, <2>1 DEF MicInv, MicAlone
<1> QED BY <1>1, <1>3, <1>7, <1>9 DEF MicInv, MicAlone, Routed, BoardKept

\* The channel of the I2S port is the first write.
LEMMA MicI2s == ASSUME MicInv, NEW t \in {"command", "button"}, SetI2s(t) PROVE MicInv'
<1> DEFINE v == Head(todo[t])
<1>1. /\ todo[t] # <<>> /\ v.reg \notin Registers
      /\ i2s' = [i2s EXCEPT ![v.reg] = v.put]
      /\ todo' = [todo EXCEPT ![t] = Tail(@)]
      /\ UNCHANGED <<part, cache, chip, claims, hand, lost, crossed, mic, session, decoder>>
  BY DEF SetI2s, Idle
<1>2. TaskInv /\ t \in Tasks /\ DOMAIN todo = Tasks
  BY DEF MicInv, TaskInv, Tasks
<1>3. TaskInv'
  BY <1>2, TaskI2s
<1>4. t = "button"
  <2> SUFFICES ASSUME t = "command" PROVE FALSE
    OBVIOUS
  <2> DEFINE ws == todo["command"]
  <2>1. ws \in Seq(EarSet) /\ ws # <<>>
    BY <1>1 DEF MicInv
  <2> HIDE DEF ws
  <2>2. Head(ws) \in EarSet
    BY <2>1, HeadTailProperties
  <2> QED BY <1>1, <2>2 DEF EarSet, Registers, ws
<1> PICK n \in 0..9 : Routed(n)
  BY RoutedFound
<1>5. n = 0 /\ v.reg = RxChannel /\ v = MicWrites(mic)[n + 1] /\ Tail(todo["button"]) = MicLeft(mic, n + 1)
  BY <1>1, <1>4, MicNext, PathRegsKnown
<1>6. hand["button"] = Nothing
  BY <1>1, <1>2, <1>4, HandKnown
<1>7. DOMAIN i2s' = {Clock, RxChannel} /\ i2s'[v.reg] = v.put
  BY <1>1, <1>5 DEF MicInv
<1>8. todo'["button"] = MicLeft(mic, 1) /\ \A u \in Tasks : u # "button" => todo'[u] = todo[u]
  BY <1>1, <1>2, <1>4, <1>5
<1>9. Routed(1)'
  <2> PICK w : w = MicWrites(mic)[1]
    OBVIOUS
  <2>1. w = v
    BY <1>5
  <2>2. w.reg \notin Registers /\ i2s'[w.reg] = w.put
    BY <1>1, <1>7, <2>1
  <2>3. Placed(w)'
    BY <2>2 DEF Placed
  <2>4. \A j \in 1..1 : j = 1
    OBVIOUS
  <2>5. \A j \in 1..1 : Placed(MicWrites(mic)[j])'
    BY <1>1, <2>3, <2>4 DEF Placed
  <2>6. hand'["button"] = Nothing /\ todo'["button"] = MicLeft(mic', 1)
    BY <1>1, <1>6, <1>8
  <2> QED BY <2>5, <2>6 DEF Routed
<1>10. MicAlone'
  <2>1. \A u \in {"player", "decoder", "command"} : todo'[u] = todo[u]
    BY <1>8 DEF Tasks
  <2> QED BY <1>1, <1>7, <2>1 DEF MicInv, MicAlone
<1>11. 1 \in 0..9
  OBVIOUS
<1> QED BY <1>1, <1>3, <1>9, <1>10, <1>11 DEF MicInv, MicAlone, Routed, BoardKept

\* The writes of AT+VOL are those of the earphone's and the speaker's registers.
LEMMA EarWrites ==
  ASSUME NEW mute, NEW vol \in Nat
  PROVE  EarphoneVolume(mute, vol) \o SpeakerVolume(mute, vol) \in Seq(EarSet)
<1>1. \A ws, r : Tidy(ws) /\ Len(ws) = 1 /\ ws[1].reg = r /\ r \in 52..55 => ws \in Seq(EarSet)
  <2> SUFFICES ASSUME NEW ws \in Seq(TidySet), Len(ws) = 1, ws[1].reg \in 52..55 PROVE ws \in Seq(EarSet)
    BY DEF Tidy
  <2>1. 1 \in 1..Len(ws) /\ ws[1] \in TidySet
    BY ElementOfSeq
  <2>2. ws[1] \in EarSet
    BY <2>1 DEF EarSet
  <2>3. <<ws[1]>> \in Seq(EarSet)
    BY <2>2
  <2>4. ws = <<ws[1]>>
    OBVIOUS
  <2> QED BY <2>3, <2>4
<1> DEFINE a == LOUT1Volume(mute, vol)
           b == ROUT1Volume(mute, vol)
           c == LOUT2Volume(mute, vol)
           d == ROUT2Volume(mute, vol)
<1>2. /\ Len(a) = 1 /\ a[1].reg = 52
      /\ Len(b) = 1 /\ b[1].reg = 53
      /\ Len(c) = 1 /\ c[1].reg = 54
      /\ Len(d) = 1 /\ d[1].reg = 55
  BY DEF LOUT1Volume, ROUT1Volume, LOUT2Volume, ROUT2Volume, Put
<1>3. Tidy(a) /\ Tidy(b) /\ Tidy(c) /\ Tidy(d)
  BY GainCalls, CallsTidy
<1>4. EarphoneVolume(mute, vol) = a \o b /\ SpeakerVolume(mute, vol) = c \o d
  BY DEF EarphoneVolume, SpeakerVolume
<1> HIDE DEF a, b, c, d
<1>5. a \in Seq(EarSet) /\ b \in Seq(EarSet) /\ c \in Seq(EarSet) /\ d \in Seq(EarSet)
  BY <1>1, <1>2, <1>3
<1>6. a \o b \in Seq(EarSet) /\ c \o d \in Seq(EarSet)
  BY <1>5, ConcatProperties
<1> QED BY <1>4, <1>6, ConcatProperties

\* A volume command while the microphone is being set.
LEMMA MicVolume == ASSUME MicInv, parse_Vol PROVE MicInv'
<1>1. PICK volume \in Volumes :
        Give("command", EarphoneVolume(volume = 0, volume) \o SpeakerVolume(volume = 0, volume))
  BY DEF parse_Vol
<1>2. volume \in Nat
  BY CodecAssumption
<1> DEFINE ws == EarphoneVolume(volume = 0, volume) \o SpeakerVolume(volume = 0, volume)
<1>3. ws \in Seq(EarSet)
  BY <1>2, EarWrites
<1>4. /\ todo' = [todo EXCEPT !["command"] = @ \o ws] /\ todo["command"] = <<>>
      /\ UNCHANGED <<part, cache, chip, claims, hand, i2s, lost, crossed, mic, session, decoder>>
  BY <1>1 DEF Give, parse_Vol, Idle
<1>5. TaskInv'
  BY TaskStep DEF MicInv, Next
<1>6. DOMAIN todo = Tasks /\ "command" \in Tasks /\ "button" \in Tasks
  BY DEF MicInv, TaskInv, Tasks
<1> HIDE DEF ws
<1>7. todo'["command"] = todo["command"] \o ws /\ \A u \in Tasks : u # "command" => todo'[u] = todo[u]
  BY <1>4, <1>6
<1>8. todo'["command"] \in Seq(EarSet)
  <2>1. todo["command"] \in Seq(EarSet)
    BY DEF MicInv
  <2> QED BY <1>3, <1>7, <2>1, ConcatProperties
<1>9. MicAlone'
  <2>1. \A u \in {"player", "decoder"} : todo'[u] = todo[u]
    BY <1>7 DEF Tasks
  <2> QED BY <1>4, <1>8, <2>1 DEF MicInv, MicAlone
<1>10. \E n \in 0..9 : Routed(n)'
  <2> PICK n \in 0..9 : Routed(n)
    BY RoutedFound
  <2>1. todo'["button"] = todo["button"]
    BY <1>6, <1>7
  <2> QED BY <1>4, <2>1 DEF Routed, Placed
<1> QED BY <1>4, <1>5, <1>9, <1>10 DEF MicInv, MicAlone, Routed, BoardKept

\* The jack is plugged or pulled out, and the other microphone is to be set.
LEMMA MicJack == ASSUME MicInv, jack_dect_cb PROVE MicInv'
<1>1. /\ todo' = [todo EXCEPT !["button"] = @ \o SetChannel(mic')] /\ todo["button"] = <<>>
      /\ mic' = (IF mic = "MIC_BOARD" THEN "MIC_JACK" ELSE "MIC_BOARD")
      /\ UNCHANGED <<part, cache, chip, claims, hand, i2s, lost, crossed, session, decoder>>
  BY DEF Give, jack_dect_cb, Idle
<1>2. TaskInv'
  BY TaskStep DEF MicInv, Next
<1>3. DOMAIN todo = Tasks /\ "button" \in Tasks
  BY DEF MicInv, TaskInv, Tasks
<1>4. hand["button"] = Nothing
  BY <1>1, <1>3, HandKnown DEF MicInv
<1> PICK m : m = mic'
  OBVIOUS
<1> DEFINE ws == SetChannel(m)
<1>5. ws = MicWrites(m)
  BY ChannelWrites
<1>6. ws \in Seq(TidySet)
  BY MicTidy DEF Tidy
<1>7. MicWrites(m) = MicLeft(m, 0)
  <2>1. Len(MicWrites(m)) = 9
    BY DEF MicWrites
  <2> DEFINE all == MicWrites(m)
  <2>2. MicLeft(m, 0) = [i \in 1..9 - 0 |-> all[0 + i]]
    BY DEF MicLeft
  <2>3. all \in Seq(TidySet) /\ Len(all) = 9
    BY <1>5, <1>6, <2>1
  <2> HIDE DEF all
  <2>4. all = [i \in 1..9 |-> all[i]]
    BY <2>3, LenProperties
  <2>5. MicLeft(m, 0) = [i \in 1..9 |-> all[i]]
    <3>1. 9 - 0 = 9 /\ \A i \in 1..9 : 0 + i = i
      OBVIOUS
    <3> QED BY <2>2, <3>1
  <2> QED BY <2>4, <2>5 DEF all
<1> HIDE DEF ws
<1>8. todo'["button"] = <<>> \o ws
  BY <1>1, <1>3 DEF ws
<1>9. todo'["button"] = MicLeft(m, 0)
  <2>1. <<>> \o ws = ws
    BY <1>6, ConcatEmptySeq
  <2> QED BY <1>5, <1>7, <1>8, <2>1
<1>10. Routed(0)'
  <2>1. \A j \in 1..0 : FALSE
    OBVIOUS
  <2>2. hand'["button"] = Nothing
    BY <1>1, <1>4
  <2> QED BY <1>9, <2>1, <2>2 DEF Routed
<1>11. MicAlone'
  <2>1. \A u \in Tasks : u # "button" => todo'[u] = todo[u]
    BY <1>1, <1>3
  <2>2. \A u \in {"player", "decoder", "command"} : todo'[u] = todo[u]
    BY <2>1 DEF Tasks
  <2> QED BY <1>1, <2>2 DEF MicInv, MicAlone
<1>12. 0 \in 0..9
  OBVIOUS
<1> QED BY <1>1, <1>2, <1>10, <1>11, <1>12 DEF MicInv, MicAlone, Routed, BoardKept

\* Every step.
LEMMA MicStep == ASSUME MicInv, Next PROVE MicInv'
<1>1. /\ part = "paths" /\ session = None /\ decoder = "off"
      /\ \A t \in {"player", "decoder"} : todo[t] = <<>> /\ hand[t] = Nothing
  BY DEF MicInv
<1>2. ~ApiSet /\ ~ApiReset /\ ~WavStart /\ ~Mp3Start /\ ~Frame /\ ~Stop /\ ~DecoderExit
  BY <1>1 DEF ApiSet, ApiReset, WavStart, Mp3Start, Frame, Stop, DecoderExit
<1>3. ASSUME NEW t \in Tasks, ReadReg(t) \/ StoreReg(t) \/ SendReg(t) \/ SetI2s(t) PROVE MicInv'
  <2>1. CASE t \in {"player", "decoder"}
    <3>1. ~ReadReg(t) /\ ~SetI2s(t)
      BY <1>1, <2>1 DEF ReadReg, SetI2s, Idle
    <3>2. ~StoreReg(t) /\ ~SendReg(t)
      BY <1>1, <2>1, NothingHeld DEF StoreReg, SendReg
    <3> QED BY <1>3, <3>1, <3>2
  <2>2. CASE t \in {"command", "button"}
    BY <1>3, <2>2, MicRead, MicStoreCommand, MicStoreButton, MicSend, MicI2s
  <2> QED BY <2>1, <2>2 DEF Tasks
<1> QED BY <1>2, <1>3, MicVolume, MicJack DEF Next

----------------------------------------------------------------------------
(* The path at boot.                                                       *)

\* Every write of register r keeps bit b as it is.
Spares(ws, r, b) == \A i \in DOMAIN ws : ws[i].reg = r => b \in ws[i].keep /\ b \notin ws[i].put

\* Bit b of register r is set after the writes, whatever was there.
SetsBit(ws, r, b) == \A c \in Cells : b \in After(c, ws)[r]

\* A call of a setter leaves the bits of others alone.
LEMMA SparesCall ==
  ASSUME NEW name, NEW ws \in CallsOf(name), NEW r, NEW b \in NineBits, Owner(r, b) # name
  PROVE  Spares(ws, r, b)
<1>1. \A i \in DOMAIN ws : ws[i].put \cap ws[i].keep \cap NineBits = {}
                           /\ \A d \in NineBits \ ws[i].keep : Owner(ws[i].reg, d) = name
  BY DEF CallsOf, Fits
<1> QED BY <1>1 DEF Spares

\* So do two lists that both do.
LEMMA SparesJoined ==
  ASSUME NEW r, NEW b, NEW ws \in Seq(WriteSet), NEW more \in Seq(WriteSet), Spares(ws, r, b), Spares(more, r, b)
  PROVE  ws \o more \in Seq(WriteSet) /\ Spares(ws \o more, r, b)
<1> DEFINE M == Len(ws)
           N == Len(more)
           all == ws \o more
<1>1. /\ M \in Nat /\ N \in Nat /\ all \in Seq(WriteSet) /\ Len(all) = M + N
      /\ \A i \in 1..M : all[i] = ws[i]
      /\ \A i \in 1..N : all[M + i] = more[i]
      /\ DOMAIN ws = 1..M /\ DOMAIN more = 1..N /\ DOMAIN all = 1..M + N
  BY LenProperties, ConcatProperties
<1> HIDE DEF all, M, N
<1>2. ASSUME NEW i \in 1..M + N, all[i].reg = r PROVE b \in all[i].keep /\ b \notin all[i].put
  <2>1. CASE i \in 1..M
    BY <1>1, <1>2, <2>1 DEF Spares
  <2>2. CASE i \notin 1..M
    <3> PICK j \in 1..N : i = M + j
      <4>1. i - M \in 1..N /\ i = M + (i - M)
        BY <1>1, <2>2
      <4> QED BY <4>1
    <3>1. all[i] = more[j]
      BY <1>1
    <3> QED BY <1>1, <1>2, <3>1 DEF Spares
  <2> QED BY <2>1, <2>2
<1>3. \A i \in DOMAIN all : all[i].reg = r => b \in all[i].keep /\ b \notin all[i].put
  BY <1>1, <1>2
<1> QED BY <1>1, <1>3 DEF Spares, all

\* The registers after writes are sets of bits.
LEMMA AfterCells == ASSUME NEW c \in Cells, NEW ws \in Seq(WriteSet) PROVE After(c, ws) \in Cells
<1>1. \A d \in Cells \cap Cells, i \in 1..Len(ws) : OneWrite(d, ws[i]) \in Cells
  BY OneWriteCells, ElementOfSeq
<1> QED BY <1>1, AfterStays

\* What the writes leave alone is as it was.
LEMMA SparesAfter ==
  ASSUME NEW r \in Registers, NEW b, NEW regs \in Cells, NEW ws \in Seq(WriteSet), Spares(ws, r, b)
  PROVE  b \in After(regs, ws)[r] <=> b \in regs[r]
<1> DEFINE T == {c \in Cells : b \in c[r] <=> b \in regs[r]}
<1>1. \A c \in Cells \cap T, i \in 1..Len(ws) : OneWrite(c, ws[i]) \in T
  <2> SUFFICES ASSUME NEW c \in Cells, b \in c[r] <=> b \in regs[r], NEW i \in 1..Len(ws)
               PROVE  OneWrite(c, ws[i]) \in T
    OBVIOUS
  <2> DEFINE w == ws[i]
  <2>1. i \in DOMAIN ws /\ w \in WriteSet
    BY LenProperties, ElementOfSeq
  <2>2. w.reg = r => b \in w.keep /\ b \notin w.put
    BY <2>1 DEF Spares
  <2> HIDE DEF w
  <2>3. OneWrite(c, w) \in Cells /\ OneWrite(c, w)[r] = IF w.reg = r THEN NewValue(c, w) ELSE c[r]
    BY <2>1, OneWriteCells
  <2>4. b \in OneWrite(c, w)[r] <=> b \in c[r]
    BY <2>2, <2>3 DEF NewValue
  <2>5. OneWrite(c, w) \in T
    BY <2>3, <2>4
  <2> QED BY <2>5 DEF w
<1>2. regs \in T
  OBVIOUS
<1> HIDE DEF T
<1>3. After(regs, ws) \in T
  BY <1>1, <1>2, AfterStays
<1> QED BY <1>3 DEF T

\* A bit that is set, and left alone after that, stays set.
LEMMA SetsKept ==
  ASSUME NEW r \in Registers, NEW b, NEW ws \in Seq(WriteSet), NEW more \in Seq(WriteSet),
         SetsBit(ws, r, b), Spares(more, r, b)
  PROVE  ws \o more \in Seq(WriteSet) /\ SetsBit(ws \o more, r, b)
<1>1. ASSUME NEW c \in Cells PROVE b \in After(c, ws \o more)[r]
  <2>1. After(c, ws) \in Cells /\ b \in After(c, ws)[r]
    BY AfterCells DEF SetsBit
  <2>2. b \in After(After(c, ws), more)[r]
    BY <2>1, SparesAfter
  <2> QED BY <2>2, AfterJoined
<1> QED BY <1>1, ConcatProperties DEF SetsBit

\* A bit set by the second list, the last write of a list or a call.
LEMMA SetsLast ==
  ASSUME NEW r, NEW b, NEW ws \in Seq(WriteSet), NEW more \in Seq(WriteSet), SetsBit(more, r, b)
  PROVE  ws \o more \in Seq(WriteSet) /\ SetsBit(ws \o more, r, b)
<1>1. ASSUME NEW c \in Cells PROVE b \in After(c, ws \o more)[r]
  <2>1. After(c, ws) \in Cells
    BY AfterCells
  <2>2. b \in After(After(c, ws), more)[r]
    BY <2>1 DEF SetsBit
  <2> QED BY <2>2, AfterJoined
<1> QED BY <1>1, ConcatProperties DEF SetsBit

LEMMA SetsCall ==
  ASSUME NEW name, NEW ws \in CallsOf(name), NEW i \in 1..Len(ws), NEW b \in ws[i].put
  PROVE  SetsBit(ws, ws[i].reg, b)
<1>1. \A c \in Cells : After(c, ws)[ws[i].reg] = NewValue(c, ws[i])
  BY AfterCall
<1> QED BY <1>1 DEF SetsBit, NewValue

\* The setters that at_cmd_init() calls.
LEMMA BoardCalls ==
  /\ SampleRate(3 % 8) \in CallsOf("SampleRate")
  /\ ClockControl(FALSE, 0, 0, 0) \in CallsOf("ClockControl")
  /\ I2SInterface(2, 0) \in CallsOf("I2SInterface")
  /\ VMID(TRUE, 3) \in CallsOf("VMID")
  /\ MicBias(TRUE, 1) \in CallsOf("MicBias")
  /\ TSDEnable(TRUE) \in CallsOf("TSDEnable")
  /\ MIXEnable(TRUE, TRUE) \in CallsOf("MIXEnable")
  /\ DACEnable(TRUE, TRUE) \in CallsOf("DACEnable")
  /\ DACMode(1, TRUE, FALSE) \in CallsOf("DACMode")
  /\ LeftMixer(TRUE, FALSE, FALSE, 0, 0) \in CallsOf("LeftMixer")
  /\ RightMixer(TRUE, FALSE, FALSE, 0, 0) \in CallsOf("RightMixer")
  /\ InvROUT2(TRUE, FALSE) \in CallsOf("InvROUT2")
  /\ ADCEnable(TRUE, TRUE) \in CallsOf("ADCEnable")
  /\ ADCMode(1) \in CallsOf("ADCMode")
  /\ EQ3DMode(1) \in CallsOf("EQ3DMode")
  /\ OUT1Enable(TRUE, TRUE) \in CallsOf("OUT1Enable")
  /\ OUT2Enable(TRUE, TRUE) \in CallsOf("OUT2Enable")
  /\ SpkBoost(TRUE) \in CallsOf("SpkBoost")
  /\ LOUT1Volume(FALSE, 30) \in CallsOf("LOUT1Volume")
  /\ ROUT1Volume(FALSE, 30) \in CallsOf("ROUT1Volume")
  /\ LOUT2Volume(FALSE, 30) \in CallsOf("LOUT2Volume")
  /\ ROUT2Volume(FALSE, 30) \in CallsOf("ROUT2Volume")
  /\ SlowClkEnable(TRUE) \in CallsOf("SlowClkEnable")
  /\ JDen(1, 32) \in CallsOf("JDen")
  /\ JDSel(0, TRUE) \in CallsOf("JDSel")
<1>1. SampleRate(3 % 8) \in CallsOf("SampleRate") /\ VMID(TRUE, 3) \in CallsOf("VMID")
  <2>1. 3 % 8 \in 0..7 /\ 3 \in 0..3
    OBVIOUS
  <2> QED BY <2>1, ChangeCalls, Zenon
<1>2. I2SInterface(2, 0) \in CallsOf("I2SInterface")
  <2>1. \A i2s_mode, word_len \in 0..3 : I2SInterface(i2s_mode, word_len) \in CallsOf("I2SInterface")
    BY ChangeCalls
  <2> QED BY <2>1
<1>3. ClockControl(FALSE, 0, 0, 0) \in CallsOf("ClockControl")
  <2>1. \A on, clk : \A bclk \in 0..5, mclk \in 0..7 :
          ClockControl(on, clk, bclk, mclk) \in CallsOf("ClockControl")
    BY ClockCalls
  <2>2. 0 \in 0..5 /\ 0 \in 0..7
    OBVIOUS
  <2> QED BY <2>1, <2>2, Zenon
<1>4. JDen(1, 32) \in CallsOf("JDen")
  <2>1. \A l, r \in 0..255 : JDen(l, r) \in CallsOf("JDen")
    BY VolumeCalls
  <2>2. 1 \in 0..255 /\ 32 \in 0..255
    OBVIOUS
  <2> QED BY <2>1, <2>2, Zenon
<1>5. JDSel(0, TRUE) \in CallsOf("JDSel")
  <2>1. \A on : \A jd \in 0..2 : JDSel(jd, on) \in CallsOf("JDSel")
    BY ClockCalls
  <2>2. 0 \in 0..2
    OBVIOUS
  <2> QED BY <2>1, <2>2, Zenon
<1>6. MicBias(TRUE, 1) \in CallsOf("MicBias") /\ SpkBoost(TRUE) \in CallsOf("SpkBoost")
  BY PathCalls
<1>7. TSDEnable(TRUE) \in CallsOf("TSDEnable") /\ InvROUT2(TRUE, FALSE) \in CallsOf("InvROUT2")
  BY PathSwitches
<1>8. /\ LeftMixer(TRUE, FALSE, FALSE, 0, 0) \in CallsOf("LeftMixer")
      /\ RightMixer(TRUE, FALSE, FALSE, 0, 0) \in CallsOf("RightMixer")
  BY MixerCalls
<1>9. /\ MIXEnable(TRUE, TRUE) \in CallsOf("MIXEnable") /\ DACEnable(TRUE, TRUE) \in CallsOf("DACEnable")
      /\ DACMode(1, TRUE, FALSE) \in CallsOf("DACMode") /\ ADCEnable(TRUE, TRUE) \in CallsOf("ADCEnable")
      /\ ADCMode(1) \in CallsOf("ADCMode") /\ EQ3DMode(1) \in CallsOf("EQ3DMode")
      /\ OUT1Enable(TRUE, TRUE) \in CallsOf("OUT1Enable") /\ OUT2Enable(TRUE, TRUE) \in CallsOf("OUT2Enable")
      /\ SlowClkEnable(TRUE) \in CallsOf("SlowClkEnable")
  BY PowerSwitches
<1>10. /\ LOUT1Volume(FALSE, 30) \in CallsOf("LOUT1Volume") /\ ROUT1Volume(FALSE, 30) \in CallsOf("ROUT1Volume")
       /\ LOUT2Volume(FALSE, 30) \in CallsOf("LOUT2Volume") /\ ROUT2Volume(FALSE, 30) \in CallsOf("ROUT2Volume")
  BY GainCalls
<1> QED BY <1>1, <1>2, <1>3, <1>4, <1>5, <1>6, <1>7, <1>8, <1>9, <1>10

\* The bits that the microphones' path shares with what at_cmd_init() sets: some writes set those
\* of Q and keep the others.
BoardBits == {<<2, 0>>, <<2, 1>>, <<2, 6>>, <<2, 7>>, <<2, 8>>, <<44, 8>>}
Leaves(ws, Q) ==
  /\ ws \in Seq(WriteSet)
  /\ \A p \in BoardBits : IF p \in Q THEN SetsBit(ws, p[1], p[2]) ELSE Spares(ws, p[1], p[2])

\* The bits in question are bits of registers.
LEMMA BitsOfBoard ==
  /\ \A p \in BoardBits : p[1] \in Registers /\ p[2] \in NineBits /\ p[1] \in {2, 44}
  /\ \A p \in BoardBits : Owner(p[1], p[2]) \in {"ADCEnable", "Sleep", "OUT1Enable", "MicBias"}
<1>1. \A p \in BoardBits : p[1] \in {2, 44} /\ p[2] \in NineBits
  BY DEF BoardBits, NineBits
<1>2. /\ Owner(2, 0) = "ADCEnable" /\ Owner(2, 1) = "ADCEnable" /\ Owner(2, 6) = "Sleep"
      /\ Owner(2, 7) = "OUT1Enable" /\ Owner(2, 8) = "OUT1Enable" /\ Owner(44, 8) = "MicBias"
  BY DEF Owner
<1>3. \A p \in BoardBits : Owner(p[1], p[2]) \in {"ADCEnable", "Sleep", "OUT1Enable", "MicBias"}
  BY <1>2 DEF BoardBits
<1> QED BY <1>1, <1>3 DEF Registers

\* One list after another.
LEMMA LeavesJoined ==
  ASSUME NEW ws, NEW Q, Leaves(ws, Q), NEW more, NEW R, Leaves(more, R)
  PROVE  Leaves(ws \o more, Q \cup R)
<1>1. ws \in Seq(WriteSet) /\ more \in Seq(WriteSet) /\ ws \o more \in Seq(WriteSet)
  BY ConcatProperties DEF Leaves
<1>2. ASSUME NEW p \in BoardBits
      PROVE  IF p \in Q \cup R THEN SetsBit(ws \o more, p[1], p[2]) ELSE Spares(ws \o more, p[1], p[2])
  <2> PICK r, b : r \in Registers /\ r = p[1] /\ b = p[2]
    BY BitsOfBoard
  <2>1. /\ IF p \in Q THEN SetsBit(ws, r, b) ELSE Spares(ws, r, b)
        /\ IF p \in R THEN SetsBit(more, r, b) ELSE Spares(more, r, b)
    BY DEF Leaves
  <2>2. CASE p \in R
    <3>1. SetsBit(ws \o more, r, b)
      BY <1>1, <2>1, <2>2, SetsLast
    <3> QED BY <2>2, <3>1
  <2>3. CASE p \notin R /\ p \in Q
    <3>1. SetsBit(ws \o more, r, b)
      BY <1>1, <2>1, <2>3, SetsKept
    <3> QED BY <2>3, <3>1
  <2>4. CASE p \notin R /\ p \notin Q
    <3>1. Spares(ws \o more, r, b)
      BY <1>1, <2>1, <2>4, SparesJoined
    <3> QED BY <2>4, <3>1
  <2> QED BY <2>2, <2>3, <2>4
<1> QED BY <1>1, <1>2 DEF Leaves

\* A list that touches none of them.
LEMMA LeavesOthers ==
  ASSUME NEW name, name \notin {"ADCEnable", "Sleep", "OUT1Enable", "MicBias"}, NEW ws \in CallsOf(name)
  PROVE  Leaves(ws, {})
<1>1. \A p \in BoardBits : Spares(ws, p[1], p[2])
  BY BitsOfBoard, SparesCall
<1> QED BY <1>1 DEF Leaves, CallsOf

\* What the steps of the start do to them: the bias of the microphones,
LEMMA MicBiasLeaves == Leaves(MicBias(TRUE, 1), {<<44, 8>>})
<1> DEFINE ws == MicBias(TRUE, 1)
<1>1. Len(ws) = 2 /\ ws[2] = Switch(44, [MBVSEL |-> TRUE])
  <2>1. (1 = 1) = TRUE
    OBVIOUS
  <2> QED BY <2>1 DEF MicBias
<1>2. ws[2].reg = 44 /\ 8 \in ws[2].put
  <2>1. Bit["MBVSEL"] = 8
    BY PathBitNumbers
  <2>2. On([MBVSEL |-> TRUE]) = {8}
    BY <2>1 DEF On
  <2>3. \A reg, f : Switch(reg, f).reg = reg /\ Switch(reg, f).put = On(f)
    BY DEF Switch, Change
  <2> PICK f : f = [MBVSEL |-> TRUE]
    OBVIOUS
  <2>4. ws[2] = Switch(44, f) /\ On(f) = {8}
    BY <1>1, <2>2
  <2> HIDE DEF ws
  <2> QED BY <2>3, <2>4
<1>3. ws \in CallsOf("MicBias")
  BY PathCalls
<1> HIDE DEF ws
<1>4. 2 \in 1..Len(ws)
  BY <1>1
<1>5. SetsBit(ws, 44, 8)
  BY <1>2, <1>3, <1>4, SetsCall
<1>6. \A p \in BoardBits : p # <<44, 8>> => Owner(p[1], p[2]) # "MicBias"
  <2>1. /\ Owner(2, 0) = "ADCEnable" /\ Owner(2, 1) = "ADCEnable" /\ Owner(2, 6) = "Sleep"
        /\ Owner(2, 7) = "OUT1Enable" /\ Owner(2, 8) = "OUT1Enable"
    BY DEF Owner
  <2> QED BY <2>1 DEF BoardBits
<1>7. \A p \in BoardBits : p # <<44, 8>> => Spares(ws, p[1], p[2])
  BY <1>3, <1>6, BitsOfBoard, SparesCall
<1>8. \A p \in BoardBits : p \in {<<44, 8>>} => SetsBit(ws, p[1], p[2])
  BY <1>5
<1>9. ws \in Seq(WriteSet)
  BY <1>3 DEF CallsOf
<1>10. \A p \in BoardBits : p \notin {<<44, 8>>} => Spares(ws, p[1], p[2])
  BY <1>7
<1>11. Leaves(ws, {<<44, 8>>})
  BY <1>8, <1>9, <1>10 DEF Leaves
<1> QED BY <1>11 DEF ws

\* the converters,
LEMMA ADCLeaves == Leaves(ADCEnable(TRUE, TRUE), {<<2, 0>>, <<2, 1>>})
<1> DEFINE ws == ADCEnable(TRUE, TRUE)
<1>1. Len(ws) = 1 /\ ws[1] = Switch(2, [ADCENL |-> TRUE, ADCENR |-> TRUE])
  BY DEF ADCEnable
<1>2. ws[1].reg = 2 /\ 0 \in ws[1].put /\ 1 \in ws[1].put
  <2>1. Bit["ADCENL"] = 0 /\ Bit["ADCENR"] = 1
    BY BitNumbers
  <2>2. On([ADCENL |-> TRUE, ADCENR |-> TRUE]) = {0, 1}
    BY <2>1 DEF On
  <2>3. \A reg, f : Switch(reg, f).reg = reg /\ Switch(reg, f).put = On(f)
    BY DEF Switch, Change
  <2> PICK f : f = [ADCENL |-> TRUE, ADCENR |-> TRUE]
    OBVIOUS
  <2>4. ws[1] = Switch(2, f) /\ On(f) = {0, 1}
    BY <1>1, <2>2
  <2> HIDE DEF ws
  <2> QED BY <2>3, <2>4
<1>3. ws \in CallsOf("ADCEnable")
  BY PowerSwitches
<1> HIDE DEF ws
<1>4. 1 \in 1..Len(ws)
  BY <1>1
<1>5. SetsBit(ws, 2, 0) /\ SetsBit(ws, 2, 1)
  BY <1>2, <1>3, <1>4, SetsCall
<1>6. \A p \in BoardBits : p \notin {<<2, 0>>, <<2, 1>>} => Owner(p[1], p[2]) # "ADCEnable"
  <2>1. /\ Owner(2, 6) = "Sleep" /\ Owner(2, 7) = "OUT1Enable" /\ Owner(2, 8) = "OUT1Enable"
        /\ Owner(44, 8) = "MicBias"
    BY DEF Owner
  <2> QED BY <2>1 DEF BoardBits
<1>7. \A p \in BoardBits : p \notin {<<2, 0>>, <<2, 1>>} => Spares(ws, p[1], p[2])
  BY <1>3, <1>6, BitsOfBoard, SparesCall
<1>8. \A p \in BoardBits : p \in {<<2, 0>>, <<2, 1>>} => SetsBit(ws, p[1], p[2])
  BY <1>5
<1>9. ws \in Seq(WriteSet)
  BY <1>3 DEF CallsOf
<1>10. \A p \in BoardBits : p \notin {<<2, 0>>, <<2, 1>>} => Spares(ws, p[1], p[2])
  BY <1>7
<1>11. Leaves(ws, {<<2, 0>>, <<2, 1>>})
  BY <1>8, <1>9, <1>10 DEF Leaves
<1> QED BY <1>11 DEF ws

\* the earphones,
LEMMA OUT1Leaves == Leaves(OUT1Enable(TRUE, TRUE), {<<2, 7>>, <<2, 8>>})
<1> DEFINE ws == OUT1Enable(TRUE, TRUE)
<1>1. Len(ws) = 1 /\ ws[1] = Switch(2, [LOUT1EN |-> TRUE, ROUT1EN |-> TRUE])
  BY DEF OUT1Enable
<1>2. ws[1].reg = 2 /\ 7 \in ws[1].put /\ 8 \in ws[1].put
  <2>1. Bit["LOUT1EN"] = 7 /\ Bit["ROUT1EN"] = 8
    BY BitNumbers
  <2>2. On([LOUT1EN |-> TRUE, ROUT1EN |-> TRUE]) = {7, 8}
    BY <2>1 DEF On
  <2>3. \A reg, f : Switch(reg, f).reg = reg /\ Switch(reg, f).put = On(f)
    BY DEF Switch, Change
  <2> PICK f : f = [LOUT1EN |-> TRUE, ROUT1EN |-> TRUE]
    OBVIOUS
  <2>4. ws[1] = Switch(2, f) /\ On(f) = {7, 8}
    BY <1>1, <2>2
  <2> HIDE DEF ws
  <2> QED BY <2>3, <2>4
<1>3. ws \in CallsOf("OUT1Enable")
  BY PowerSwitches
<1> HIDE DEF ws
<1>4. 1 \in 1..Len(ws)
  BY <1>1
<1>5. SetsBit(ws, 2, 7) /\ SetsBit(ws, 2, 8)
  BY <1>2, <1>3, <1>4, SetsCall
<1>6. \A p \in BoardBits : p \notin {<<2, 7>>, <<2, 8>>} => Owner(p[1], p[2]) # "OUT1Enable"
  <2>1. /\ Owner(2, 0) = "ADCEnable" /\ Owner(2, 1) = "ADCEnable" /\ Owner(2, 6) = "Sleep"
        /\ Owner(44, 8) = "MicBias"
    BY DEF Owner
  <2> QED BY <2>1 DEF BoardBits
<1>7. \A p \in BoardBits : p \notin {<<2, 7>>, <<2, 8>>} => Spares(ws, p[1], p[2])
  BY <1>3, <1>6, BitsOfBoard, SparesCall
<1>8. \A p \in BoardBits : p \in {<<2, 7>>, <<2, 8>>} => SetsBit(ws, p[1], p[2])
  BY <1>5
<1>9. ws \in Seq(WriteSet)
  BY <1>3 DEF CallsOf
<1>10. \A p \in BoardBits : p \notin {<<2, 7>>, <<2, 8>>} => Spares(ws, p[1], p[2])
  BY <1>7
<1>11. Leaves(ws, {<<2, 7>>, <<2, 8>>})
  BY <1>8, <1>9, <1>10 DEF Leaves
<1> QED BY <1>11 DEF ws

\* the path,
LEMMA ChannelLeaves == Leaves(SetChannel("MIC_BOARD"), {})
<1> DEFINE ws == SetChannel("MIC_BOARD")
<1>1. ws = MicWrites("MIC_BOARD") /\ Len(ws) = 9
  <2>1. Len(MicWrites("MIC_BOARD")) = 9
    BY DEF MicWrites
  <2> QED BY <2>1, ChannelWrites
<1>2. ws \in Seq(WriteSet)
  <2>1. TidySet \subseteq WriteSet
    BY DEF TidySet, WriteSet, NineBits
  <2>2. ws \in Seq(TidySet)
    BY MicTidy DEF Tidy
  <2> HIDE DEF ws
  <2>3. \A i \in 1..9 : ws[i] \in WriteSet
    BY <1>1, <2>1, <2>2, ElementOfSeq
  <2>4. ws \in [1..9 -> WriteSet]
    BY <1>1, <2>2, <2>3, LenProperties
  <2> QED BY <2>4, SeqDef
<1>3. /\ ws[1].reg = RxChannel
      /\ \A i \in 2..9 : /\ ws[i].put \cap NineBits \subseteq Cleared(ws[i])
                         /\ ws[i].reg = 2 => Cleared(ws[i]) \subseteq 2..5
                         /\ ws[i].reg = 44 => 8 \notin Cleared(ws[i])
  <2> HIDE DEF ws
  <2> QED BY <1>1, MicFacts
<1> HIDE DEF ws
<1>4. ASSUME NEW p \in BoardBits PROVE Spares(ws, p[1], p[2])
  <2>1. p[2] \in NineBits /\ p[1] \in {2, 44} /\ RxChannel \notin {2, 44}
    BY BitsOfBoard DEF RxChannel
  <2>2. \A i \in 2..9 : ws[i].reg = p[1] => p[2] \notin Cleared(ws[i])
    <3>1. p[1] = 2 => p[2] \notin 2..5
      BY DEF BoardBits
    <3>2. p[1] = 44 => p[2] = 8
      BY DEF BoardBits
    <3> QED BY <1>3, <2>1, <3>1, <3>2
  <2>3. \A i \in 2..9 : ws[i].reg = p[1] => p[2] \in ws[i].keep /\ p[2] \notin ws[i].put
    BY <1>3, <2>1, <2>2 DEF Cleared
  <2>4. DOMAIN ws = 1..9 /\ \A i \in 1..9 : i = 1 \/ i \in 2..9
    BY <1>1, <1>2, LenProperties
  <2> QED BY <1>3, <2>1, <2>3, <2>4 DEF Spares
<1> QED BY <1>2, <1>4 DEF Leaves, ws

\* What at_cmd_init() leaves of these bits: all set, but for that of the sleep mode.
LEMMA SoundLeaves == Leaves(I2sInit(3) \o EarphoneSpeaker(30), BoardBits \ {<<2, 6>>})
<1>1. \A ws, Q, R, more : Leaves(ws, Q) /\ Leaves(more, R) => Leaves(ws \o more, Q \cup R)
  BY LeavesJoined
<1>2. \A ws, Q, more : Leaves(ws, Q) /\ Leaves(more, {}) => Leaves(ws \o more, Q)
  <2>1. \A Q : Q \cup {} = Q
    OBVIOUS
  <2> QED BY <1>1, <2>1
<1>3. Leaves(I2sInit(3), {<<44, 8>>, <<2, 0>>, <<2, 1>>})
  <2> DEFINE a == SampleRate(3 % 8) \o ClockControl(FALSE, 0, 0, 0) \o I2SInterface(2, 0) \o VMID(TRUE, 3)
             b == a \o MicBias(TRUE, 1)
             c == b \o TSDEnable(TRUE) \o MIXEnable(TRUE, TRUE) \o DACEnable(TRUE, TRUE) \o DACMode(1, TRUE, FALSE)
             d == c \o LeftMixer(TRUE, FALSE, FALSE, 0, 0) \o RightMixer(TRUE, FALSE, FALSE, 0, 0) \o
                  InvROUT2(TRUE, FALSE)
             e == d \o ADCEnable(TRUE, TRUE)
  <2>1. I2sInit(3) = e \o ADCMode(1) \o EQ3DMode(1)
    BY DEF I2sInit
  <2>2. /\ Leaves(SampleRate(3 % 8), {}) /\ Leaves(ClockControl(FALSE, 0, 0, 0), {})
        /\ Leaves(I2SInterface(2, 0), {}) /\ Leaves(VMID(TRUE, 3), {}) /\ Leaves(TSDEnable(TRUE), {})
        /\ Leaves(MIXEnable(TRUE, TRUE), {}) /\ Leaves(DACEnable(TRUE, TRUE), {})
        /\ Leaves(DACMode(1, TRUE, FALSE), {}) /\ Leaves(LeftMixer(TRUE, FALSE, FALSE, 0, 0), {})
        /\ Leaves(RightMixer(TRUE, FALSE, FALSE, 0, 0), {}) /\ Leaves(InvROUT2(TRUE, FALSE), {})
        /\ Leaves(ADCMode(1), {}) /\ Leaves(EQ3DMode(1), {})
    BY BoardCalls, LeavesOthers
  <2>3. Leaves(a, {})
    BY <1>2, <2>2
  <2>4. Leaves(b, {<<44, 8>>})
    <3>1. {} \cup {<<44, 8>>} = {<<44, 8>>}
      OBVIOUS
    <3> HIDE DEF a
    <3> QED BY <1>1, <2>3, <3>1, MicBiasLeaves
  <2> HIDE DEF b
  <2>5. Leaves(c, {<<44, 8>>})
    BY <1>2, <2>2, <2>4
  <2> HIDE DEF c
  <2>6. Leaves(d, {<<44, 8>>})
    BY <1>2, <2>2, <2>5
  <2> HIDE DEF d
  <2>7. Leaves(e, {<<44, 8>>, <<2, 0>>, <<2, 1>>})
    <3>1. {<<44, 8>>} \cup {<<2, 0>>, <<2, 1>>} = {<<44, 8>>, <<2, 0>>, <<2, 1>>}
      OBVIOUS
    <3>2. Leaves(e, {<<44, 8>>} \cup {<<2, 0>>, <<2, 1>>})
      BY <1>1, <2>6, ADCLeaves
    <3> QED BY <3>1, <3>2
  <2> HIDE DEF e
  <2> QED BY <1>2, <2>1, <2>2, <2>7
<1>4. Leaves(EarphoneSpeaker(30), {<<2, 7>>, <<2, 8>>})
  <2> DEFINE Q == {<<2, 7>>, <<2, 8>>}
             a == OUT1Enable(TRUE, TRUE) \o OUT2Enable(TRUE, TRUE) \o SpkBoost(TRUE)
             b == a \o EarphoneVolume(FALSE, 30) \o SpeakerVolume(FALSE, 30)
  <2>1. EarphoneSpeaker(30) = b \o SlowClkEnable(TRUE) \o JDen(1, 32) \o JDSel(0, TRUE)
    BY DEF EarphoneSpeaker
  <2>2. /\ Leaves(OUT2Enable(TRUE, TRUE), {}) /\ Leaves(SpkBoost(TRUE), {})
        /\ Leaves(LOUT1Volume(FALSE, 30), {}) /\ Leaves(ROUT1Volume(FALSE, 30), {})
        /\ Leaves(LOUT2Volume(FALSE, 30), {}) /\ Leaves(ROUT2Volume(FALSE, 30), {})
        /\ Leaves(SlowClkEnable(TRUE), {}) /\ Leaves(JDen(1, 32), {}) /\ Leaves(JDSel(0, TRUE), {})
    BY BoardCalls, LeavesOthers
  <2>3. Leaves(EarphoneVolume(FALSE, 30), {}) /\ Leaves(SpeakerVolume(FALSE, 30), {})
    BY <1>2, <2>2 DEF EarphoneVolume, SpeakerVolume
  <2>4. Leaves(OUT1Enable(TRUE, TRUE), Q)
    BY OUT1Leaves
  <2> HIDE DEF Q
  <2>5. Leaves(a, Q)
    BY <1>2, <2>2, <2>4
  <2> HIDE DEF a
  <2>6. Leaves(b, Q)
    BY <1>2, <2>3, <2>5
  <2> HIDE DEF b
  <2>7. Leaves(EarphoneSpeaker(30), Q)
    BY <1>2, <2>1, <2>2, <2>6
  <2> QED BY <2>7 DEF Q
<1>5. {<<44, 8>>, <<2, 0>>, <<2, 1>>} \cup {<<2, 7>>, <<2, 8>>} = BoardBits \ {<<2, 6>>}
  BY DEF BoardBits
<1> QED BY <1>1, <1>3, <1>4, <1>5

\* and all of them.
LEMMA BoardLeaves == Leaves(BoardInit, BoardBits \ {<<2, 6>>})
<1>1. Leaves(BoardInit, (BoardBits \ {<<2, 6>>}) \cup {})
  BY SoundLeaves, ChannelLeaves, LeavesJoined DEF BoardInit
<1>2. (BoardBits \ {<<2, 6>>}) \cup {} = BoardBits \ {<<2, 6>>}
  OBVIOUS
<1> QED BY <1>1, <1>2

\* The bits of a write are in some registers.
PlacedIn(regs, w) == \A b \in NineBits \ w.keep : b \in regs[w.reg] <=> b \in w.put

\* A write puts its own bits in place.
LEMMA OneWriteAt ==
  \A c \in Cells, w \in WriteSet, r \in Registers :
    OneWrite(c, w)[r] = IF w.reg = r THEN NewValue(c, w) ELSE c[r]
<1> SUFFICES ASSUME NEW c \in Cells, NEW w \in WriteSet
             PROVE  \A r \in Registers : OneWrite(c, w)[r] = IF w.reg = r THEN NewValue(c, w) ELSE c[r]
  OBVIOUS
<1> QED BY OneWriteCells

\* Writes that take no bit of each other are all in the registers when they have been made.
LEMMA AllPlaced ==
  ASSUME NEW regs \in Cells, NEW ws \in Seq(WriteSet),
         \A i \in 1..Len(ws) : ws[i].reg \in Registers => ws[i].put \cap NineBits \subseteq Cleared(ws[i]),
         \A i, j \in 1..Len(ws) : i # j /\ ws[i].reg = ws[j].reg /\ ws[i].reg \in Registers
                                  => Cleared(ws[i]) \cap Cleared(ws[j]) = {}
  PROVE  \A i \in 1..Len(ws) : ws[i].reg \in Registers => PlacedIn(After(regs, ws), ws[i])
<1> DEFINE N == Len(ws)
<1> PICK a \in [0..N -> Cells] :
           /\ a[0] = regs /\ After(regs, ws) = a[N]
           /\ \A n \in 1..N : a[n] = OneWrite(a[n - 1], ws[n])
  BY AfterSteps
<1>1. N \in Nat /\ \A i \in 1..N : ws[i] \in WriteSet
  BY LenProperties, ElementOfSeq
<1> DEFINE S == {n \in 0..N : \A i \in 1..n : ws[i].reg \in Registers => PlacedIn(a[n], ws[i])}
<1>2. 0 \in S
  BY <1>1
<1>3. \A n \in 0..N - 1 : n \in S => n + 1 \in S
  <2> SUFFICES ASSUME NEW n \in 0..N - 1, n \in S PROVE n + 1 \in S
    OBVIOUS
  <2> PICK m \in 1..N : m = n + 1
    BY <1>1
  <2> PICK w : w = ws[m]
    OBVIOUS
  <2>1. m \in 1..N /\ m - 1 = n /\ m \in 0..N /\ n \in 0..N /\ a[n] \in Cells /\ w \in WriteSet
    BY <1>1
  <2>2. \A r \in Registers : a[m][r] = IF w.reg = r THEN NewValue(a[n], w) ELSE a[n][r]
    <3>1. a[m] = OneWrite(a[n], w)
      BY <2>1
    <3> PICK c \in Cells : c = a[n]
      BY <2>1
    <3>2. \A r \in Registers : OneWrite(c, w)[r] = IF w.reg = r THEN NewValue(c, w) ELSE c[r]
      <4>1. w \in WriteSet
        BY <2>1
      <4> QED BY <4>1, OneWriteAt
    <3> QED BY <3>1, <3>2
  <2>3. ASSUME NEW i \in 1..m, ws[i].reg \in Registers PROVE PlacedIn(a[m], ws[i])
    <3>1. CASE i = m
      <4>1. a[m][w.reg] = NewValue(a[n], w) /\ ws[i] = w
        BY <2>2, <2>3, <3>1
      <4> QED BY <4>1 DEF PlacedIn, NewValue
    <3>2. CASE i # m
      <4>1. i \in 1..n /\ i \in 1..N
        BY <2>1, <3>2
      <4> PICK v : v = ws[i]
        OBVIOUS
      <4>2. PlacedIn(a[n], v) /\ v.reg \in Registers
        BY <2>3, <4>1
      <4>3. CASE w.reg = v.reg
        <5>1. a[m][v.reg] = NewValue(a[n], w)
          BY <2>2, <4>2, <4>3
        <5>2. w.put \cap NineBits \subseteq Cleared(w) /\ Cleared(v) \cap Cleared(w) = {}
          BY <2>1, <3>2, <4>1, <4>2, <4>3
        <5>3. \A b \in NineBits \ v.keep : b \in a[m][v.reg] <=> b \in a[n][v.reg]
          BY <4>3, <5>1, <5>2 DEF NewValue, Cleared
        <5> QED BY <4>2, <5>3 DEF PlacedIn
      <4>4. CASE w.reg # v.reg
        <5>1. a[m][v.reg] = a[n][v.reg]
          BY <2>2, <4>2, <4>4
        <5> QED BY <4>2, <5>1 DEF PlacedIn
      <4> QED BY <4>3, <4>4
    <3> QED BY <3>1, <3>2
  <2> QED BY <2>1, <2>3
<1> HIDE DEF S
<1>4. 0..N \subseteq S
  BY <1>1, <1>2, <1>3, UpTo
<1>5. N \in S
  BY <1>1, <1>4
<1> QED BY <1>5 DEF S

\* After the start of the board the microphone of the board is set.
LEMMA MicInit == ASSUME Init, part = "paths" PROVE MicInv
<1>1. /\ mic = "MIC_BOARD" /\ session = None /\ decoder = "off" /\ crossed = {} /\ part # "api"
      /\ \A t \in Tasks : hand[t] = Nothing /\ todo[t] = <<>>
      /\ DOMAIN i2s = {Clock, RxChannel} /\ i2s[RxChannel] = {4}
      /\ cache = After(ResetCache, BoardInit)
  BY DEF Init, Clock, RxChannel
<1>2. TaskInv
  BY <1>1, CodecInit DEF CodecInv, ApiInv
<1> DEFINE before == I2sInit(3) \o EarphoneSpeaker(30)
           ws == SetChannel("MIC_BOARD")
           mid == After(ResetCache, before)
<1>5. BoardInit = before \o ws /\ ResetCache \in Cells
  BY PowerOnFits DEF BoardInit, CleanCells
<1>6. BoardInit \in Seq(WriteSet) /\ ws \in Seq(WriteSet) /\ before \in Seq(WriteSet)
  BY BoardLeaves, ChannelLeaves, SoundLeaves DEF Leaves
<1> HIDE DEF before, ws
<1>7. cache = After(mid, ws) /\ mid \in Cells
  BY <1>1, <1>5, <1>6, AfterJoined, AfterCells
<1>8. BoardKept(cache)
  <2>1. /\ 0 \in cache[2] /\ 1 \in cache[2] /\ 7 \in cache[2] /\ 8 \in cache[2] /\ 8 \in cache[44]
        /\ Spares(BoardInit, 2, 6)
    <3>1. \A p \in BoardBits : p # <<2, 6>> => SetsBit(BoardInit, p[1], p[2])
      BY BoardLeaves DEF Leaves
    <3>2. /\ SetsBit(BoardInit, 2, 0) /\ SetsBit(BoardInit, 2, 1) /\ SetsBit(BoardInit, 2, 7)
          /\ SetsBit(BoardInit, 2, 8) /\ SetsBit(BoardInit, 44, 8)
      <4>1. \A r, b : <<r, b>> \in BoardBits /\ <<r, b>> # <<2, 6>> => SetsBit(BoardInit, r, b)
        BY <3>1
      <4>2. \A b \in {0, 1, 7, 8} : <<2, b>> \in BoardBits /\ <<2, b>> # <<2, 6>>
        BY DEF BoardBits
      <4>3. <<44, 8>> \in BoardBits /\ <<44, 8>> # <<2, 6>>
        BY DEF BoardBits
      <4> QED BY <4>1, <4>2, <4>3
    <3>3. Spares(BoardInit, 2, 6)
      <4>1. \A r, b : <<r, b>> \in BoardBits /\ <<r, b>> = <<2, 6>> => Spares(BoardInit, r, b)
        BY BoardLeaves DEF Leaves
      <4>2. <<2, 6>> \in BoardBits
        BY DEF BoardBits
      <4> QED BY <4>1, <4>2
    <3> QED BY <1>1, <1>5, <3>2, <3>3 DEF SetsBit
  <2>2. 6 \notin cache[2]
    <3>1. 2 \in Registers
      BY DEF Registers
    <3>2. ResetCache[2] = {}
      BY NoBits, <3>1 DEF ResetCache, PowerOn, Registers
    <3> QED BY <1>1, <1>5, <1>6, <2>1, <3>1, <3>2, SparesAfter
  <2>3. cache[2] \subseteq NineBits
    BY <1>2 DEF TaskInv, CleanCells, Registers
  <2> QED BY <2>1, <2>2, <2>3 DEF BoardKept, NineBits
<1>9. ws = MicWrites("MIC_BOARD") /\ Len(ws) = 9
  <2>1. Len(MicWrites("MIC_BOARD")) = 9
    BY DEF MicWrites
  <2> QED BY <2>1, ChannelWrites DEF ws
<1>10. /\ ws[1].reg = RxChannel
       /\ \A i \in 2..9 : ws[i].reg \in PathRegs /\ ws[i].put \cap NineBits \subseteq Cleared(ws[i])
       /\ \A i, j \in 2..9 : i # j /\ ws[i].reg = ws[j].reg => Cleared(ws[i]) \cap Cleared(ws[j]) = {}
  BY <1>9, MicFacts DEF PathRegs
<1>11. \A i \in 1..9 : ws[i].reg \in Registers => i \in 2..9
  <2>1. \A i \in 1..9 : i = 1 \/ i \in 2..9
    OBVIOUS
  <2> QED BY <1>10, <2>1, PathRegsKnown
<1>12. \A i \in 1..9 : ws[i].reg \in Registers => PlacedIn(cache, ws[i])
  BY <1>6, <1>7, <1>9, <1>10, <1>11, AllPlaced
<1>13. \A i \in 1..9 : Placed(ws[i])
  <2> SUFFICES ASSUME NEW i \in 1..9 PROVE Placed(ws[i])
    OBVIOUS
  <2>1. CASE i = 1
    <3>1. ws[1] = I2s(RxChannel, 4)
      BY <1>9 DEF MicWrites
    <3> QED BY <1>1, <2>1, <3>1, PathRegsKnown DEF Placed, I2s
  <2>2. CASE i # 1
    <3>1. ws[i].reg \in Registers
      BY <1>10, <2>2, PathRegsKnown
    <3> QED BY <1>12, <3>1 DEF Placed, PlacedIn
  <2> QED BY <2>1, <2>2
<1>14. Routed(9)
  <2>1. todo["button"] = MicLeft(mic, 9)
    BY <1>1, MicLeftSteps DEF Tasks
  <2>2. hand["button"] = Nothing
    BY <1>1 DEF Tasks
  <2> QED BY <1>1, <1>9, <1>13, <2>1, <2>2 DEF Routed
<1>15. MicAlone
  <2>1. part = "paths" /\ "command" \in Tasks /\ {"player", "decoder"} \subseteq Tasks
    BY DEF Tasks
  <2>2. todo["command"] \in Seq(EarSet)
    <3>1. todo["command"] = <<>>
      BY <1>1, <2>1
    <3>2. <<>> \in Seq(EarSet)
      OBVIOUS
    <3> QED BY <3>1, <3>2
  <2> QED BY <1>1, <2>1, <2>2 DEF MicAlone
<1>16. 9 \in 0..9
  OBVIOUS
<1> QED BY <1>2, <1>8, <1>14, <1>15, <1>16 DEF MicInv, MicAlone, Routed

\* The property follows: once nothing is left to write, the path is the one of the microphone.
LEMMA MicHolds == ASSUME MicInv PROVE MicPath
<1> DEFINE left == mic = "MIC_JACK"
           powered == IF left THEN {2, 4} ELSE {3, 5}
<1>1. SUFFICES ASSUME todo["button"] = <<>>, lost \cap {2, 44, 47, 48} = {}
               PROVE  /\ chip[2] = {0, 1, 7, 8} \cup powered
                      /\ (IF left THEN {0, 1} ELSE {4, 5}) \cup {8} \subseteq chip[44]
                      /\ chip[47] = (IF left THEN {8} ELSE {}) /\ chip[48] = (IF left THEN {} ELSE {8})
                      /\ i2s[RxChannel] = {IF left THEN 3 ELSE 4}
  BY DEF MicPath, Idle
<1>2. TaskInv /\ crossed = {} /\ BoardKept(cache) /\ mic \in {"MIC_BOARD", "MIC_JACK"}
  BY DEF MicInv
<1> PICK n \in 0..9 : Routed(n)
  BY RoutedFound
<1>3. n = 9
  <2>1. MicLeft(mic, n) = <<>>
    BY <1>1 DEF Routed
  <2> QED BY <2>1, MicLeftSteps
<1>4. \A j \in 1..9 : Placed(MicWrites(mic)[j])
  BY <1>3 DEF Routed
<1>5. \A t \in Tasks : hand[t] = Nothing \/ hand[t].reg \in 52..55
  <2>1. "button" \in Tasks
    BY DEF Tasks
  <2>2. hand["button"] = Nothing
    BY <1>1, <1>2, <2>1, HandKnown
  <2>3. hand["command"] = Nothing \/ hand["command"].reg \in 52..55
    BY MicHands
  <2>4. \A t \in {"player", "decoder"} : hand[t] = Nothing
    BY DEF MicInv
  <2> QED BY <2>2, <2>3, <2>4 DEF Tasks
<1>6. \A r \in {2, 44, 47, 48} : r \in Registers /\ chip[r] = cache[r] \cap NineBits /\ cache[r] \subseteq NineBits
  <2> SUFFICES ASSUME NEW r \in {2, 44, 47, 48}
               PROVE  r \in Registers /\ chip[r] = cache[r] \cap NineBits /\ cache[r] \subseteq NineBits
    OBVIOUS
  <2>1. r \in Registers /\ r # 14 /\ r \notin lost /\ r \notin crossed /\ r \notin 52..55 /\ r # 99 /\ r \notin {38, 39}
    BY <1>1, <1>2 DEF Registers
  <2>2. ~Held(r)
    BY <1>5, <2>1, NothingHeld DEF Held
  <2>3. Shows(r)
    BY <1>2, <2>1, <2>2 DEF TaskInv
  <2>4. cache[r] \subseteq NineBits
    BY <1>2, <2>1 DEF TaskInv, CleanCells
  <2> QED BY <2>1, <2>3, <2>4 DEF Shows, Sent
<1>7. /\ 0 \in cache[2] /\ 1 \in cache[2] /\ 7 \in cache[2] /\ 8 \in cache[2] /\ 6 \notin cache[2]
      /\ 8 \in cache[44]
  BY <1>2 DEF BoardKept
<1>8. \A w : /\ Placed(w)
             /\ w.reg \in Registers
             => \A b \in Cleared(w) : b \in cache[w.reg] <=> b \in w.put
  BY DEF Placed, Cleared
<1> DEFINE w == MicWrites(mic)
<1>9. /\ {2} \in SUBSET NineBits /\ {3} \in SUBSET NineBits /\ {4} \in SUBSET NineBits /\ {5} \in SUBSET NineBits
      /\ {4, 5, 6} \in SUBSET NineBits /\ {0, 1, 2} \in SUBSET NineBits
      /\ {2, 44, 47, 48} \subseteq Registers
  BY DEF NineBits, Registers
<1>10. \A p : \A r \in {2, 44}, c \in SUBSET NineBits : Placed(Change(r, c, p)) => \A b \in c : b \in cache[r] <=> b \in p
  <2> SUFFICES ASSUME NEW r \in {2, 44}, NEW c \in SUBSET NineBits, NEW p, Placed(Change(r, c, p))
               PROVE  \A b \in c : b \in cache[r] <=> b \in p
    OBVIOUS
  <2> PICK v : v = Change(r, c, p)
    OBVIOUS
  <2>1. v.reg = r /\ v.put = p /\ Cleared(v) = c /\ r \in Registers
    BY <1>9, ChangeClears
  <2> QED BY <1>8, <2>1
<1>11. \A p : \A r \in {47, 48} : Placed(Put(r, p)) => \A b \in NineBits : b \in cache[r] <=> b \in p
  <2> SUFFICES ASSUME NEW r \in {47, 48}, NEW p, Placed(Put(r, p))
               PROVE  \A b \in NineBits : b \in cache[r] <=> b \in p
    OBVIOUS
  <2> PICK v : v = Put(r, p)
    OBVIOUS
  <2>1. v.reg = r /\ v.put = p /\ Cleared(v) = NineBits /\ r \in Registers
    BY <1>9, PutClears
  <2> QED BY <1>8, <2>1
<1>12. CASE mic = "MIC_BOARD"
  <2>1. /\ w[1] = I2s(RxChannel, 4) /\ w[2] = Change(2, {2}, {}) /\ w[3] = Change(2, {4}, {})
        /\ w[4] = Put(47, {}) /\ w[5] = Change(2, {3}, {3}) /\ w[6] = Change(44, {4, 5, 6}, {4, 5})
        /\ w[7] = Change(2, {5}, {5}) /\ w[8] = Put(48, {8})
    BY <1>12 DEF MicWrites
  <2> HIDE DEF w
  <2>2. /\ Placed(w[1]) /\ Placed(w[2]) /\ Placed(w[3]) /\ Placed(w[4]) /\ Placed(w[5])
        /\ Placed(w[6]) /\ Placed(w[7]) /\ Placed(w[8])
    BY <1>4 DEF w
  <2>a. 2 \in {2, 44}
    OBVIOUS
  <2>3. 2 \notin cache[2] /\ 4 \notin cache[2] /\ 3 \in cache[2] /\ 5 \in cache[2]
    <3>1. \A b \in {2} : b \in cache[2] <=> b \in {}
      <4>1. Placed(Change(2, {2}, {}))
        BY <2>1, <2>2
      <4> QED BY <1>9, <1>10, <2>a, <4>1
    <3>2. \A b \in {4} : b \in cache[2] <=> b \in {}
      <4>1. Placed(Change(2, {4}, {}))
        BY <2>1, <2>2
      <4> QED BY <1>9, <1>10, <2>a, <4>1
    <3>3. \A b \in {3} : b \in cache[2] <=> b \in {3}
      <4>1. Placed(Change(2, {3}, {3}))
        BY <2>1, <2>2
      <4> QED BY <1>9, <1>10, <2>a, <4>1
    <3>4. \A b \in {5} : b \in cache[2] <=> b \in {5}
      <4>1. Placed(Change(2, {5}, {5}))
        BY <2>1, <2>2
      <4> QED BY <1>9, <1>10, <2>a, <4>1
    <3> QED BY <3>1, <3>2, <3>3, <3>4
  <2>4. 4 \in cache[44] /\ 5 \in cache[44]
    BY <1>9, <1>10, <2>1, <2>2
  <2>5. \A b \in NineBits : b \notin cache[47] /\ (b \in cache[48] <=> b = 8)
    BY <1>11, <2>1, <2>2
  <2>6. i2s[RxChannel] = {4}
    BY <2>1, <2>2, PathRegsKnown DEF Placed, I2s
  <2>7. ~left /\ powered = {3, 5}
    BY <1>12
  <2> HIDE DEF left, powered
  <2>8. chip[2] = {0, 1, 7, 8} \cup {3, 5}
    <3>1. chip[2] = cache[2] /\ cache[2] \subseteq NineBits
      BY <1>6
    <3> QED BY <1>7, <2>3, <3>1 DEF NineBits
  <2>9. {4, 5} \cup {8} \subseteq chip[44]
    <3>1. chip[44] = cache[44] \cap NineBits
      BY <1>6
    <3> QED BY <1>7, <2>4, <3>1 DEF NineBits
  <2>10. chip[47] = {} /\ chip[48] = {8}
    <3>1. chip[47] = cache[47] /\ chip[48] = cache[48] /\ cache[47] \subseteq NineBits /\ cache[48] \subseteq NineBits
      BY <1>6
    <3>2. 8 \in NineBits
      BY DEF NineBits
    <3> QED BY <2>5, <3>1, <3>2
  <2> QED BY <2>6, <2>7, <2>8, <2>9, <2>10
<1>13. CASE mic = "MIC_JACK"
  <2>1. /\ w[1] = I2s(RxChannel, 3) /\ w[2] = Change(2, {3}, {}) /\ w[3] = Change(2, {5}, {})
        /\ w[4] = Put(48, {}) /\ w[5] = Change(2, {2}, {2}) /\ w[6] = Change(44, {0, 1, 2}, {0, 1})
        /\ w[7] = Change(2, {4}, {4}) /\ w[8] = Put(47, {8})
    BY <1>13 DEF MicWrites
  <2> HIDE DEF w
  <2>2. /\ Placed(w[1]) /\ Placed(w[2]) /\ Placed(w[3]) /\ Placed(w[4]) /\ Placed(w[5])
        /\ Placed(w[6]) /\ Placed(w[7]) /\ Placed(w[8])
    BY <1>4 DEF w
  <2>a. 2 \in {2, 44}
    OBVIOUS
  <2>3. 3 \notin cache[2] /\ 5 \notin cache[2] /\ 2 \in cache[2] /\ 4 \in cache[2]
    <3>1. \A b \in {3} : b \in cache[2] <=> b \in {}
      <4>1. Placed(Change(2, {3}, {}))
        BY <2>1, <2>2
      <4> QED BY <1>9, <1>10, <2>a, <4>1
    <3>2. \A b \in {5} : b \in cache[2] <=> b \in {}
      <4>1. Placed(Change(2, {5}, {}))
        BY <2>1, <2>2
      <4> QED BY <1>9, <1>10, <2>a, <4>1
    <3>3. \A b \in {2} : b \in cache[2] <=> b \in {2}
      <4>1. Placed(Change(2, {2}, {2}))
        BY <2>1, <2>2
      <4> QED BY <1>9, <1>10, <2>a, <4>1
    <3>4. \A b \in {4} : b \in cache[2] <=> b \in {4}
      <4>1. Placed(Change(2, {4}, {4}))
        BY <2>1, <2>2
      <4> QED BY <1>9, <1>10, <2>a, <4>1
    <3> QED BY <3>1, <3>2, <3>3, <3>4
  <2>4. 0 \in cache[44] /\ 1 \in cache[44]
    BY <1>9, <1>10, <2>1, <2>2
  <2>5. \A b \in NineBits : b \notin cache[48] /\ (b \in cache[47] <=> b = 8)
    BY <1>11, <2>1, <2>2
  <2>6. i2s[RxChannel] = {3}
    BY <2>1, <2>2, PathRegsKnown DEF Placed, I2s
  <2>7. left /\ powered = {2, 4}
    BY <1>13
  <2> HIDE DEF left, powered
  <2>8. chip[2] = {0, 1, 7, 8} \cup {2, 4}
    <3>1. chip[2] = cache[2] /\ cache[2] \subseteq NineBits
      BY <1>6
    <3> QED BY <1>7, <2>3, <3>1 DEF NineBits
  <2>9. {0, 1} \cup {8} \subseteq chip[44]
    <3>1. chip[44] = cache[44] \cap NineBits
      BY <1>6
    <3> QED BY <1>7, <2>4, <3>1 DEF NineBits
  <2>10. chip[47] = {8} /\ chip[48] = {}
    <3>1. chip[47] = cache[47] /\ chip[48] = cache[48] /\ cache[47] \subseteq NineBits /\ cache[48] \subseteq NineBits
      BY <1>6
    <3>2. 8 \in NineBits
      BY DEF NineBits
    <3> QED BY <2>5, <3>1, <3>2
  <2> QED BY <2>6, <2>7, <2>8, <2>9, <2>10
<1> QED BY <1>2, <1>12, <1>13

\* When the task of the buttons is back from jack_dect_cb(), the microphone asked for, and no other,
\* is powered, boosted, routed and received, whatever the volume command writes at the same time, and
\* what at_cmd_init() set beside it in the same registers stands.
THEOREM MicPathAlways == Spec => []MicPath
<1> DEFINE I == part = "paths" => MicInv
<1>1. Init => I
  BY MicInit
<1>2. I /\ [Next]_vars => I'
  <2> SUFFICES ASSUME I, [Next]_vars, part' = "paths" PROVE MicInv'
    OBVIOUS
  <2>1. CASE Next
    <3>1. part' = part
      BY <2>1 DEF Next, ApiSet, ApiReset, parse_Vol, jack_dect_cb, WavStart, Mp3Start, Frame, Stop,
                  DecoderExit, ReadReg, StoreReg, SendReg, SetI2s
    <3> QED BY <2>1, <3>1, MicStep
  <2>2. CASE UNCHANGED vars
    <3>1. UNCHANGED <<part, cache, chip, claims, todo, hand, i2s, lost, crossed, mic, session, decoder>>
      BY <2>2 DEF vars
    <3>2. MicInv
      BY <3>1
    <3>3. TaskInv'
      BY <3>1, <3>2, TaskRest DEF MicInv
    <3> QED BY <3>1, <3>2, <3>3 DEF MicInv, Placed, BoardKept
  <2> QED BY <2>1, <2>2
<1>3. I => MicPath
  BY MicHolds DEF MicPath
<1> HIDE DEF I
<1> QED BY <1>1, <1>2, <1>3, PTL DEF Spec

----------------------------------------------------------------------------
(* The codec's rate.                                                       *)

\* The writes of a rate, and the rates that can be set.
TableRates == {0, 1, 2, 3, 4, 5, 8}
RateBits(r) == Bits(r % 8, 1)
RegWrite(r) == [reg |-> 7, keep |-> Word \ 1..3, put |-> RateBits(r)]
ClockWrite(r) == [reg |-> Clock, keep |-> {}, put |-> {r}]

Sets(r) == 7 \notin lost => chip[7] \cap 1..3 = RateBits(r)

\* How far a task is with the writes of rate r, or done.
Setting(t, r) ==
  \/ /\ todo[t] = <<RegWrite(r), ClockWrite(r)>>
     /\ hand[t] = Nothing \/ (hand[t].reg = 7 /\ hand[t].value \cap 1..3 = RateBits(r))
  \/ todo[t] = <<ClockWrite(r)>> /\ hand[t] = Nothing /\ Sets(r)
  \/ todo[t] = <<>> /\ hand[t] = Nothing /\ Sets(r) /\ i2s[Clock] = {r}

\* A task that sets a rate, whatever the other one has done to it.
Busy(t) ==
  \/ \E r \in TableRates :
       \/ todo[t] = <<RegWrite(r), ClockWrite(r)>> /\ (hand[t] = Nothing \/ hand[t].reg = 7)
       \/ todo[t] = <<ClockWrite(r)>> /\ hand[t] = Nothing
  \/ todo[t] = <<>> /\ hand[t] = Nothing

RateTypes ==
  /\ DOMAIN chip = Registers /\ DOMAIN i2s = {Clock, RxChannel}
  /\ DOMAIN todo = Tasks /\ DOMAIN hand = Tasks /\ late \in BOOLEAN

\* Who plays: a decoder is on while an MP3 is played, and a doomed one may outlive it.
WhoPlays ==
  /\ session \in {None, <<"mp3", NoRate>>} \cup {<<"wav", r>> : r \in TableRates}
  /\ decoder \in {"off", "on", "doomed"} /\ (decoder = "on" <=> session[1] = "mp3")
  /\ decoder = "off" => Idle("decoder")
  /\ session[1] # "wav" => Idle("player")
  /\ prevRate \in TableRates \cup {NoRate, NoRate + 1}
  /\ prevRate \notin TableRates => Idle("decoder")

RateInv ==
  /\ part \in {"api", "paths", "rates"} /\ RateTypes
  /\ part # "rates" => session = None /\ decoder = "off"
  /\ part = "rates" =>
       /\ \A t \in {"command", "button"} : todo[t] = <<>> /\ hand[t] = Nothing
       /\ \A t \in {"player", "decoder"} : Busy(t)
       /\ WhoPlays
       /\ session[1] = "wav" /\ ~late => Idle("decoder") /\ Setting("player", session[2])
       /\ session[1] = "mp3" => ~late /\ (prevRate \in TableRates => Setting("decoder", prevRate))

\* The number of a rate has no bit that the field has not.
LEMMA RateBitsFit == ASSUME NEW r \in TableRates PROVE RateBits(r) \subseteq 1..3
<1> DEFINE power(b) == 2^b
<1>1. /\ power(3) = 8 /\ power(4) = 16 /\ power(5) = 32 /\ power(6) = 64 /\ power(7) = 128
      /\ power(8) = 256 /\ power(9) = 512 /\ power(10) = 1024 /\ power(11) = 2048
      /\ power(12) = 4096 /\ power(13) = 8192 /\ power(14) = 16384 /\ power(15) = 32768
      /\ power(16) = 65536 /\ power(17) = 131072 /\ power(18) = 262144 /\ power(19) = 524288
      /\ power(20) = 1048576 /\ power(21) = 2097152 /\ power(22) = 4194304 /\ power(23) = 8388608
  OBVIOUS
<1> HIDE DEF power
<1>2. \A b \in 3..23 : power(b) \in Nat /\ power(b) >= 8
  <2>1. \A b \in 3..13 : power(b) \in Nat /\ power(b) >= 8
    BY <1>1
  <2>2. \A b \in 14..23 : power(b) \in Nat /\ power(b) >= 8
    BY <1>1
  <2> QED BY <2>1, <2>2
<1>3. ASSUME NEW n \in 0..7, NEW b \in 0..23, (n \div 2^b) % 2 = 1 PROVE b + 1 \in 1..3
  <2>1. SUFFICES ASSUME b \in 3..23 PROVE FALSE
    BY <1>3
  <2> DEFINE p == power(b)
  <2>2. p \in Nat /\ p >= 8
    BY <1>2, <2>1
  <2>3. (n \div p) % 2 = 1
    BY <1>3 DEF power
  <2> HIDE DEF p
  <2>4. n \div p = 0
    BY <2>2
  <2> QED BY <2>3, <2>4
<1>4. r % 8 \in 0..7
  BY DEF TableRates
<1> QED BY <1>3, <1>4 DEF RateBits, Bits

\* The writes of a rate, one after the other.
LEMMA TwoWrites ==
  ASSUME NEW r
  PROVE  /\ Head(<<RegWrite(r), ClockWrite(r)>>) = RegWrite(r)
         /\ Tail(<<RegWrite(r), ClockWrite(r)>>) = <<ClockWrite(r)>>
         /\ Head(<<ClockWrite(r)>>) = ClockWrite(r) /\ Tail(<<ClockWrite(r)>>) = <<>>
         /\ <<RegWrite(r), ClockWrite(r)>> # <<>> /\ <<ClockWrite(r)>> # <<>>
<1> DEFINE a == RegWrite(r)
           b == ClockWrite(r)
<1> HIDE DEF a, b
<1>1. /\ Head(<<a, b>>) = a /\ Tail(<<a, b>>) = <<b>> /\ Head(<<b>>) = b /\ Tail(<<b>>) = <<>>
      /\ <<a, b>> # <<>> /\ <<b>> # <<>>
  OBVIOUS
<1> QED BY <1>1 DEF a, b

\* A task that is given two writes has them in order.
LEMMA PairJoined == ASSUME NEW a, NEW b PROVE <<a>> \o <<b>> = <<a, b>>
<1> DEFINE S == {a, b}
           c == <<a>> \o <<b>>
           d == <<a, b>>
<1>1. <<a>> \in Seq(S) /\ <<b>> \in Seq(S) /\ d \in Seq(S) /\ Len(<<a>>) = 1 /\ Len(<<b>>) = 1
  OBVIOUS
<1>2. c \in Seq(S) /\ Len(c) = 2 /\ c[1] = a /\ c[2] = b
  BY <1>1
<1>3. Len(d) = 2 /\ d[1] = a /\ d[2] = b
  OBVIOUS
<1> HIDE DEF c, d
<1>4. c = d
  BY <1>1, <1>2, <1>3, SeqEqual
<1> QED BY <1>4 DEF c, d

\* The writes of a rate: its bits of register 7, then the clock.
LEMMA RateWrites ==
  ASSUME NEW r \in TableRates
  PROVE  /\ SetSampleRates(r) = <<RegWrite(r), ClockWrite(r)>> /\ SetTxclk(r) = SetSampleRates(r)
         /\ RegWrite(r).reg = 7 /\ 7 \in Registers
         /\ ClockWrite(r).reg = Clock /\ Clock \notin Registers /\ ClockWrite(r).put = {r}
         /\ \A regs : NewValue(regs, RegWrite(r)) \cap 1..3 = RateBits(r)
<1>1. SetSampleRates(r) = <<RegWrite(r), ClockWrite(r)>>
  <2> DEFINE a == RegWrite(r)
             b == ClockWrite(r)
  <2>1. SetSampleRates(r) = <<a>> \o <<b>>
    BY DEF SetSampleRates, SampleRate, Change, I2s, RateBits, RegWrite, ClockWrite
  <2> HIDE DEF a, b
  <2> QED BY <2>1, PairJoined DEF a, b
<1>2. SetTxclk(r) = SetSampleRates(r)
  BY DEF SetTxclk, TableRates, NoRate
<1>3. /\ RegWrite(r).reg = 7 /\ RegWrite(r).keep = Word \ 1..3 /\ RegWrite(r).put = RateBits(r)
      /\ ClockWrite(r).reg = Clock /\ ClockWrite(r).put = {r}
  BY DEF RegWrite, ClockWrite
<1>4. \A regs : NewValue(regs, RegWrite(r)) \cap 1..3 = RateBits(r)
  BY <1>3, RateBitsFit DEF NewValue
<1> QED BY <1>1, <1>2, <1>3, <1>4 DEF Registers, Clock

Acts(t) == ReadReg(t) \/ StoreReg(t) \/ SendReg(t) \/ SetI2s(t)

\* A task without writes makes no step of its own.
LEMMA IdleRests == ASSUME NEW t \in Tasks, todo[t] = <<>>, hand[t] = Nothing PROVE ~Acts(t)
BY DEF Acts, ReadReg, StoreReg, SendReg, SetI2s, Idle, Nothing

\* A step of a task leaves what the others do and what is played alone.
LEMMA ActsLocally ==
  ASSUME NEW t \in Tasks, Acts(t), RateTypes
  PROVE  /\ RateTypes' /\ UNCHANGED <<part, session, decoder, prevRate, late>>
         /\ \A u \in Tasks \ {t} : todo'[u] = todo[u] /\ hand'[u] = hand[u]
BY DEF Acts, ReadReg, StoreReg, SendReg, SetI2s, RateTypes

\* What a task does next.
LEMMA RegSteps ==
  ASSUME NEW t \in Tasks, NEW r \in TableRates, Acts(t), RateTypes,
         todo[t] = <<RegWrite(r), ClockWrite(r)>>, hand[t] = Nothing \/ hand[t].reg = 7
  PROVE  \/ /\ todo' = todo /\ hand'[t].reg = 7
            /\ \/ hand[t] = Nothing /\ hand'[t].value \cap 1..3 = RateBits(r)
               \/ hand[t] # Nothing /\ hand'[t].value = hand[t].value
         \/ /\ todo'[t] = <<ClockWrite(r)>> /\ hand[t] # Nothing /\ hand'[t] = Nothing
            /\ \/ chip'[7] = Sent(hand[t].value)
               \/ 7 \in lost'
<1>1. DOMAIN chip = Registers /\ DOMAIN todo = Tasks /\ DOMAIN hand = Tasks /\ 7 \in Registers
  BY DEF RateTypes, Registers
<1>2. Head(todo[t]) = RegWrite(r) /\ Tail(todo[t]) = <<ClockWrite(r)>> /\ Head(todo[t]).reg = 7
  BY TwoWrites, RateWrites
<1>3. CASE ReadReg(t)
  <2> DEFINE v == NewValue(cache, RegWrite(r))
  <2>1. /\ todo' = todo /\ hand[t] = Nothing
        /\ hand'[t] = [reg |-> 7, value |-> v, stored |-> FALSE]
    BY <1>1, <1>2, <1>3 DEF ReadReg
  <2>2. v \cap 1..3 = RateBits(r)
    BY RateWrites
  <2> HIDE DEF v
  <2> QED BY <2>1, <2>2
<1>4. CASE StoreReg(t)
  <2>1. todo' = todo /\ hand[t] # Nothing /\ hand[t].reg = 7 /\ hand'[t] = [hand[t] EXCEPT !.stored = TRUE]
    BY <1>1, <1>4 DEF StoreReg
  <2>2. hand'[t].reg = hand[t].reg /\ hand'[t].value = hand[t].value
    BY <2>1
  <2> QED BY <2>1, <2>2
<1>5. CASE SendReg(t)
  <2>1. hand[t] # Nothing /\ hand[t].reg = 7
    BY <1>5 DEF SendReg, Nothing
  <2>2. todo'[t] = <<ClockWrite(r)>> /\ hand'[t] = Nothing
    BY <1>1, <1>2, <1>5 DEF SendReg
  <2>3. chip'[7] = Sent(hand[t].value) \/ 7 \in lost'
    BY <1>1, <1>5, <2>1 DEF SendReg
  <2> QED BY <2>1, <2>2, <2>3
<1>6. CASE SetI2s(t)
  BY <1>1, <1>2, <1>6 DEF SetI2s
<1> QED BY <1>3, <1>4, <1>5, <1>6 DEF Acts

\* With the clock left to set, the next step sets it.
LEMMA ClockSteps ==
  ASSUME NEW t \in Tasks, NEW r \in TableRates, Acts(t), RateTypes,
         todo[t] = <<ClockWrite(r)>>, hand[t] = Nothing
  PROVE  todo'[t] = <<>> /\ hand'[t] = Nothing /\ i2s'[Clock] = {r} /\ chip' = chip /\ lost' = lost
<1>1. Head(todo[t]) = ClockWrite(r) /\ Tail(todo[t]) = <<>> /\ Head(todo[t]).reg = Clock
      /\ Head(todo[t]).put = {r} /\ Clock \notin Registers
  BY TwoWrites, RateWrites
<1>2. SetI2s(t)
  BY <1>1 DEF Acts, ReadReg, StoreReg, SendReg, Nothing
<1> QED BY <1>1, <1>2 DEF SetI2s, RateTypes

\* A task that sets a rate goes on, or is done.
LEMMA BusyStep ==
  ASSUME NEW t \in Tasks, Acts(t), RateTypes, Busy(t) PROVE Busy(t)'
<1>1. CASE todo[t] = <<>> /\ hand[t] = Nothing
  BY <1>1, IdleRests
<1>2. ASSUME NEW r \in TableRates, todo[t] = <<RegWrite(r), ClockWrite(r)>>,
             hand[t] = Nothing \/ hand[t].reg = 7
      PROVE  Busy(t)'
  BY <1>2, RegSteps DEF Busy
<1>3. ASSUME NEW r \in TableRates, todo[t] = <<ClockWrite(r)>>, hand[t] = Nothing
      PROVE  Busy(t)'
  BY <1>3, ClockSteps DEF Busy
<1> QED BY <1>1, <1>2, <1>3 DEF Busy

\* A task that nobody disturbs gets on with its rate.
LEMMA SettingStep ==
  ASSUME NEW t \in Tasks, NEW r \in TableRates, Acts(t), RateTypes, Setting(t, r)
  PROVE  Setting(t, r)'
<1>1. CASE todo[t] = <<>> /\ hand[t] = Nothing
  BY <1>1, IdleRests
<1>2. CASE /\ todo[t] = <<RegWrite(r), ClockWrite(r)>>
           /\ hand[t] = Nothing \/ (hand[t].reg = 7 /\ hand[t].value \cap 1..3 = RateBits(r))
  <2>1. CASE todo' = todo /\ hand'[t].reg = 7 /\ hand'[t].value \cap 1..3 = RateBits(r)
    BY <1>2, <2>1 DEF Setting, RateBits
  <2>2. CASE todo'[t] = <<ClockWrite(r)>> /\ hand'[t] = Nothing /\ hand[t] # Nothing
             /\ (chip'[7] = Sent(hand[t].value) \/ 7 \in lost')
    <3>1. 7 \notin lost' => chip'[7] \cap 1..3 = RateBits(r)
      BY <1>2, <2>2 DEF Sent, NineBits
    <3> QED BY <2>2, <3>1 DEF Setting, Sets, RateBits
  <2> QED BY <1>2, <2>1, <2>2, RegSteps
<1>3. CASE todo[t] = <<ClockWrite(r)>> /\ hand[t] = Nothing /\ Sets(r)
  BY <1>3, ClockSteps DEF Setting, Sets, RateBits
<1> QED BY <1>1, <1>2, <1>3 DEF Setting

\* Whichever task takes a step towards the chip.
LEMMA RateActs == ASSUME RateInv, NEW t \in Tasks, Acts(t) PROVE RateInv'
<1>1. /\ RateTypes' /\ UNCHANGED <<part, session, decoder, prevRate, late>>
      /\ \A u \in Tasks \ {t} : todo'[u] = todo[u] /\ hand'[u] = hand[u]
  BY ActsLocally DEF RateInv
<1>2. SUFFICES ASSUME part = "rates"
               PROVE  /\ \A u \in {"command", "button"} : todo'[u] = <<>> /\ hand'[u] = Nothing
                      /\ \A u \in {"player", "decoder"} : Busy(u)'
                      /\ WhoPlays'
                      /\ session[1] = "wav" /\ ~late => Idle("decoder")' /\ Setting("player", session[2])'
                      /\ session[1] = "mp3" =>
                           ~late /\ (prevRate \in TableRates => Setting("decoder", prevRate)')
  BY <1>1 DEF RateInv
<1>3. t \in {"player", "decoder"}
  BY <1>2, IdleRests DEF RateInv, Tasks
<1>4. ASSUME NEW u \in Tasks \ {t}, todo[u] = <<>>, hand[u] = Nothing
      PROVE  todo'[u] = <<>> /\ hand'[u] = Nothing
  BY <1>1, <1>4
<1>5. \A u \in {"command", "button"} : todo'[u] = <<>> /\ hand'[u] = Nothing
  BY <1>2, <1>3, <1>4 DEF RateInv, Tasks
<1>6. \A u \in {"player", "decoder"} : Busy(u)'
  <2> SUFFICES ASSUME NEW u \in {"player", "decoder"} PROVE Busy(u)'
    OBVIOUS
  <2>1. Busy(u) /\ u \in Tasks
    BY <1>2 DEF RateInv, Tasks
  <2>2. CASE u = t
    BY <2>1, <2>2, BusyStep DEF RateInv
  <2>3. CASE u # t
    BY <1>1, <2>1, <2>3 DEF Busy
  <2> QED BY <2>2, <2>3
<1>7. ASSUME NEW u \in {"player", "decoder"}, Idle(u) PROVE t # u /\ Idle(u)'
  <2>1. hand[u] = Nothing /\ todo[u] = <<>> /\ u \in Tasks
    BY <1>2, <1>7, TwoWrites DEF RateInv, Busy, Idle, Tasks
  <2>2. t # u
    BY <2>1, IdleRests
  <2> QED BY <1>4, <2>1, <2>2 DEF Idle
<1>8. WhoPlays'
  BY <1>1, <1>2, <1>7 DEF RateInv, WhoPlays
<1>9. session[1] = "wav" /\ ~late => Idle("decoder")' /\ Setting("player", session[2])'
  <2> SUFFICES ASSUME session[1] = "wav", ~late PROVE Idle("decoder")' /\ Setting("player", session[2])'
    OBVIOUS
  <2>1. Idle("decoder") /\ Setting("player", session[2]) /\ session[2] \in TableRates
    BY <1>2 DEF RateInv, WhoPlays, None
  <2>2. t = "player" /\ Idle("decoder")'
    BY <1>3, <1>7, <2>1
  <2> PICK r \in TableRates : r = session[2] /\ r = session'[2]
    BY <1>1, <2>1
  <2>3. Setting("player", r)'
    BY <2>1, <2>2, SettingStep DEF RateInv
  <2> QED BY <2>2, <2>3 DEF Setting, Sets, RateBits
<1>10. session[1] = "mp3" => ~late /\ (prevRate \in TableRates => Setting("decoder", prevRate)')
  <2> SUFFICES ASSUME session[1] = "mp3"
               PROVE  ~late /\ (prevRate \in TableRates => Setting("decoder", prevRate)')
    OBVIOUS
  <2>1. ~late /\ (prevRate \in TableRates => Setting("decoder", prevRate)) /\ Idle("player")
    BY <1>2 DEF RateInv, WhoPlays
  <2>2. t = "decoder"
    BY <1>3, <1>7, <2>1
  <2> SUFFICES ASSUME NEW r \in TableRates, r = prevRate, r = prevRate'
               PROVE  Setting("decoder", prevRate)'
    BY <1>1, <2>1
  <2>3. Setting("decoder", r)'
    BY <2>1, <2>2, SettingStep DEF RateInv
  <2> QED BY <2>3 DEF Setting, Sets, RateBits
<1> QED BY <1>5, <1>6, <1>8, <1>9, <1>10

\* The rates are set on the board at work only; its other parts leave who plays alone.
LEMMA RateElsewhere ==
  ASSUME RateInv, ApiSet \/ ApiReset \/ parse_Vol \/ jack_dect_cb PROVE RateInv'
<1>1. /\ part \in {"api", "paths"} /\ UNCHANGED <<part, session, decoder, hand, i2s, late>>
      /\ DOMAIN todo' = DOMAIN todo
  BY DEF ApiSet, ApiReset, parse_Vol, jack_dect_cb, Give
<1>2. DOMAIN chip' = Registers
  BY DEF ApiSet, ApiReset, parse_Vol, jack_dect_cb, SentAfter, PowerOn, RateInv, RateTypes
<1> QED BY <1>1, <1>2 DEF RateInv, RateTypes

\* Nothing happens.
LEMMA RateUnchanged == ASSUME RateInv, UNCHANGED vars PROVE RateInv'
<1>1. ASSUME NEW t, NEW r, Setting(t, r) PROVE Setting(t, r)'
  BY <1>1 DEF Setting, Sets, vars, RateBits
<1>2. ASSUME NEW t, Busy(t) PROVE Busy(t)'
  BY <1>2 DEF Busy, vars
<1>3. UNCHANGED <<part, chip, i2s, todo, hand, session, decoder, prevRate, late>>
  BY DEF vars
<1>4. part = "rates" => (\A t \in {"player", "decoder"} : Busy(t)')
  BY <1>2 DEF RateInv
<1>5. ASSUME session[1] = "wav", ~late, part = "rates" PROVE Setting("player", session[2])'
  <2> PICK r \in TableRates : r = session[2] /\ r = session'[2]
    BY <1>3, <1>5 DEF RateInv, WhoPlays, None
  <2>1. Setting("player", r)'
    BY <1>1, <1>5 DEF RateInv
  <2> QED BY <2>1 DEF Setting, Sets, RateBits
<1>6. ASSUME session[1] = "mp3", prevRate \in TableRates, part = "rates"
      PROVE  Setting("decoder", prevRate)'
  <2> PICK r \in TableRates : r = prevRate /\ r = prevRate'
    BY <1>3, <1>6
  <2>1. Setting("decoder", r)'
    BY <1>1, <1>6 DEF RateInv
  <2> QED BY <2>1 DEF Setting, Sets, RateBits
<1>7. WhoPlays => WhoPlays'
  BY <1>3 DEF WhoPlays, Idle
<1>8. RateTypes'
  BY <1>3 DEF RateInv, RateTypes
<1> QED BY <1>3, <1>4, <1>5, <1>6, <1>7, <1>8 DEF RateInv, Idle

\* The sessions are told apart by their first part.
LEMMA SessionsKnown ==
  /\ None[1] = "none" /\ <<"mp3", NoRate>>[1] = "mp3"
  /\ \A r : <<"wav", r>>[1] = "wav" /\ <<"wav", r>>[2] = r
BY DEF None

\* A task that was given the writes of a rate has them all before it.
LEMMA RateGiven ==
  ASSUME RateTypes, NEW t \in Tasks, NEW r \in TableRates, todo[t] = <<>>, hand[t] = Nothing,
         hand' = hand, Give(t, SetSampleRates(r))
  PROVE  Setting(t, r)' /\ Busy(t)' /\ \A u \in Tasks \ {t} : todo'[u] = todo[u]
<1> DEFINE two == <<RegWrite(r), ClockWrite(r)>>
<1>1. SetSampleRates(r) = two
  BY RateWrites
<1>2. <<>> \o two = two
  <2>1. two \in Seq({RegWrite(r), ClockWrite(r)})
    OBVIOUS
  <2> HIDE DEF two
  <2> QED BY <2>1, ConcatEmptySeq
<1> HIDE DEF two
<1>3. todo'[t] = two /\ hand'[t] = Nothing /\ \A u \in Tasks \ {t} : todo'[u] = todo[u]
  BY <1>1, <1>2 DEF Give, RateTypes
<1>4. todo'[t] = <<RegWrite(r), ClockWrite(r)>>
  BY <1>3 DEF two
<1> QED BY <1>3, <1>4 DEF Setting, Busy

\* A WAV file starts.
LEMMA RateWav == ASSUME RateInv, WavStart PROVE RateInv'
<1>1. /\ part = "rates" /\ session = None /\ WhoPlays /\ RateTypes /\ todo["player"] = <<>>
      /\ hand["player"] = Nothing /\ Busy("decoder") /\ Busy("player")
  BY TwoWrites DEF WavStart, RateInv, Idle, Busy
<1>2. UNCHANGED <<part, chip, i2s, hand, decoder, prevRate, lost>> /\ late' = ~Idle("decoder")
  BY DEF WavStart
<1>3. PICK r \in TableRates : session' = <<"wav", r>> /\ Give("player", SetSampleRates(r))
  BY CodecAssumption DEF WavStart, TableRates
<1>4. /\ Setting("player", r)' /\ Busy("player")'
      /\ \A u \in Tasks \ {"player"} : todo'[u] = todo[u]
  BY <1>1, <1>2, <1>3, RateGiven DEF Tasks
<1>5. todo'["decoder"] = todo["decoder"] /\ todo'["command"] = todo["command"] /\ todo'["button"] = todo["button"]
  BY <1>4 DEF Tasks
<1>6. Busy("decoder")'
  BY <1>1, <1>2, <1>5 DEF Busy
<1>7. RateTypes'
  BY <1>1, <1>2, <1>3 DEF RateTypes, Give, WavStart
<1>8. session[1] = "none" /\ session'[1] = "wav" /\ session'[2] = r
  BY <1>1, <1>3, SessionsKnown
<1>9. WhoPlays'
  BY <1>1, <1>2, <1>3, <1>5, <1>8 DEF WhoPlays, Idle
<1>10. Setting("player", session[2])'
  BY <1>4, <1>8 DEF Setting, Sets, RateBits
<1> QED BY <1>1, <1>2, <1>4, <1>5, <1>6, <1>7, <1>8, <1>9, <1>10 DEF RateInv, Idle

\* An MP3 starts, with no rate yet.
LEMMA RateMp3 == ASSUME RateInv, Mp3Start PROVE RateInv'
<1>1. /\ part = "rates" /\ WhoPlays /\ RateTypes /\ session = None /\ decoder = "off" /\ Idle("decoder")
      /\ Busy("decoder") /\ Busy("player") /\ Idle("player")
  BY SessionsKnown DEF Mp3Start, RateInv, WhoPlays
<1>2. /\ UNCHANGED <<part, chip, i2s, hand, todo, lost>> /\ session' = <<"mp3", NoRate>> /\ decoder' = "on"
      /\ prevRate' = NoRate /\ late' = FALSE /\ session'[1] = "mp3"
  BY SessionsKnown DEF Mp3Start
<1>3. Busy("decoder")' /\ Busy("player")' /\ RateTypes' /\ Idle("decoder")' /\ Idle("player")'
  BY <1>1, <1>2 DEF Busy, RateTypes, Idle
<1>4. NoRate \notin TableRates
  BY DEF NoRate, TableRates
<1>5. WhoPlays'
  BY <1>2, <1>3 DEF WhoPlays
<1> QED BY <1>1, <1>2, <1>3, <1>4, <1>5 DEF RateInv

\* A frame of the MP3 is decoded, which may bring another rate.
LEMMA RateFrame == ASSUME RateInv, Frame PROVE RateInv'
<1>1. /\ part = "rates" /\ WhoPlays /\ RateTypes /\ decoder \in {"on", "doomed"}
      /\ todo["decoder"] = <<>> /\ hand["decoder"] = Nothing /\ Busy("player")
  BY TwoWrites DEF Frame, RateInv, Idle, Busy
<1>2. UNCHANGED <<part, chip, i2s, hand, session, decoder, lost>>
  BY DEF Frame
<1>3. PICK rate \in Rates \cup {NoRate + 1} :
        /\ prevRate' = rate /\ Give("decoder", SetTxclk(rate))
        /\ late' = (late \/ (rate < NoRate /\ session[1] = "wav"))
  BY DEF Frame
<1>4. RateTypes'
  BY <1>1, <1>2, <1>3 DEF RateTypes, Give
<1>5. CASE rate \in TableRates
  <2>1. Give("decoder", SetSampleRates(rate)) /\ rate < NoRate
    BY <1>3, <1>5, RateWrites DEF TableRates, NoRate
  <2>2. /\ Setting("decoder", rate)' /\ Busy("decoder")'
        /\ \A u \in Tasks \ {"decoder"} : todo'[u] = todo[u]
    BY <1>1, <1>2, <1>5, <2>1, RateGiven DEF Tasks
  <2>3. todo'["player"] = todo["player"] /\ todo'["command"] = todo["command"] /\ todo'["button"] = todo["button"]
    BY <2>2 DEF Tasks
  <2>4. Busy("player")'
    BY <1>1, <1>2, <2>3 DEF Busy
  <2>5. WhoPlays'
    BY <1>1, <1>2, <1>3, <1>5, <2>3 DEF WhoPlays, Idle
  <2>6. Setting("decoder", prevRate)'
    BY <1>3, <2>2 DEF Setting, Sets, RateBits
  <2>7. session'[1] = "wav" => late'
    BY <1>2, <1>3, <2>1
  <2>8. session'[1] = "mp3" => ~late'
    BY <1>1, <1>2, <1>3 DEF RateInv
  <2>9. \A t \in {"command", "button"} : todo'[t] = <<>> /\ hand'[t] = Nothing
    BY <1>1, <1>2, <2>3 DEF RateInv
  <2> QED BY <1>1, <1>2, <1>4, <2>2, <2>4, <2>5, <2>6, <2>7, <2>8, <2>9 DEF RateInv
<1>6. CASE rate \notin TableRates
  <2>1. rate = NoRate + 1 /\ ~(rate < NoRate) /\ SetTxclk(rate) = <<>>
    BY <1>3, <1>6, CodecAssumption DEF TableRates, SetTxclk, NoRate
  <2>2. \A t \in Tasks : todo'[t] = todo[t]
    <3>1. todo' = [todo EXCEPT !["decoder"] = @ \o <<>>]
      BY <1>3, <2>1 DEF Give
    <3>2. <<>> \o <<>> = <<>>
      BY ConcatEmptySeq, <<>> \in Seq({})
    <3> QED BY <1>1, <3>1, <3>2 DEF RateTypes
  <2>3. late' = late /\ prevRate' \notin TableRates
    BY <1>3, <1>6, <2>1 DEF RateInv, RateTypes
  <2>4. Busy("player")' /\ Busy("decoder")'
    BY <1>1, <1>2, <2>2 DEF Busy, Tasks
  <2>5. WhoPlays'
    BY <1>1, <1>2, <1>3, <2>1, <2>2 DEF WhoPlays, Idle, Tasks
  <2>6. session[1] = "wav" /\ ~late => Setting("player", session[2])'
    BY <1>1, <1>2, <2>2 DEF Tasks, RateInv, Setting, Sets, RateBits
  <2> QED BY <1>1, <1>2, <1>4, <2>2, <2>3, <2>4, <2>5, <2>6 DEF RateInv, Idle, Tasks
<1> QED BY <1>5, <1>6

\* The player stops, or the decoder is gone.
LEMMA RateStop == ASSUME RateInv, Stop \/ DecoderExit PROVE RateInv'
<1>1. UNCHANGED <<part, chip, i2s, hand, todo, lost, prevRate, late>> /\ part = "rates" /\ WhoPlays /\ RateTypes
  BY DEF Stop, DecoderExit, RateInv
<1>2. Busy("player")' /\ Busy("decoder")' /\ RateTypes'
  BY <1>1 DEF RateInv, Busy, RateTypes
<1>3. CASE Stop
  <2>1. session' = None /\ session'[1] = "none" /\ Idle("player")
        /\ decoder' = IF decoder = "on" THEN "doomed" ELSE decoder
    BY <1>3, SessionsKnown DEF Stop
  <2>2. WhoPlays'
    BY <1>1, <2>1 DEF WhoPlays, Idle
  <2> QED BY <1>1, <1>2, <2>1, <2>2 DEF RateInv
<1>4. CASE DecoderExit
  <2>1. session' = session /\ decoder' = "off" /\ decoder = "doomed" /\ Idle("decoder") /\ session[1] # "mp3"
    BY <1>1, <1>4 DEF DecoderExit, WhoPlays
  <2>2. WhoPlays'
    BY <1>1, <2>1 DEF WhoPlays, Idle
  <2>3. session[1] = "wav" /\ ~late => Setting("player", session[2])'
    BY <1>1, <2>1 DEF RateInv, Setting, Sets, RateBits
  <2> QED BY <1>1, <1>2, <2>1, <2>2, <2>3 DEF RateInv, Idle
<1> QED BY <1>3, <1>4

\* The header is looked up in two tables without repetitions.
LEMMA HeaderRead ==
  ASSUME NEW p \in [channel : {Stereo, Mono}, rate : TableRates, wlen : 0..3], NEW before
  PROVE  ReadHeader(HeaderOf(p), before) = [ok |-> TRUE, params |-> p]
<1> DEFINE h == HeaderOf(p)
           rates == {i \in 0..8 : SAMPLE_RATE_CFG[i + 1] = h.rate}
           lengths == {i \in 0..3 : WORD_LEN_CFG[i + 1] = h.bits}
<1>1. p.channel \in {Stereo, Mono} /\ p.rate \in TableRates /\ p.wlen \in 0..3
      /\ p = [channel |-> p.channel, rate |-> p.rate, wlen |-> p.wlen]
  OBVIOUS
<1>2. /\ h.channels = (IF p.channel = Stereo THEN 2 ELSE 1)
      /\ h.rate = SAMPLE_RATE_CFG[p.rate + 1] /\ h.bits = WORD_LEN_CFG[p.wlen + 1]
  BY DEF HeaderOf
<1> HIDE DEF h
<1>3. rates = {p.rate}
  BY <1>1, <1>2 DEF TableRates, SAMPLE_RATE_CFG
<1>4. lengths = {p.wlen}
  BY <1>1, <1>2 DEF WORD_LEN_CFG
<1>5. (IF h.channels > 1 THEN Stereo ELSE Mono) = p.channel
  BY <1>1, <1>2 DEF Stereo, Mono
<1>6. (CHOOSE i \in rates : \A j \in rates : i <= j) = p.rate
  BY <1>1, <1>3 DEF TableRates
<1>7. (CHOOSE i \in lengths : TRUE) = p.wlen
  BY <1>4
<1> HIDE DEF rates, lengths
<1>8. ReadHeader(h, before) =
        [ok |-> TRUE, params |-> [channel |-> p.channel, rate |-> p.rate, wlen |-> p.wlen]]
  BY <1>3, <1>4, <1>5, <1>6, <1>7 DEF ReadHeader, rates, lengths
<1>9. ReadHeader(h, before) = [ok |-> TRUE, params |-> p]
  BY <1>1, <1>8, Zenon
<1> QED BY <1>9 DEF h

\* What was to be shown.
LEMMA RateInvKept == ASSUME RateInv PROVE RateKept
<1>1. HeaderRoundTrip
  BY HeaderRead DEF HeaderRoundTrip, TableRates
<1>2. RateOfSession
  <2>1. SUFFICES ASSUME ~late, 7 \notin lost
                 PROVE  /\ session[1] = "wav" /\ Idle("player") =>
                             i2s[Clock] = {session[2]} /\ chip[7] \cap 1..3 = Bits(session[2] % 8, 1)
                        /\ session[1] = "mp3" /\ Idle("decoder") /\ prevRate < NoRate =>
                             i2s[Clock] = {prevRate} /\ chip[7] \cap 1..3 = Bits(prevRate % 8, 1)
    BY DEF RateOfSession
  <2>2. ASSUME NEW t, NEW r, Setting(t, r), Idle(t)
        PROVE  i2s[Clock] = {r} /\ chip[7] \cap 1..3 = Bits(r % 8, 1)
    BY <2>1, <2>2, TwoWrites DEF Setting, Sets, RateBits, Idle
  <2>3. part # "rates" => session[1] = "none"
    BY SessionsKnown DEF RateInv
  <2>4. ASSUME session[1] = "wav", Idle("player")
        PROVE  i2s[Clock] = {session[2]} /\ chip[7] \cap 1..3 = Bits(session[2] % 8, 1)
    BY <2>1, <2>2, <2>3, <2>4 DEF RateInv
  <2>5. ASSUME session[1] = "mp3", Idle("decoder"), prevRate < NoRate
        PROVE  i2s[Clock] = {prevRate} /\ chip[7] \cap 1..3 = Bits(prevRate % 8, 1)
    <3>1. prevRate \in TableRates
      BY <2>3, <2>5 DEF RateInv, WhoPlays, NoRate
    <3> QED BY <2>2, <2>3, <2>5, <3>1 DEF RateInv
  <2> QED BY <2>4, <2>5
<1> QED BY <1>1, <1>2 DEF RateKept

\* A recording and a WAV file go at their own rate and an MP3 at that of its last
\* frame, in the clock and in the codec's register, and the rate a header is given
\* is the one read back from it: for every set of rates, whatever writes fail and
\* however the decoder's steps and the player's fall between each other.
THEOREM RateKeptAlways == Spec => []RateKept
<1>1. Init => RateInv
  <2>1. SUFFICES ASSUME Init PROVE RateInv
    OBVIOUS
  <2>2. \A t \in Tasks : todo[t] = <<>> /\ hand[t] = Nothing
    BY <2>1 DEF Init
  <2>3. RateTypes
    BY <2>1 DEF Init, RateTypes, PowerOn
  <2>4. session = None /\ session[1] = "none" /\ decoder = "off" /\ prevRate = NoRate
    BY <2>1, SessionsKnown DEF Init
  <2>5. WhoPlays
    BY <2>2, <2>4 DEF WhoPlays, Idle, Tasks
  <2>6. part \in {"api", "paths", "rates"}
    BY <2>1 DEF Init
  <2> QED BY <2>2, <2>3, <2>4, <2>5, <2>6 DEF RateInv, Busy, Tasks
<1>2. RateInv /\ [Next]_vars => RateInv'
  BY RateUnchanged, RateElsewhere, RateWav, RateMp3, RateFrame, RateStop, RateActs DEF Next, Acts
<1>3. RateInv => RateKept
  BY RateInvKept
<1> QED BY <1>1, <1>2, <1>3, PTL DEF Spec

=============================================================================
