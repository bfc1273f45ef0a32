--------------------------------- MODULE Fft --------------------------------
(***************************************************************************)
(* fft.c: plans for Fourier transforms and the transforms themselves.      *)
(*                                                                         *)
(* Every stage is linear and uses of cosines and sines only that they are  *)
(* coordinates of roots of unity.  Floats are therefore numbers modulo a   *)
(* prime with a root of unity of its own (Root), in which the transforms   *)
(* are exact: what is checked is which elements are combined with which    *)
(* factors, and nothing is said of rounding.  For the same reason it is    *)
(* enough to transform the vectors with a single 1 in them.                *)
(*                                                                         *)
(* Element k of a buffer is the pair of floats 2k and 2k + 1; strides and  *)
(* offsets are halved accordingly.  A buffer of real samples is seen the   *)
(* same way, two samples to an element.                                    *)
(***************************************************************************)
EXTENDS Integers, Sequences, FiniteSets

CONSTANTS
  Prime, Root, Order,     \* Root is a root of unity of order Order modulo Prime
  Sizes                   \* sizes asked for

\* Split radix ends at 8 and 4: below, and for real transforms below 8, the recursion of
\* split_radix_fft() has no end.
ASSUME FftAssumption ==
  /\ Prime \in Nat /\ Prime > 2 /\ Order \in Nat /\ Order % 8 = 0
  /\ \A n \in Sizes : n \in Nat /\ n >= 4 /\ n <= Order

----------------------------------------------------------------------------
\* Numbers.
power[k \in 0..Order] == IF k = 0 THEN 1 ELSE (power[k - 1] * Root) % Prime
Inverse(a) == CHOOSE b \in 1..(Prime - 1) : (a * b) % Prime = 1
Half(a) == (a * Inverse(2)) % Prime
J == power[Order \div 4]               \* a square root of -1

cosf == [k \in 0..(Order - 1) |-> Half(power[k] + power[Order - k])]
sinf == [k \in 0..(Order - 1) |->
          ((power[k] - power[Order - k]) * Inverse(2) * Inverse(J)) % Prime]
sin_pi_4 == sinf[Order \div 8]

Plus(a, b) == <<(a[1] + b[1]) % Prime, (a[2] + b[2]) % Prime>>
Minus(a, b) == <<(a[1] - b[1]) % Prime, (a[2] - b[2]) % Prime>>
Scale(s, a) == <<(s * a[1]) % Prime, (s * a[2]) % Prime>>
Conj(a) == <<a[1], (-a[2]) % Prime>>
MinusJ(a) == <<a[2], (-a[1]) % Prime>>
\* a turned back by the angle of the factor w, and forth.
Back(w, a) == <<(w[1] * a[1] + w[2] * a[2]) % Prime, (w[1] * a[2] - w[2] * a[1]) % Prime>>
Forth(w, a) == Back(Conj(w), a)

----------------------------------------------------------------------------
\* The transforms, as the contents of the output after the call.

\* fft8(), of the elements first, first + stride, ...
fft8(x, first, stride) ==
  LET a(i) == x[first + i * stride]
      b(i) == Plus(a(i), a(i + 4))
      d(i) == Minus(a(i), a(i + 4))
      b5 == Scale(sin_pi_4, Plus(d(1), MinusJ(d(1))))
      b6 == MinusJ(d(2))
      b7 == Scale(sin_pi_4, Minus(MinusJ(d(3)), d(3)))
      even0 == Plus(b(0), b(2))       even1 == Plus(b(1), b(3))
      even2 == Minus(b(0), b(2))      even3 == MinusJ(Minus(b(1), b(3)))
      odd0 == Plus(d(0), b6)          odd1 == Plus(b5, b7)
      odd2 == Minus(d(0), b6)         odd3 == MinusJ(Minus(b5, b7))
      X == <<Plus(even0, even1), Plus(odd0, odd1), Plus(even2, even3), Plus(odd2, odd3),
             Minus(even0, even1), Minus(odd0, odd1), Minus(even2, even3), Minus(odd2, odd3)>>
  IN [k \in 0..7 |-> X[k + 1]]

\* Seeded fault in fft4: the odd elements are subtracted the wrong way round.
fft4Swapped(x, first, stride) ==
  LET a(i) == x[first + i * stride]
      even == Plus(a(0), a(2))    odd == Plus(a(1), a(3))
      up == Minus(a(0), a(2))     down == MinusJ(Minus(a(3), a(1)))
      X == <<Plus(even, odd), Plus(up, down), Minus(even, odd), Minus(up, down)>>
  IN [k \in 0..3 |-> X[k + 1]]

fft4(x, first, stride) ==
  LET a(i) == x[first + i * stride]
      even == Plus(a(0), a(2))    odd == Plus(a(1), a(3))
      up == Minus(a(0), a(2))     down == MinusJ(Minus(a(1), a(3)))
      X == <<Plus(even, odd), Plus(up, down), Minus(even, odd), Minus(up, down)>>
  IN [k \in 0..3 |-> X[k + 1]]

\* Seeded fault in Factor: the second half turns twice as fast.
FactorTwice(tw, tw_stride, turns, k) == tw[IF turns = 3 THEN 2 * k * tw_stride ELSE k * tw_stride]

\* The factors of step k of a stage: the second half of it turns three times as fast.
Factor(tw, tw_stride, turns, k) == tw[turns * k * tw_stride]

\* The multiplications that the code saves for k = 0 are by Factor(..., 0) = <<1, 0>>.
RECURSIVE split_radix_fft(_, _, _, _, _, _)
split_radix_fft(x, first, n, stride, tw, tw_stride) ==
  IF n = 8 THEN fft8(x, first, stride)
  ELSE IF n = 4 THEN fft4(x, first, stride)
  ELSE
    LET quarter == n \div 4
        u == split_radix_fft(x, first, n \div 2, 2 * stride, tw, 2 * tw_stride)
        v == split_radix_fft(x, first + stride, quarter, 4 * stride, tw, 4 * tw_stride)
        w == split_radix_fft(x, first + 3 * stride, quarter, 4 * stride, tw, 4 * tw_stride)
        x1(k) == Back(Factor(tw, tw_stride, 1, k), v[k])
        x2(k) == Back(Factor(tw, tw_stride, 3, k), w[k])
        t(k) == Plus(x1(k), x2(k))
        s(k) == MinusJ(Minus(x1(k), x2(k)))
    IN [i \in 0..(n - 1) |->
         LET k == i % quarter
         IN CASE i \div quarter = 0 -> Plus(u[k], t(k))
              [] i \div quarter = 1 -> Plus(u[k + quarter], s(k))
              [] i \div quarter = 2 -> Minus(u[k], t(k))
              [] i \div quarter = 3 -> Minus(u[k + quarter], s(k))]

\* Radix two, which fft.h offers and fft() does not use.
RECURSIVE fft_primitive(_, _, _, _, _, _)
fft_primitive(x, first, n, stride, tw, tw_stride) ==
  IF n = 8 THEN fft8(x, first, stride)
  ELSE
    LET half == n \div 2
        even == fft_primitive(x, first, half, 2 * stride, tw, 2 * tw_stride)
        odd == fft_primitive(x, first + stride, half, 2 * stride, tw, 2 * tw_stride)
        turned(k) == Back(tw[k * tw_stride], odd[k])
    IN [i \in 0..(n - 1) |-> IF i < half THEN Plus(even[i], turned(i))
                             ELSE Minus(even[i - half], turned(i - half))]

\* The inverse: a forward transform with its coefficients reversed but the first, over n.
ifft_primitive(x, n, tw, tw_stride) ==
  LET X == split_radix_fft(x, 0, n, 1, tw, tw_stride)
  IN [k \in 0..(n - 1) |-> Scale(Inverse(n), X[IF k = 0 THEN 0 ELSE n - k])]

fft(x, tw, n) == split_radix_fft(x, 0, n, 1, tw, 1)
ifft(x, tw, n) == ifft_primitive(x, n, tw, 1)

\* The spectrum of n real samples from the transform of n / 2 elements: elements k and
\* n / 2 - k together, 0 with both real coefficients, n / 4 conjugated.
rfft(x, tw, n) ==
  LET m == n \div 2
      y == split_radix_fft(x, 0, m, 1, tw, 2)
      even(k) == <<Half(y[k][1] + y[m - k][1]), Half(y[k][2] - y[m - k][2])>>
      odd(k) == <<Half(y[k][2] + y[m - k][2]), Half(y[m - k][1] - y[k][1])>>
      t(k) == Back(tw[k], odd(k))
  IN [k \in 0..(m - 1) |->
       CASE k = 0 -> <<(y[0][1] + y[0][2]) % Prime, (y[0][1] - y[0][2]) % Prime>>
         [] k = n \div 4 -> Conj(y[k])
         [] k \in 1..(n \div 4 - 1) -> Plus(even(k), t(k))
         [] OTHER -> Conj(Minus(even(m - k), t(m - k)))]

\* What irfft() makes of its input before it transforms it.
unpack(x, tw, n) ==
  LET m == n \div 2
      even(k) == <<Half(x[k][1] + x[m - k][1]), Half(x[k][2] - x[m - k][2])>>
      odd(k) == Forth(tw[k], <<Half(x[k][1] - x[m - k][1]), Half(x[k][2] + x[m - k][2])>>)
  IN [k \in 0..(m - 1) |->
       CASE k = 0 -> <<Half(x[0][1] + x[0][2]), Half(x[0][1] - x[0][2])>>
         [] k = n \div 4 -> Conj(x[k])
         [] k \in 1..(n \div 4 - 1) -> Minus(even(k), MinusJ(odd(k)))
         [] OTHER -> Conj(Plus(even(m - k), MinusJ(odd(m - k))))]

irfft(x, tw, n) == ifft_primitive(unpack(x, tw, n), n \div 2, tw, 2)

----------------------------------------------------------------------------
VARIABLES
  config,       \* the plan, or NoPlan
  twiddle_factors,
  brought,      \* the buffers of the caller
  blocks,       \* memory in use: these and the parts of the plan
  lost,         \* fft_init() has returned NULL and kept what it had taken
  input, output,
  samples       \* what the caller has written into the input last
fftVars == <<config, twiddle_factors, brought, blocks, lost, input, output, samples>>

NoPlan == [size |-> 0]
Blank == <<>>
Buffers == {"input", "output"}

Elements(c) == IF c.type = "FFT_REAL" THEN 0..(c.size \div 2 - 1) ELSE 0..(c.size - 1)

FftInit ==
  /\ config = NoPlan /\ twiddle_factors = Blank
  /\ brought = {} /\ blocks = {} /\ lost = FALSE
  /\ input = Blank /\ output = Blank /\ samples = Blank

\* given are the buffers the caller brings, exhausted the first block that does not fit.
fft_init(n, type, direction, given, exhausted) ==
  /\ config = NoPlan /\ ~lost
  /\ brought' = given
  /\ IF n \in {2^k : k \in 0..15}
     THEN LET own == {"config", "twiddle_factors"} \cup (Buffers \ given)
          IN IF exhausted \in own
             THEN /\ blocks' = given \cup (own \ (IF exhausted = "input" THEN Buffers
                                                  ELSE {exhausted}))
                  /\ lost' = TRUE
                  /\ UNCHANGED <<config, twiddle_factors>>
             ELSE /\ config' = [size |-> n, type |-> type, direction |-> direction,
                                flags |-> Buffers \ given]
                  /\ twiddle_factors' = [k \in 0..(n - 1) |->
                       <<cosf[k * (Order \div n)], sinf[k * (Order \div n)]>>]
                  /\ blocks' = own \cup given
                  /\ UNCHANGED lost
     ELSE /\ blocks' = given \cup {"config"}
          /\ lost' = TRUE
          /\ UNCHANGED <<config, twiddle_factors>>
  /\ UNCHANGED <<input, output, samples>>

\* The caller writes a vector with a single 1.
Fill ==
  /\ config # NoPlan
  /\ \E k \in Elements(config), one \in {<<1, 0>>, <<0, 1>>} :
       input' = [e \in Elements(config) |-> IF e = k THEN one ELSE <<0, 0>>]
  /\ samples' = input'
  /\ output' = Blank
  /\ UNCHANGED <<config, twiddle_factors, brought, blocks, lost>>

\* irfft() destroys its input, as its comment says: the caller writes it again.
Ready == input # Blank /\ input = samples

fft_execute ==
  LET tw == twiddle_factors
      n == config.size
  IN /\ config # NoPlan /\ Ready
     /\ \/ /\ config.type = "FFT_REAL" /\ config.direction = "FFT_FORWARD"
           /\ output' = rfft(input, tw, n)
           /\ UNCHANGED input
        \/ /\ config.type = "FFT_REAL" /\ config.direction = "FFT_BACKWARD"
           /\ output' = irfft(input, tw, n)
           /\ input' = unpack(input, tw, n)
        \/ /\ config.type = "FFT_COMPLEX" /\ config.direction = "FFT_FORWARD"
           /\ output' = fft(input, tw, n)
           /\ UNCHANGED input
        \/ /\ config.type = "FFT_COMPLEX" /\ config.direction = "FFT_BACKWARD"
           /\ output' = ifft(input, tw, n)
           /\ UNCHANGED input
     /\ UNCHANGED <<config, twiddle_factors, brought, blocks, lost, samples>>

\* The other transform of fft.h, called with the parts of a plan.
CallPrimitive ==
  /\ config # NoPlan /\ Ready
  /\ config.type = "FFT_COMPLEX" /\ config.direction = "FFT_FORWARD" /\ config.size >= 8
  /\ output' = fft_primitive(input, 0, config.size, 1, twiddle_factors, 1)
  /\ UNCHANGED <<config, twiddle_factors, brought, blocks, lost, input, samples>>

\* The output of a plan outlives it only in a buffer of the caller.
fft_destroy ==
  /\ config # NoPlan
  /\ blocks' = blocks \ (config.flags \cup {"config", "twiddle_factors"})
  /\ config' = NoPlan /\ twiddle_factors' = Blank
  /\ input' = Blank /\ output' = Blank /\ samples' = Blank
  /\ UNCHANGED <<brought, lost>>

FftNext ==
  \/ \E n \in Sizes, type \in {"FFT_REAL", "FFT_COMPLEX"}, given \in SUBSET Buffers,
        direction \in {"FFT_FORWARD", "FFT_BACKWARD"}, exhausted \in Buffers \cup {"none"} :
       /\ type = "FFT_REAL" => n >= 8
       /\ fft_init(n, type, direction, given, exhausted)
  \/ Fill
  \/ fft_execute
  \/ CallPrimitive
  \/ fft_destroy

FftSpec == FftInit /\ [][FftNext]_fftVars

----------------------------------------------------------------------------
\* Reference definitions: the spectrum of n elements, the elements of n real samples, and
\* the way rfft() lays out the half of a spectrum that determines it.
Unit(e, n) == LET turn == (e % n) * (Order \div n) IN <<cosf[turn], sinf[turn]>>
Dft(x, n) ==
  [k \in 0..(n - 1) |->
    LET upTo[j \in 0..n] ==
          IF j = 0 THEN <<0, 0>> ELSE Plus(upTo[j - 1], Back(Unit((j - 1) * k, n), x[j - 1]))
    IN upTo[n]]
Samples(x, n) == [j \in 0..(n - 1) |-> <<x[j \div 2][(j % 2) + 1], 0>>]
Packed(X, n) == [k \in 0..(n \div 2 - 1) |-> IF k = 0 THEN <<X[0][1], X[n \div 2][1]>> ELSE X[k]]

\* Every transform is exact: a forward one gives the spectrum of the samples, an inverse one
\* samples that have the spectrum it was given, whatever mixture of stages of 4, 8 and
\* split radix the size leads to; real transforms hold both real coefficients in their
\* first element.  And a plan that is destroyed leaves the buffers of the caller, and no
\* memory but them, in use.
TransformExact ==
  /\ output # Blank =>
       LET n == config.size
           forward == config.direction = "FFT_FORWARD"
       IN IF config.type = "FFT_COMPLEX"
          THEN IF forward THEN output = Dft(samples, n) ELSE Dft(output, n) = samples
          ELSE IF forward THEN output = Packed(Dft(Samples(samples, n), n), n)
          ELSE Packed(Dft(Samples(output, n), n), n) = samples
  /\ config = NoPlan /\ ~lost => blocks = brought
=============================================================================
