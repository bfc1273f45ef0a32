------------------------------- MODULE Wm8978 -------------------------------
(***************************************************************************)
(* The register writes of components/bsp/wm8978.c.  A register is a set of *)
(* bit numbers; a setter is the sequence of writes it makes, each of which *)
(* keeps some bits of the cached value and puts others.                    *)
(***************************************************************************)
EXTENDS Integers, Sequences, TLC

Registers == 0..57
NineBits == 0..8
Word == 0..15   \* the cache holds a uint16_t

\* The bits of a number, moved up by k places.
Bits(n, k) == {b + k : b \in {b \in 0..23 : (n \div 2^b) % 2 = 1}}

\* WM8978_REGVAL_TBL, what the chip holds after power on.
PowerOn ==
  LET table == <<0, 0, 0, 0, 80, 0, 320, 0, 0, 0, 0, 255, 255, 0, 256, 255, 255, 0, 300, 44, 44,
                 44, 44, 0, 50, 0, 0, 0, 0, 0, 0, 0, 56, 11, 50, 0, 8, 12, 147, 233, 0, 0, 0, 0, 3,
                 16, 16, 256, 256, 2, 1, 1, 57, 57, 57, 57, 1, 1>>
  IN  [r \in Registers |-> Bits(table[r + 1], 0)]
\* reg_default of WM8978_Reset(), copied over the cache: the table above but for R14.
ResetCache == [PowerOn EXCEPT ![14] = {}]

\* The bit numbers of wm8978.h.
PowerBit ==
  [BUFIOEN |-> 2, BIASEN |-> 3, MICBEN |-> 4, PLLEN |-> 5, OUT3MIXEN |-> 6, OUT4MIXEN |-> 7,
   BUFDCOPEN |-> 8, ADCENL |-> 0, ADCENR |-> 1, INPPGAENL |-> 2, INPPGAENR |-> 3, BOOSTENL |-> 4,
   BOOSTENR |-> 5, SLEEP |-> 6, LOUT1EN |-> 7, ROUT1EN |-> 8, DACENL |-> 0, DACENR |-> 1,
   LMIXEN |-> 2, RMIXEN |-> 3, ROUT2EN |-> 5, LOUT2EN |-> 6, OUT3EN |-> 7, OUT4EN |-> 8,
   LOOPBACK |-> 0, MS |-> 0, CLKSEL |-> 8, SLOWCLKEN |-> 0, GPIO1POL |-> 3, JD_EN |-> 6,
   AMUTE |-> 2, DACOSR |-> 3, SOFTMUTE |-> 6, DACVU |-> 8, ADCOSR128 |-> 3, HPFEN |-> 8,
   ADCVU |-> 8, EQ3DMODE |-> 8, EQ2BW |-> 8, EQ3BW |-> 8, EQ4BW |-> 8, LIMEN |-> 8, NFEN |-> 7,
   NFU |-> 8, NGATEN |-> 3, PLLPRESCALE |-> 4]
PathBit ==
  [BEEPEN |-> 0, INVROUT2 |-> 4, MUTERPGA2INV |-> 5, LIP2INPPGA |-> 0, LIN2INPPGA |-> 1,
   L2_2INPPGA |-> 2, RIP2INPPGA |-> 4, RIN2INPPGA |-> 5, R2_2INPPGA |-> 6, MBVSEL |-> 8,
   INPPGAMUTEL |-> 6, INPPGAZCL |-> 7, INPPGAUPDATE |-> 8, INPPGAMUTER |-> 6, INPPGAZCR |-> 7,
   PGABOOSTL |-> 8, PGABOOSTR |-> 8, VROI |-> 0, TSDEN |-> 1, SPKBOOST |-> 2, OUT3BOOST |-> 3,
   OUT4BOOST |-> 4, DACL2LMIX |-> 0, BYPL2LMIX |-> 1, AUXL2LMIX |-> 5, DACR2RMIX |-> 0,
   BYPR2RMIX |-> 1, AUXR2RMIX |-> 5, LOUT1MUTE |-> 6, HPVU |-> 8, ROUT1MUTE |-> 6,
   LOUT2MUTE |-> 6, SPKVU |-> 8, ROUT2MUTE |-> 6, LDAC2OUT3 |-> 0, LMIX2OUT3 |-> 1,
   BYPL2OUT3 |-> 2, OUT4_2OUT3 |-> 3, OUT3MUTE |-> 6, RDAC2OUT4 |-> 0, RMIX2OUT4 |-> 1,
   BYPL2OUT4 |-> 2, LDAC2OUT4 |-> 3, LMIX2OUT4 |-> 4, OUT4MUTE |-> 6]
\* Two tables as one (the @@ of TLC, spelt out for the proofs).
Beside(f, g) == [n \in DOMAIN f \cup DOMAIN g |-> IF n \in DOMAIN f THEN f[n] ELSE g[n]]
Bit == Beside(PowerBit, PathBit)

\* The sizes of the enumerations of wm8978.h that the setters take.
InterfaceEnum == [i2s_mode |-> 4, word_len |-> 4, clk |-> 2, bclk |-> 6, mclk |-> 8, vmid |-> 4,
                  rate |-> 8, gpio |-> 8, jd |-> 3, eq3d |-> 2]
GainEnum == [cutoff |-> 4, osr |-> 2, inp |-> 4, mbv |-> 2, alc_on |-> 4, alc_mode |-> 2, vroi |-> 2]

----------------------------------------------------------------------------
(* Writes.                                                                 *)

Put(reg, bits) == [reg |-> reg, keep |-> {}, put |-> bits]
Change(reg, cleared, bits) == [reg |-> reg, keep |-> Word \ cleared, put |-> bits]
\* bitWrite() of each named bit; f says which are set.
On(f) == {Bit[n] : n \in {n \in DOMAIN f : f[n]}}
Switch(reg, f) == Change(reg, {Bit[n] : n \in DOMAIN f}, On(f))
\* A value cut off at a limit.
Upto(v, limit) == IF v > limit THEN limit ELSE v

\* WM8978_readReg(), the setter's change, and WM8978_writeReg(): the value for cache and chip.
NewValue(cache, w) == (cache[w.reg] \cap w.keep) \cup w.put
Sent(value) == value \cap NineBits

----------------------------------------------------------------------------
(* The setters, WM8978_set...(), in the order of the source.               *)

Sleep(on) == <<Switch(2, [SLEEP |-> on])>>
I2SInterface(i2s_mode, word_len) ==
  <<Change(4, 3..6, Bits(i2s_mode, 3) \cup Bits(word_len, 5))>>
Loopback(on) == <<Switch(5, [LOOPBACK |-> on])>>
ClockControl(ms, clk, bclk, mclk) ==
  <<Put(6, On([MS |-> ms, CLKSEL |-> clk = 1]) \cup Bits(bclk, 2) \cup Bits(mclk, 5))>>
VMID(bias, sel) == <<Change(1, {Bit.BIASEN, 0, 1}, On([BIASEN |-> bias]) \cup Bits(sel, 0))>>
PLLEnable(on) == <<Switch(1, [PLLEN |-> on])>>
PLLClock(prescale, n, k) ==
  << Put(36, On([PLLPRESCALE |-> prescale]) \cup Bits(IF n < 5 THEN 5 ELSE Upto(n, 13), 0)),
     Put(37, Bits(k \div 2^18, 0)), Put(38, Bits(k \div 2^9, 0) \cap Word), Put(39, Bits(k, 0) \cap Word) >>
\* Seeded fault in SampleRate: the mask takes the slow clock's bit too.
SampleRateWide(rate) == <<Change(7, 0..3, Bits(rate, 1))>>
SampleRate(rate) == <<Change(7, 1..3, Bits(rate, 1))>>

ADCEnable(l, r) == <<Switch(2, [ADCENL |-> l, ADCENR |-> r])>>
ADCMode(osr) == <<Switch(14, [ADCOSR128 |-> osr = 1])>>
ADCVolume(l, r) == <<Put(15, Bits(l, 0)), Put(16, Bits(r, 0) \cup {Bit.ADCVU})>>
\* The input PGA of a side; the enumeration is OFF, SING_ENDED, DIFFERENTIAL, DOUBLE_DIFF.
InpPGAL(mode) ==
  IF mode = 0 THEN <<Switch(2, [INPPGAENL |-> FALSE])>>
  ELSE << Switch(2, [INPPGAENL |-> TRUE]),
          Switch(44, [LIP2INPPGA |-> mode >= 2, LIN2INPPGA |-> TRUE, L2_2INPPGA |-> mode = 3]) >>
InpPGAR(mode) ==
  IF mode = 0 THEN <<Switch(2, [INPPGAENR |-> FALSE])>>
  ELSE << Switch(2, [INPPGAENR |-> TRUE]),
          Switch(44, [RIP2INPPGA |-> mode >= 2, RIN2INPPGA |-> TRUE, R2_2INPPGA |-> mode = 3]) >>
\* Seeded fault in PGAGainL: the volume is not cut off.
PGAGainLAny(mute, vol) ==
  <<Put(45, Bits(vol * 8, 0) \cup On([INPPGAMUTEL |-> mute, INPPGAZCL |-> TRUE, INPPGAUPDATE |-> TRUE]))>>
PGAGainL(mute, vol) ==
  <<Put(45, Bits(Upto(vol, 63), 0) \cup
            On([INPPGAMUTEL |-> mute, INPPGAZCL |-> TRUE, INPPGAUPDATE |-> TRUE]))>>
PGAGainR(mute, vol) ==
  <<Put(46, Bits(Upto(vol, 63), 0) \cup
            On([INPPGAMUTER |-> mute, INPPGAZCR |-> TRUE, INPPGAUPDATE |-> TRUE]))>>
BoostL(on, pga, aux, l) ==
  << Switch(2, [BOOSTENL |-> on]),
     Put(47, On([PGABOOSTL |-> pga # 0]) \cup Bits(Upto(aux, 7), 0) \cup Bits(Upto(l, 7), 4)) >>
BoostR(on, pga, aux, r) ==
  << Switch(2, [BOOSTENR |-> on]),
     Put(48, On([PGABOOSTR |-> pga # 0]) \cup Bits(Upto(aux, 7), 0) \cup Bits(Upto(r, 7), 4)) >>
MicBias(on, mbvsel) == <<Switch(1, [MICBEN |-> on]), Switch(44, [MBVSEL |-> mbvsel = 1])>>
ALCGain(alc_on, min, max) ==
  <<Put(32, Bits(alc_on, 7) \cup Bits(Upto(min, 7), 0) \cup Bits(Upto(max, 7), 3))>>
ALCMode(alc_mode, lvl, hld, dcy, atk) ==
  << Put(33, Bits(Upto(lvl, 15), 0) \cup Bits(Upto(hld, 15), 4)),
     Put(34, Bits(alc_mode, 8) \cup Bits(Upto(dcy, 15), 4) \cup Bits(Upto(atk, 15), 0)) >>
ALCNoiseGate(on, th) == <<Put(35, On([NGATEN |-> on]) \cup Bits(Upto(th, 7), 0))>>
EQ3DMode(eq3d) == <<Switch(18, [EQ3DMODE |-> eq3d = 1])>>
EQ1(gain, cutoff) == <<Change(18, 0..6, Bits(Upto(gain, 31), 0) \cup Bits(cutoff, 5))>>
EQ2(gain, cutoff, wide) ==
  <<Put(19, Bits(Upto(gain, 31), 0) \cup Bits(cutoff, 5) \cup On([EQ2BW |-> wide]))>>
EQ3(gain, cutoff, wide) ==
  <<Put(20, Bits(Upto(gain, 31), 0) \cup Bits(cutoff, 5) \cup On([EQ3BW |-> wide]))>>
EQ4(gain, cutoff, wide) ==
  <<Put(21, Bits(Upto(gain, 31), 0) \cup Bits(cutoff, 5) \cup On([EQ4BW |-> wide]))>>
EQ5(gain, cutoff) == <<Put(22, Bits(Upto(gain, 31), 0) \cup Bits(cutoff, 5))>>
Depth3D(depth) == <<Put(41, Bits(Upto(depth, 15), 0))>>
NotchFilter(on, a0, a1) ==
  << Put(27, On([NFEN |-> on]) \cup Bits(a0 % 64, 0)), Put(28, Bits((a0 \div 128) % 64, 0)),
     Put(29, Bits(a1 % 64, 0)), Put(30, {Bit.NFU} \cup Bits((a1 \div 128) % 64, 0)) >>

DACEnable(l, r) == <<Switch(3, [DACENL |-> l, DACENR |-> r])>>
DACMode(osr, a_mute, soft_mute) ==
  <<Switch(10, [DACOSR |-> osr = 1, AMUTE |-> a_mute, SOFTMUTE |-> soft_mute])>>
DACVolume(l, r) == <<Put(11, Bits(l, 0)), Put(12, Bits(r, 0) \cup {Bit.DACVU})>>
DACLimiter(on, boost, lvl, dcy, atk) ==
  << Put(24, On([LIMEN |-> on]) \cup Bits(Upto(atk, 15), 0) \cup Bits(Upto(dcy, 15), 4)),
     Put(25, Bits(Upto(boost, 15), 0) \cup Bits(Upto(lvl, 7), 4)) >>
OUT1Enable(l, r) == <<Switch(2, [LOUT1EN |-> l, ROUT1EN |-> r])>>
OUT2Enable(l, r) == <<Switch(3, [LOUT2EN |-> l, ROUT2EN |-> r])>>
OUT3Enable(on) == <<Switch(3, [OUT3EN |-> on])>>
OUT4Enable(on) == <<Switch(3, [OUT4EN |-> on])>>
MIXEnable(l, r) == <<Switch(3, [LMIXEN |-> l, RMIXEN |-> r])>>
LeftMixer(dac, byp, aux, byp_vol, aux_vol) ==
  <<Put(50, On([DACL2LMIX |-> dac, BYPL2LMIX |-> byp, AUXL2LMIX |-> aux]) \cup
            Bits(Upto(byp_vol, 7), 2) \cup Bits(Upto(aux_vol, 7), 6))>>
RightMixer(dac, byp, aux, byp_vol, aux_vol) ==
  <<Put(51, On([DACR2RMIX |-> dac, BYPR2RMIX |-> byp, AUXR2RMIX |-> aux]) \cup
            Bits(Upto(byp_vol, 7), 2) \cup Bits(Upto(aux_vol, 7), 6))>>
OUT3MIXEnable(on) == <<Switch(1, [OUT3MIXEN |-> on])>>
OUT3Mixer(mute, out4, adc, mix, dac) ==
  <<Switch(56, [LDAC2OUT3 |-> dac, LMIX2OUT3 |-> mix, BYPL2OUT3 |-> adc, OUT4_2OUT3 |-> out4,
                OUT3MUTE |-> mute])>>
OUT4MIXEnable(on) == <<Switch(1, [OUT4MIXEN |-> on])>>
OUT4Mixer(mute, lmix, ldac, adc, rmix, rdac) ==
  <<Switch(57, [RDAC2OUT4 |-> rdac, RMIX2OUT4 |-> rmix, BYPL2OUT4 |-> adc, LDAC2OUT4 |-> ldac,
                LMIX2OUT4 |-> lmix, OUT4MUTE |-> mute])>>
LOUT1Volume(mute, vol) ==
  <<Put(52, On([LOUT1MUTE |-> mute, HPVU |-> TRUE]) \cup Bits(Upto(vol, 63), 0))>>
ROUT1Volume(mute, vol) ==
  <<Put(53, On([ROUT1MUTE |-> mute, HPVU |-> TRUE]) \cup Bits(Upto(vol, 63), 0))>>
SpkBoost(on) == <<Switch(49, [SPKBOOST |-> on]), Switch(1, [BUFDCOPEN |-> on])>>
OUT3Boost(on) == <<Switch(49, [OUT3BOOST |-> on])>>
OUT4Boost(on) == <<Switch(49, [OUT4BOOST |-> on])>>
InvROUT2(inv, mute) == <<Switch(43, [INVROUT2 |-> inv, MUTERPGA2INV |-> mute])>>
BeepVol(on, vol) ==
  <<Change(43, 0..3, On([BEEPEN |-> on]) \cup Bits(Upto(vol, 7), 1))>>
LOUT2Volume(mute, vol) ==
  <<Put(54, On([LOUT2MUTE |-> mute, SPKVU |-> TRUE]) \cup Bits(Upto(vol, 63), 0))>>
ROUT2Volume(mute, vol) ==
  <<Put(55, On([ROUT2MUTE |-> mute, SPKVU |-> TRUE]) \cup Bits(Upto(vol, 63), 0))>>
TSDEnable(on) == <<Switch(49, [TSDEN |-> on])>>
BufIO(on, vroi) == <<Switch(1, [BUFIOEN |-> on]), Switch(49, [VROI |-> vroi = 1])>>
SlowClkEnable(on) == <<Switch(7, [SLOWCLKEN |-> on])>>
GPIO1(sel, pol) == <<Put(8, On([GPIO1POL |-> pol]) \cup Bits(sel, 0))>>
JDSel(sel, en) == <<Put(9, On([JD_EN |-> en]) \cup Bits(sel, 4))>>
JDen(en_0, en_1) == <<Put(13, Bits(en_0 % 16, 0) \cup (Bits(en_1, 0) \cap 4..7))>>
=============================================================================
