------------------------------ MODULE Mpu6050 -------------------------------
(***************************************************************************)
(* The motion sensor: the setters and getters of components/bsp/mpu6050.c  *)
(* over components/hal/I2Cdev.c, and imu_task() of components/euler, which *)
(* is their only caller in the tree.  A register is a set of bit numbers;  *)
(* a setting is a field of one, <<register, top bit, length>>.             *)
(*                                                                         *)
(* half = "api": one caller, any setters in any order.                     *)
(* half = "imu": imu_task() from IMU_Init() on.                            *)
(***************************************************************************)
EXTENDS Integers, FiniteSets

CONSTANTS
  MaxSets,    \* setter calls of the "api" half
  Failures,   \* I2C transfers that may fail
  Averaged,   \* GYRO_CALC_COUNT, readings averaged by the calibration
  OneG        \* CONSTANTS_ONE_G, in a unit of the model's

ASSUME SensorAssumption ==
  MaxSets \in Nat /\ Failures \in Nat /\ Averaged \in Nat \ {0} /\ OneG \in Nat

VARIABLES
  half,
  regs,      \* the registers of the sensor
  settings,  \* "api": the settings made, and the value each setter was last given
  spoiled,   \* registers a setter has written without having read them
  taken,     \* setter calls and calibration readings so far
  failures,  \* transfers that have failed
  step,      \* of imu_task: the calls of MPU6050_initialize() made, or Running
  board,     \* the acceleration the board is at: x and z
  adc,       \* accADC: what the last complete transfer brought
  sum,       \* accOffsetSum
  offset,    \* accOffset, times Averaged
  caliFlag
sensorVars == <<half, regs, settings, spoiled, taken, failures, step, board, adc, sum, offset, caliFlag>>

SensorRegisters == 0..117
Byte == 0..7
ByteBits(v) == {b \in Byte : (v \div 2^b) % 2 = 1}
Field(reg, top) == <<reg, top, 1>>
Fields(reg, names) == [n \in DOMAIN names |-> Field(reg, names[n])]
Whole(reg) == <<reg, 7, 8>>
\* Two tables as one (the @@ of TLC, spelt out for the proofs).
Beside(f, g) == [n \in DOMAIN f \cup DOMAIN g |-> IF n \in DOMAIN f THEN f[n] ELSE g[n]]

----------------------------------------------------------------------------
(* The fields.                                                             *)

GyroConfig ==
  [Rate |-> Whole(25), ExternalFrameSync |-> <<26, 5, 3>>, DLPFMode |-> <<26, 2, 3>>]
GyroRange == [FullScaleGyroRange |-> <<27, 4, 2>>]
AccelConfig ==
  [FullScaleAccelRange |-> <<28, 4, 2>>, DHPFMode |-> <<28, 2, 3>>, AccelXSelfTest |-> Field(28, 7),
   AccelYSelfTest |-> Field(28, 6), AccelZSelfTest |-> Field(28, 5)]
MotionThresholds ==
  [FreefallDetectionThreshold |-> Whole(29), FreefallDetectionDuration |-> Whole(30),
   MotionDetectionThreshold |-> Whole(31), MotionDetectionDuration |-> Whole(32)]
ZeroMotionThresholds ==
  [ZeroMotionDetectionThreshold |-> Whole(33), ZeroMotionDetectionDuration |-> Whole(34)]
FifoEnable ==
  Fields(35, [TempFIFO |-> 7, XGyroFIFO |-> 6, YGyroFIFO |-> 5, ZGyroFIFO |-> 4, AccelFIFO |-> 3,
              Slave2FIFO |-> 2, Slave1FIFO |-> 1, Slave0FIFO |-> 0])
MasterControl ==
  Beside([MasterClockSpeed |-> <<36, 3, 4>>],
         Fields(36, [MultiMaster |-> 7, WaitForExternalSensor |-> 6, Slave3FIFO |-> 5,
                     SlaveReadWriteTransition |-> 4]))
\* Slave num, 0 to 3: the functions do nothing, or return 0, for another.
SlaveAddress(num) == [Address |-> Whole(37 + 3 * num), Register |-> Whole(38 + 3 * num)]
SlaveControl(num) ==
  Beside([DataLength |-> <<39 + 3 * num, 3, 4>>],
         Fields(39 + 3 * num, [Enabled |-> 7, WordByteSwap |-> 6, WriteMode |-> 5, WordGroupOffset |-> 4]))
Slave4 ==
  Beside([Slave4Address |-> Whole(49), Slave4Register |-> Whole(50), Slave4MasterDelay |-> <<52, 4, 5>>],
         Fields(52, [Slave4Enabled |-> 7, Slave4Interrupt |-> 6, Slave4WriteMode |-> 5]))
InterruptPin ==
  Fields(55, [InterruptMode |-> 7, InterruptDrive |-> 6, InterruptLatch |-> 5, InterruptLatchClear |-> 4,
              FSyncInterruptLevel |-> 3, FSyncInterrupt |-> 2])
Bypass == Fields(55, [I2CBypass |-> 1, ClockOutput |-> 0])
InterruptEnable ==
  Fields(56, [IntFreefall |-> 7, IntMotion |-> 6, IntZeroMotion |-> 5, IntFIFOBufferOverflow |-> 4,
              IntI2CMaster |-> 3, IntDataReady |-> 0])
SlaveDelay ==
  Fields(103, [ExternalShadowDelay |-> 7, Slave0Delay |-> 0, Slave1Delay |-> 1, Slave2Delay |-> 2,
               Slave3Delay |-> 3, Slave4Delay |-> 4])
DetectControl ==
  [AccelerometerPowerOnDelay |-> <<105, 5, 2>>, FreefallDetectionCounterDecrement |-> <<105, 3, 2>>,
   MotionDetectionCounterDecrement |-> <<105, 1, 2>>]
UserControl == Fields(106, [FIFO |-> 6, I2CMasterMode |-> 5])
PowerManagement ==
  [Sleep |-> Field(107, 6), WakeCycle |-> Field(107, 5), TempSensorOff |-> Field(107, 3),
   ClockSource |-> <<107, 2, 3>>]
Standby ==
  Beside([WakeFrequency |-> <<108, 7, 2>>],
         Fields(108, [StandbyXAccel |-> 5, StandbyYAccel |-> 4, StandbyZAccel |-> 3, StandbyXGyro |-> 2,
                      StandbyYGyro |-> 1, StandbyZGyro |-> 0]))
DeviceID == [DeviceID |-> <<117, 6, 6>>]
OffsetTC ==
  [OTPBankValid |-> Field(0, 0), XGyroOffsetTC |-> <<0, 6, 6>>, YGyroOffsetTC |-> <<1, 6, 6>>,
   ZGyroOffsetTC |-> <<2, 6, 6>>, XFineGain |-> Whole(3), YFineGain |-> Whole(4),
   ZFineGain |-> Whole(5)]
DmpSettings ==
  Beside(Fields(56, [IntPLLReady |-> 2, IntDMP |-> 1]), Fields(106, [DMP |-> 7]))
\* 1 is VDD; the getter, which returns the bit where it is, is not listed with the settings.
AuxVDDIOLevel == Field(1, 7)

SlaveSettings ==
  [s \in {<<"Slave", num, n>> : num \in 0..3,
          n \in DOMAIN SlaveAddress(0) \cup DOMAIN SlaveControl(0)} |->
     Beside(SlaveAddress(s[2]), SlaveControl(s[2]))[s[3]]]
\* The settings that are not a slave's, in groups.
SensorFields == Beside(Beside(GyroConfig, GyroRange), AccelConfig)
ThresholdFields == Beside(MotionThresholds, ZeroMotionThresholds)
MasterFields == Beside(Beside(FifoEnable, MasterControl), Beside(Slave4, SlaveDelay))
InterruptFields == Beside(Beside(InterruptPin, Bypass), InterruptEnable)
PowerFields == Beside(Beside(DetectControl, UserControl), Beside(PowerManagement, Standby))
FactoryFields == Beside(Beside(DeviceID, OffsetTC), DmpSettings)
NamedFields ==
  Beside(Beside(Beside(SensorFields, ThresholdFields), Beside(MasterFields, InterruptFields)),
         Beside(PowerFields, FactoryFields))
\* The settings by the names of their setters, each in a register of its own or beside others.
Settings ==
  Beside([s \in {<<n>> : n \in DOMAIN NamedFields} |-> NamedFields[s[1]]], SlaveSettings)
\* Bits that only read, and bits that clear themselves.
Statuses ==
  Fields(54, [PassthroughStatus |-> 7, Slave4IsDone |-> 6, LostArbitration |-> 5, Slave4Nack |-> 4,
              Slave3Nack |-> 3, Slave2Nack |-> 2, Slave1Nack |-> 1, Slave0Nack |-> 0])
InterruptStatuses ==
  Fields(58, [IntFreefallStatus |-> 7, IntMotionStatus |-> 6, IntZeroMotionStatus |-> 5,
              IntFIFOBufferOverflowStatus |-> 4, IntI2CMasterStatus |-> 3, IntDataReadyStatus |-> 0])
MotionStatuses ==
  Fields(97, [XNegMotionDetected |-> 7, XPosMotionDetected |-> 6, YNegMotionDetected |-> 5,
              YPosMotionDetected |-> 4, ZNegMotionDetected |-> 3, ZPosMotionDetected |-> 2,
              ZeroMotionDetected |-> 0])
DmpStatuses ==
  Beside(Fields(57, [DMPInt5Status |-> 5, DMPInt4Status |-> 4, DMPInt3Status |-> 3, DMPInt2Status |-> 2,
                     DMPInt1Status |-> 1, DMPInt0Status |-> 0]),
         Fields(58, [IntPLLReadyStatus |-> 2, IntDMPStatus |-> 1]))
StatusFields == Beside(Beside(Statuses, InterruptStatuses), Beside(MotionStatuses, DmpStatuses))
PathResets ==
  Fields(104, [resetGyroscopePath |-> 2, resetAccelerometerPath |-> 1, resetTemperaturePath |-> 0])
UserResets ==
  Fields(106, [resetFIFO |-> 2, resetI2CMaster |-> 1, resetSensors |-> 0, resetDMP |-> 3])
Resets == Beside(PathResets, UserResets)

----------------------------------------------------------------------------
(* I2Cdev.c, and the measurements.                                         *)

BitsOf(f) == (f[2] - f[3] + 1)..f[2]
\* I2C_readBits() and I2C_readByte().
Read(byte, f) == LET low == f[2] - f[3] + 1 IN {b - low : b \in byte \cap BitsOf(f)}
\* I2C_readBit() leaves the bit where it is; the getters turn it into a bool, but for
\* getAuxVDDIOLevel().
ReadBit(byte, f) == byte \cap BitsOf(f)
Got(byte, f) == IF f[3] = 1 THEN (IF ReadBit(byte, f) # {} THEN {0} ELSE {}) ELSE Read(byte, f)
\* Seeded fault in PutField: the value is not cut off.
PutFieldAny(byte, f, v) == (byte \ BitsOf(f)) \cup {b + f[2] - f[3] + 1 : b \in ByteBits(v)}
\* What I2C_writeBit(), I2C_writeBits() and I2C_writeByte() make of the register's byte.
PutField(byte, f, v) ==
  LET low == f[2] - f[3] + 1
      value == IF f[3] = 1 THEN {b \in {0} : v # 0} ELSE ByteBits(v)
  IN  (byte \ BitsOf(f)) \cup ({b + low : b \in value} \cap BitsOf(f))

\* A word is the pair of registers its high and its low byte come from.
Burst(first, length) == [i \in 0..(length - 1) |-> first + i]
Words(buffer, at) == [n \in DOMAIN at |-> <<buffer[at[n]], buffer[at[n] + 1]>>]
\* Seeded fault in getMotion6: the temperature is not skipped.
Motion6KeepsTemperature ==
  Words(Burst(59, 14), [ax |-> 0, ay |-> 2, az |-> 4, gx |-> 6, gy |-> 8, gz |-> 10])
getMotion6 == Words(Burst(59, 14), [ax |-> 0, ay |-> 2, az |-> 4, gx |-> 8, gy |-> 10, gz |-> 12])
getAcceleration == Words(Burst(59, 6), [ax |-> 0, ay |-> 2, az |-> 4])
AccelerationAxes ==
  Beside(Words(Burst(59, 2), [ax |-> 0]),
         Beside(Words(Burst(61, 2), [ay |-> 0]), Words(Burst(63, 2), [az |-> 0])))
getTemperature == Words(Burst(65, 2), [temperature |-> 0])
getRotation == Words(Burst(67, 6), [gx |-> 0, gy |-> 2, gz |-> 4])
RotationAxes ==
  Beside(Words(Burst(67, 2), [gx |-> 0]),
         Beside(Words(Burst(69, 2), [gy |-> 0]), Words(Burst(71, 2), [gz |-> 0])))
\* getExternalSensorByte(), -Word() and -DWord()
getExternalSensor(position, length) == Burst(73 + position, length)

\* The offsets are written as the words of this little-endian machine, the low byte into the
\* register of the high one; their getters take the high byte first.
OffsetWords == [XAccel |-> 6, YAccel |-> 8, ZAccel |-> 10, XGyro |-> 19, YGyro |-> 21, ZGyro |-> 23]
setOffset(r, n, high, low) == [r EXCEPT ![OffsetWords[n]] = low, ![OffsetWords[n] + 1] = high]

----------------------------------------------------------------------------
(* Setters.                                                                *)

Fails == failures < Failures /\ failures' = failures + 1
Keep(s, value) ==
  settings' = [n \in DOMAIN settings \cup {s} |-> IF n = s THEN value ELSE settings[n]]
Forget(names) == settings' = [s \in DOMAIN settings \ names |-> settings[s]]
Called == half = "api" /\ taken < MaxSets /\ taken' = taken + 1
imuVars == <<step, board, adc, sum, offset, caliFlag>>

\* The call of a setter.
Set(s, v) ==
  LET f == Settings[s]
  IN  /\ Called
      /\ regs' = [regs EXCEPT ![f[1]] = PutField(@, f, v)]
      /\ Keep(s, ByteBits(IF f[3] = 1 THEN v ELSE v % 2^f[3]))
      /\ UNCHANGED <<half, spoiled, failures, imuVars>>
\* The register could not be read first: I2C_writeBit() and, after a timeout, I2C_writeBits()
\* go on with the byte an uninitialized variable holds.
SetUnread(s, v) ==
  LET f == Settings[s]
  IN  /\ Called /\ Fails /\ f[3] < 8
      /\ \E byte \in {{}, Byte} : regs' = [regs EXCEPT ![f[1]] = PutField(byte, f, v)]
      /\ Forget({s}) /\ spoiled' = spoiled \cup {f[1]}
      /\ UNCHANGED <<half, imuVars>>
\* ESP_FAIL: I2C_writeBits() gives up.
\* Seeded fault in SetRefused: it goes on.
SetRefusedGoesOn(s, v) ==
  LET f == Settings[s]
  IN  /\ Called /\ Fails /\ f[3] \in 2..7
      /\ regs' = [regs EXCEPT ![f[1]] = PutField({}, f, v)]
      /\ UNCHANGED <<half, settings, spoiled, imuVars>>
SetRefused(s, v) ==
  /\ Called /\ Fails /\ Settings[s][3] \in 2..7
  /\ UNCHANGED <<half, regs, settings, spoiled, imuVars>>
\* The write fails; after a timeout the sensor may have taken it.
SetUnsent(s, v) ==
  LET f == Settings[s]
  IN  /\ Called /\ Fails
      /\ regs' \in {regs, [regs EXCEPT ![f[1]] = PutField(@, f, v)]}
      /\ Forget({s})
      /\ UNCHANGED <<half, spoiled, imuVars>>
\* Values that change the field.
SettingValues(f) ==
  IF regs[f[1]] \cap BitsOf(f) # {} THEN {0} ELSE IF f[3] = 1 THEN {1} ELSE {1, 255}

\* setIntEnabled(), all of INT_ENABLE.
SetIntEnabled ==
  /\ Called
  /\ \E v \in {0, 255} : regs' = [regs EXCEPT ![56] = PutField(@, Whole(56), v)]
  /\ Forget({s \in DOMAIN settings \cap DOMAIN Settings : Settings[s][1] = 56}) /\ spoiled' = spoiled \ {56}
  /\ UNCHANGED <<half, failures, imuVars>>
\* Registers without a setting: the bytes the slaves are given, the FIFO, the offsets.
SetOutputByte ==
  /\ Called
  /\ \E r \in {51, 99, 100, 101, 102, 116} : regs' = [regs EXCEPT ![r] = Byte]
  /\ UNCHANGED <<half, settings, spoiled, failures, imuVars>>
SetOffset ==
  /\ Called
  /\ \E n \in DOMAIN OffsetWords :
       \E byte \in {{}, Byte} : regs' = setOffset(regs, n, {}, byte)
  /\ UNCHANGED <<half, settings, spoiled, failures, imuVars>>
\* The bits that clear themselves, and AUX_VDDIO.
Trigger ==
  /\ Called
  /\ \/ \E n \in DOMAIN Resets :
          LET f == Resets[n]
          IN  regs' = [regs EXCEPT ![f[1]] = PutField(PutField(@, f, 1), f, 0)]
     \/ \E v \in {0, 1} : regs' = [regs EXCEPT ![1] = PutField(@, AuxVDDIOLevel, v)]
  /\ UNCHANGED <<half, settings, spoiled, failures, imuVars>>
\* The sensor reports an event.
Raise ==
  /\ Called
  /\ \E n \in DOMAIN StatusFields :
       LET f == StatusFields[n]
       IN  /\ regs' = [regs EXCEPT ![f[1]] = PutField(@, f, 1)]
           /\ Keep(<<n>>, {0})
  /\ UNCHANGED <<half, spoiled, failures, imuVars>>
\* MPU6050_reset(): the sensor's registers are all 0 then, but for two.
AfterReset == [r \in SensorRegisters |-> CASE r = 107 -> {6} [] r = 117 -> ByteBits(104) [] OTHER -> {}]
Reset ==
  /\ Called /\ regs' = AfterReset
  /\ Forget(DOMAIN settings) /\ spoiled' = {}
  /\ UNCHANGED <<half, failures, imuVars>>

----------------------------------------------------------------------------
(* imu_task().                                                             *)

Running == 9
apiVars == <<half, settings, spoiled, board>>

\* Seeded fault in InitCalls: the ranges are left as they are after a reset.
InitCallsNoRange ==
  << <<PowerManagement.Sleep, 0>>, <<PowerManagement.WakeCycle, 0>>, <<GyroConfig.Rate, 1>>,
     <<PowerManagement.ClockSource, 1>>, <<GyroConfig.DLPFMode, 2>>,
     <<GyroRange.FullScaleGyroRange, 3>>, <<AccelConfig.FullScaleAccelRange, 0>> >>
\* MPU6050_initialize() after the reset: the fields of the setters it calls, and the values.
InitCalls ==
  << <<PowerManagement.Sleep, 0>>, <<PowerManagement.WakeCycle, 0>>, <<GyroConfig.Rate, 1>>,
     <<PowerManagement.ClockSource, 1>>, <<GyroConfig.DLPFMode, 2>>,
     <<GyroRange.FullScaleGyroRange, 3>>, <<AccelConfig.FullScaleAccelRange, 1>> >>
Initialize ==
  /\ half = "imu" /\ step < 8
  /\ step' = IF step = 7 THEN Running ELSE step + 1
  /\ IF step = 0 THEN regs' = AfterReset
     ELSE LET f == InitCalls[step][1]
          IN  regs' = [regs EXCEPT ![f[1]] = PutField(@, f, InitCalls[step][2])]
  /\ UNCHANGED <<apiVars, taken, failures, adc, sum, offset, caliFlag>>
\* testConnection() is not called: nothing is told of a sensor that does not answer.
InitFails ==
  /\ half = "imu" /\ step < 8 /\ Fails
  /\ step' = IF step = 7 THEN Running ELSE step + 1
  /\ UNCHANGED <<apiVars, regs, taken, adc, sum, offset, caliFlag>>

\* What the sensor measures, in counts of a 32nd of its range, 2 g at FS_2, 4 g at FS_4...
Counts(a) == IF 6 \in regs[107] THEN 0
             ELSE (16 * a) \div (2 ^ (IF 3 \in regs[28] THEN 1 ELSE 0) * 4 ^ (IF 4 \in regs[28] THEN 1 ELSE 0))
SensorMaxG == 4
\* ReadIMUSensorHandle(): accRaw, and accb before the low-pass filter, times Averaged.
Raw(counts) == (counts * SensorMaxG) \div 32
accRaw == [axis \in DOMAIN adc |-> Raw(adc[axis])]
accb == [axis \in DOMAIN adc |-> accRaw[axis] * Averaged - offset[axis]]

\* Seeded fault in Calibrated: one reading more is waited for than is divided by.
CalibratedLate(n) == n > Averaged
\* offsetCount > GYRO_CALC_COUNT - 1
Calibrated(n) == n > Averaged - 1

\* ReadIMUSensorHandle() and then IMUCalibrate() or IMUSO3Update().  After a failed transfer the
\* global buffer still holds the reading before, and it counts once more.
Turn ==
  /\ half = "imu" /\ step = Running
  /\ \/ adc' = [axis \in DOMAIN board |-> Counts(board[axis])] /\ UNCHANGED failures
     \/ Fails /\ UNCHANGED adc
  /\ IF ~caliFlag THEN UNCHANGED <<sum, offset, caliFlag, taken>>
     ELSE LET total == [axis \in DOMAIN sum |-> sum[axis] + Raw(adc'[axis])]
          IN  IF Calibrated(taken + 1)
              THEN /\ offset' = [total EXCEPT !.z = @ - OneG * Averaged]
                   /\ sum' = [x |-> 0, z |-> 0] /\ taken' = 0 /\ caliFlag' = FALSE
              ELSE sum' = total /\ taken' = taken + 1 /\ UNCHANGED <<offset, caliFlag>>
  /\ UNCHANGED <<apiVars, regs, step>>

----------------------------------------------------------------------------

SensorInit ==
  /\ settings = [s \in {} |-> {}] /\ spoiled = {} /\ taken = 0 /\ failures = 0 /\ step = 0
  /\ adc = [x |-> 0, z |-> 0] /\ sum = adc /\ offset = adc /\ caliFlag = TRUE
  /\ \/ /\ half = "api" /\ board = adc
        /\ \E byte \in {{}, Byte} :
             regs = [r \in SensorRegisters |-> IF r \in {54, 57, 58, 97} THEN {} ELSE byte]
     \/ /\ half = "imu" /\ regs = [r \in SensorRegisters |-> Byte]
        /\ board \in [x : {0, 2}, z : {OneG, OneG + 4}]

SensorNext ==
  \/ \E s \in DOMAIN Settings : \E v \in SettingValues(Settings[s]) :
       Set(s, v) \/ SetUnread(s, v) \/ SetRefused(s, v) \/ SetUnsent(s, v)
  \/ SetIntEnabled \/ SetOutputByte \/ SetOffset \/ Trigger \/ Raise \/ Reset
  \/ Initialize \/ InitFails \/ Turn

SensorSpec == SensorInit /\ [][SensorNext]_sensorVars

----------------------------------------------------------------------------
(* Properties.                                                             *)

\* A getter returns what its setter was last given, whichever setters were called in between and
\* whatever transfers failed, unless a setter wrote the register without having read it; and the
\* getter of a status tells of its own event only.
GettersAgree ==
  /\ \A s \in DOMAIN settings \cap DOMAIN Settings :
       Settings[s][1] \notin spoiled => Got(regs[Settings[s][1]], Settings[s]) = settings[s]
  /\ \A n \in DOMAIN StatusFields :
       half = "api" => (Got(regs[StatusFields[n][1]], StatusFields[n]) # {} <=> <<n>> \in DOMAIN settings)

\* The word an axis has in a reading of all six is the one its own getters read, and no getter
\* of external data reaches another sensor's.
WordsAgree ==
  half = "api" /\ taken = 0 =>
    /\ getMotion6 = Beside(getAcceleration, getRotation)
    /\ getMotion6 = Beside(AccelerationAxes, RotationAxes)
    /\ \A length \in {1, 2, 4} : \A position \in 0..(24 - length) :
         \A i \in 0..(length - 1) : getExternalSensor(position, length)[i] \in 73..96
    /\ getTemperature.temperature \notin {getMotion6[n] : n \in DOMAIN getMotion6}

\* Both: a getter tells what its setter, or the sensor, has put there.
TransfersAgree == GettersAgree /\ WordsAgree

\* With no transfer lost, imu_task() sees the acceleration of the board in its scale's unit, and
\* once it is calibrated a board that has stayed where it was is at rest and level.
Levelled ==
  half = "imu" /\ failures = 0 /\ ~caliFlag =>
    accRaw = board /\ accb = [x |-> 0, z |-> OneG * Averaged]
=============================================================================
