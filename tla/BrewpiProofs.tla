----------------------------- MODULE BrewpiProofs ------------------------------
(***************************************************************************)
(* Theorems about Brewpi: the system uses the controller as BeerCtrl says, *)
(* so the theorems about BeerCtrl hold of the system, and its clock does   *)
(* what the integral and the division rely on.                             *)
(***************************************************************************)
EXTENDS Brewpi, BeerCtrlProofs, SensorProofs

-------------------------------------------------------------------------------
(* Arithmetic of the clock. *)

(* The number of 16 bits is the only one with the same lower bits. *)
LEMMA Narrowed ==
    ASSUME NEW x \in Int, NEW word, Narrows(x, word)
    PROVE  Int16(x) = word
<1>0. word \in Int /\ -32768 <= word /\ word <= 32767 /\ (x - word) % 65536 = 0
  BY DEF Narrows
<1>1. PICK k \in Int : x - word = 65536 * k
  BY <1>0
<1> DEFINE w == word + 32768
<1>2. w \in Int /\ 0 <= w /\ w < 65536
  BY <1>0
<1>3. x + 32768 = 65536 * k + w
  BY <1>0, <1>1
<1> HIDE DEF w
<1>4. (x + 32768) % 65536 = w
  BY <1>2, <1>3
<1> QED BY <1>0, <1>4 DEF Int16, w

LEMMA DivRange ==
    ASSUME NEW s \in Nat \ {0}, NEW x \in Nat
    PROVE  x \div s \in Nat /\ s * (x \div s) <= x /\ x < s * (x \div s) + s
OBVIOUS

LEMMA DivOrdered ==
    ASSUME NEW s \in Nat \ {0}, NEW x \in Nat, NEW y \in Nat, x <= y
    PROVE  x \div s <= y \div s
OBVIOUS

(* A second or more apart, two times have different seconds. *)
LEMMA DivApart ==
    ASSUME NEW s \in Nat \ {0}, NEW x \in Nat, NEW y \in Nat, x + s <= y
    PROVE  x \div s # y \div s
OBVIOUS

LEMMA DivEitherWay ==
    ASSUME NEW s \in Nat \ {0}, NEW x \in Nat, NEW y \in Nat, x + s <= y \/ y + s <= x
    PROVE  x \div s # y \div s
<1>1. CASE x + s <= y
  BY <1>1, DivApart
<1>2. CASE y + s <= x
  <2>1. y \div s # x \div s
    BY <1>2, DivApart
  <2> QED BY <2>1
<1> QED BY <1>1, <1>2

LEMMA DivDistance ==
    ASSUME NEW s \in Nat \ {0}, NEW x \in Nat, NEW y \in Nat
    PROVE  ((y \div s) - (x \div s)) * s \in (y - x) - s + 1 .. (y - x) + s - 1
BY DivRange

LEMMA ModRange ==
    ASSUME NEW w \in Nat \ {0}, NEW x \in Nat
    PROVE  /\ x % w \in 0 .. w - 1
           /\ x < 2 * w => x % w = IF x < w THEN x ELSE x - w
<1>1. x % w \in 0 .. w - 1
  OBVIOUS
<1>2. x < w => x % w = x
  OBVIOUS
<1>3. w <= x /\ x < 2 * w => x % w = x - w
  OBVIOUS
<1> QED BY <1>1, <1>2, <1>3

LEMMA ClockConstants ==
    /\ Second \in Nat /\ Second > 0 /\ Wrap \in Nat /\ Wrap > 0
    /\ Jitter \in Nat /\ Jitter < Second
BY ClockAssumption

(* What the clock may show is a second the controller may see. *)
LEMMA SecondsSeen ==
    ASSUME NEW x \in 0 .. Wrap - 1
    PROVE  SecondOf(x) \in Seconds
<1>1. Wrap - 1 \in Nat /\ x \in Nat /\ x <= Wrap - 1 /\ Second \in Nat \ {0}
  BY ClockAssumption
<1>2. x \div Second \in Nat /\ x \div Second <= (Wrap - 1) \div Second /\ (Wrap - 1) \div Second \in Nat
  BY <1>1, DivRange, DivOrdered
<1> QED BY <1>2, ClockAssumption DEF SecondOf

(* The clock p ticks after it has shown c. *)
ClockAfter(c, p) == IF c + p < Wrap THEN c + p ELSE c + p - Wrap

(* What it showed g ticks before c, if g is less than the clock's range. *)
TakenAt(c, g) == IF g <= c THEN c - g ELSE c - g + Wrap

LEMMA ClockAfterMod ==
    ASSUME NEW c \in 0 .. Wrap - 1, NEW p \in Nat
    PROVE  (c + p) % Wrap \in 0 .. Wrap - 1 /\ (p < Wrap => (c + p) % Wrap = ClockAfter(c, p))
<1>1. Wrap \in Nat \ {0} /\ c \in Nat /\ c < Wrap
  BY ClockConstants
<1>2. PICK x \in Nat : x = c + p /\ (p < Wrap => x < 2 * Wrap)
  BY <1>1
<1>3. x % Wrap \in 0 .. Wrap - 1 /\ (x < 2 * Wrap => x % Wrap = IF x < Wrap THEN x ELSE x - Wrap)
  BY <1>1, ModRange
<1>4. ClockAfter(c, p) = IF x < Wrap THEN x ELSE x - Wrap
  BY <1>1, <1>2 DEF ClockAfter
<1> QED BY <1>1, <1>2, <1>3, <1>4

LEMMA TakenAfter ==
    ASSUME NEW c \in 0 .. Wrap - 1, NEW g \in Nat, NEW p \in Nat \ {0}, g + p < Wrap
    PROVE  TakenAt(ClockAfter(c, p), g + p) = TakenAt(c, g) /\ TakenAt(c, g) \in 0 .. Wrap - 1
BY ClockConstants DEF TakenAt, ClockAfter

LEMMA TakenNow ==
    ASSUME NEW c \in Nat
    PROVE  TakenAt(c, 0) = c
BY DEF TakenAt

LEMMA SumBelow ==
    ASSUME NEW g \in Nat, NEW p \in Nat, NEW w \in Nat, g + p < w
    PROVE  g < w /\ p < w
OBVIOUS

(* A time that is more than a second ago, but not as long as the clock's   *)
(* range less a second, is in another second.                              *)
LEMMA TakenApart ==
    ASSUME NEW c \in 0 .. Wrap - 1, NEW g \in Nat, NEW p \in Nat \ {0},
           Second <= g + p, g + p <= Wrap - Second
    PROVE  SecondOf(ClockAfter(c, p)) # SecondOf(TakenAt(c, g))
<1>0. /\ ClockAfter(c, p) \in Nat /\ TakenAt(c, g) \in Nat
      /\ ClockAfter(c, p) + Second <= TakenAt(c, g) \/ TakenAt(c, g) + Second <= ClockAfter(c, p)
  BY ClockConstants DEF TakenAt, ClockAfter
<1>1. PICK x \in Nat, y \in Nat :
          x = ClockAfter(c, p) /\ y = TakenAt(c, g) /\ (x + Second <= y \/ y + Second <= x)
  BY <1>0, Zenon
<1>2. x \div Second # y \div Second
  BY <1>1, ClockConstants, DivEitherWay
<1> QED BY <1>1, <1>2 DEF SecondOf

LEMMA TakenDistance ==
    ASSUME NEW c \in Nat, NEW g \in 0 .. c
    PROVE  (SecondOf(c) - SecondOf(TakenAt(c, g))) * Second \in g - Second + 1 .. g + Second - 1
<1>1. TakenAt(c, g) = c - g
  BY DEF TakenAt
<1> DEFINE y == c - g
<1>2. y \in Nat /\ c - y = g
  OBVIOUS
<1> HIDE DEF y
<1>3. ((c \div Second) - (y \div Second)) * Second \in (c - y) - Second + 1 .. (c - y) + Second - 1
  BY <1>2, ClockConstants, DivDistance
<1>4. (SecondOf(c) - SecondOf(y)) * Second \in g - Second + 1 .. g + Second - 1
  BY <1>2, <1>3 DEF SecondOf
<1> QED BY <1>1, <1>4 DEF y

-------------------------------------------------------------------------------
(* The parts of the system. *)

ClockType == clock \in 0 .. Wrap - 1 /\ lag \in 0 .. Jitter /\ gap \in 0 .. Wrap

LEMMA PassedType ==
    ASSUME ClockType, Elapse
    PROVE  Passed \in Nat /\ Passed > 0 /\ Passed >= Second - Jitter + lag' /\ lag' \in 0 .. Jitter
<1>1. PICK l \in 0 .. Jitter : l = lag'
  BY DEF Elapse
<1>2. Second - lag + l \in Nat /\ Second - lag + l > 0 /\ Second - lag + l >= Second - Jitter + l
  BY ClockConstants DEF ClockType
<1> QED BY <1>1, <1>2 DEF Passed

LEMMA ElapseType ==
    ASSUME ClockType, Elapse
    PROVE  /\ clock' \in 0 .. Wrap - 1 /\ lag' \in 0 .. Jitter /\ Now \in Seconds
           /\ Passed < Wrap => clock' = ClockAfter(clock, Passed)
<1>1. clock' = (clock + Passed) % Wrap
  BY DEF Elapse
<1>2. (clock + Passed) % Wrap \in 0 .. Wrap - 1 /\ (Passed < Wrap => (clock + Passed) % Wrap = ClockAfter(clock, Passed))
  BY PassedType, ClockAfterMod DEF ClockType
<1>3. SecondOf((clock + Passed) % Wrap) \in Seconds
  BY <1>2, SecondsSeen
<1> QED BY <1>1, <1>2, <1>3, PassedType DEF Now

LEMMA ClockStep == ClockType /\ [BNext]_bvars => ClockType'
<1> SUFFICES ASSUME ClockType, [BNext]_bvars PROVE ClockType'
  OBVIOUS
<1> USE ClockConstants
<1>1. CASE TimerReport
  BY <1>1, ElapseType DEF TimerReport, ClockType
<1>2. CASE TimerOther
  <2>1. clock' \in 0 .. Wrap - 1 /\ lag' \in 0 .. Jitter
    BY <1>2, ElapseType DEF TimerOther
  <2>2. gap' \in 0 .. Wrap
    <3>1. gap' = IF gap + Passed < Wrap THEN gap + Passed ELSE Wrap
      BY <1>2 DEF TimerOther
    <3>2. gap \in Nat /\ Passed \in Nat
      BY <1>2, PassedType DEF ClockType, TimerOther
    <3> QED BY <3>1, <3>2
  <2> QED BY <2>1, <2>2 DEF ClockType
<1>3. CASE Boot
  BY <1>3 DEF Boot, ClockType
<1>4. CASE SecondCall \/ DeviceWrite \/ Delivery \/ BusEvent \/ UNCHANGED bvars
  BY <1>4 DEF SecondCall, DeviceWrite, Delivery, DeliverTemp, DeliverKP, DeliverAuto, DeliverFridge,
              DeliverManual, Deliver, BusEvent, bvars, timing, ClockType
<1> QED BY <1>1, <1>2, <1>3, <1>4 DEF BNext, Timer, DivideByZero

(* The driver, the bus and the callback are those of SensorCycle. *)
LEMMA DriverStep == [BNext]_bvars => [SNext]_svars
<1>1. Timer => SNext
  BY DEF Timer, TimerReport, TimerOther, DivideByZero, Reported, Boot, SNext
<1>2. SecondCall \/ DeviceWrite \/ Delivery \/ BusEvent \/ Boot \/ UNCHANGED bvars => [SNext]_svars
  BY DEF SecondCall, DeviceWrite, Delivery, DeliverTemp, DeliverKP, DeliverAuto, DeliverFridge,
         DeliverManual, Deliver, BusEvent, Boot, bvars, SNext
<1> QED BY <1>1, <1>2 DEF BNext

LEMMA DriverSpec == BSpec => SSpec
BY DriverStep, PTL DEF BSpec, SSpec, BInit

(* Each step of the system is one of the controller, or leaves it alone:   *)
(* what is reported is a temperature, the time it is reported at a second, *)
(* and what is set narrows to what may be set.                             *)
LEMMA ControllerStep ==
    ASSUME ClockType, SensorInv', [BNext]_bvars
    PROVE  [Next]_vars
<1>1. CASE TimerReport
  <2>1. report' \in Readings
    BY <1>1, ReadingAssumption DEF TimerReport, Reported, SensorInv, STypeOK
  <2>2. Now \in Seconds
    BY <1>1, ElapseType DEF TimerReport
  <2>3. PICK temp \in Readings, now \in Seconds : temp = report' /\ now = Now
    BY <2>1, <2>2
  <2>4. BCTRL_ReportNewReading(temp, now)
    BY <1>1, <2>3 DEF TimerReport
  <2>5. Report
    BY <2>4 DEF Report
  <2> QED BY <2>5 DEF Next
<1>2. CASE DeliverTemp
  <2>1. PICK n \in TempPayloads : BCTRL_SetTemp(Int16(16 * n))
    BY <1>2 DEF DeliverTemp, Deliver
  <2>2. PICK temp \in Setpoints : Narrows(16 * n, temp)
    BY PayloadAssumption
  <2>3. 16 * n \in Int
    BY PayloadAssumption
  <2>4. Int16(16 * n) \in Setpoints
    BY <2>2, <2>3, Narrowed
  <2> QED BY <2>1, <2>4 DEF Next, Settings
<1>3. CASE DeliverKP
  <2>1. PICK n \in KPPayloads : BCTRL_SetKP(16 * n)
    BY <1>3 DEF DeliverKP, Deliver
  <2> QED BY <2>1, PayloadAssumption DEF Next, Settings
<1>4. CASE DeliverAuto \/ DeliverFridge \/ DeliverManual
  BY <1>4 DEF DeliverAuto, DeliverFridge, DeliverManual, Deliver, Next, Settings
<1>5. CASE SecondCall
  BY <1>5 DEF SecondCall, Next, Settings, Fridge
<1>6. CASE TimerOther \/ DeviceWrite \/ BusEvent \/ Boot \/ DivideByZero \/ UNCHANGED bvars
  BY <1>6 DEF TimerOther, DeviceWrite, BusEvent, Boot, DivideByZero, bvars, Next
<1> QED BY <1>1, <1>2, <1>3, <1>4, <1>5, <1>6 DEF BNext, Timer, Delivery

LEMMA ClockAlways == BSpec => []ClockType
<1>1. BInit => ClockType
  BY ClockAssumption DEF BInit, ClockType
<1> QED BY <1>1, ClockStep, PTL DEF BSpec

(* user_main.c and mqtt.c use the controller only as beerctrl.c is made to *)
(* be used.                                                                *)
THEOREM ControllerRefined == BSpec => ControllerSpec
<1>1. BInit => Init
  BY DEF BInit
<1>2. ClockType /\ SensorInv' /\ [BNext]_bvars => [Next]_vars
  BY ControllerStep
<1> QED BY <1>1, <1>2, ClockAlways, DriverSpec, SensorAlways, PTL DEF BSpec, ControllerSpec, Spec

(* So compressor and heater are interlocked in the running system, and the *)
(* display tells the truth between handlers.                               *)
THEOREM SystemSafe == BSpec => [](TypeOK /\ Interlock /\ DisplayTruth)
BY ControllerRefined, TypeCorrect, InterlockCorrect, DisplayCorrect, PTL DEF ControllerSpec

-------------------------------------------------------------------------------
(* The time of the last reading. *)

(* The clock at the last reading, if it has not come around since. *)
Taken == TakenAt(clock, gap)

(* gap is measured from the reading that lasttime is of, and at least a    *)
(* convert turn has gone by when the next reading is due.                  *)
ReadingInv ==
    gap < Wrap => /\ b.lasttime \in Seconds => b.lasttime = SecondOf(Taken)
                  /\ state = 2 => gap >= Second - Jitter + lag

(* What the settings and the switching of the fridge leave alone. *)
LEMMA TimeKept ==
    ASSUME TypeOK, SecondCall \/ DeviceWrite \/ Delivery \/ BusEvent \/ UNCHANGED bvars
    PROVE  b'.lasttime = b.lasttime /\ state' = state /\ UNCHANGED timing
<1>1. b'.lasttime = b.lasttime
  BY DEF SecondCall, DeviceWrite, Delivery, DeliverTemp, DeliverKP, DeliverAuto, DeliverFridge,
         DeliverManual, Deliver, BusEvent, bvars, vars, BCTRL_Trigger, BCTRL_SetFridge, Write,
         BCTRL_SetTemp, BCTRL_SetKP, BCTRL_SetCtrl, TypeOK, State
<1>2. state' = state /\ UNCHANGED timing
  BY DEF SecondCall, DeviceWrite, Delivery, DeliverTemp, DeliverKP, DeliverAuto, DeliverFridge,
         DeliverManual, Deliver, BusEvent, BusChange, bvars, svars, program, timing
<1> QED BY <1>1, <1>2

(* A tick moves the clock and the time since a reading alike. *)
LEMMA TakenKept ==
    ASSUME ClockType, Elapse, gap + Passed < Wrap
    PROVE  TakenAt(clock', gap + Passed) = Taken /\ Taken \in 0 .. Wrap - 1
<1>1. Passed \in Nat \ {0} /\ clock \in 0 .. Wrap - 1 /\ gap \in Nat
  BY PassedType DEF ClockType
<1>2. Passed < Wrap
  BY <1>1, ClockConstants, SumBelow
<1>3. clock' = ClockAfter(clock, Passed)
  BY <1>2, ElapseType
<1>4. TakenAt(ClockAfter(clock, Passed), gap + Passed) = TakenAt(clock, gap) /\ TakenAt(clock, gap) \in 0 .. Wrap - 1
  BY <1>1, TakenAfter
<1> QED BY <1>3, <1>4 DEF Taken

LEMMA ReadingStep ==
    ASSUME TypeOK, SensorInv, ClockType, ClockType', ReadingInv, [BNext]_bvars
    PROVE  ReadingInv'
<1> USE ClockConstants
<1>1. CASE TimerReport
  <2>1. gap' = 0 /\ Taken' = clock' /\ b'.lasttime = SecondOf(clock')
    <3>1. gap' = 0 /\ b' = Computed(b, report', Now)
      BY <1>1 DEF TimerReport, BCTRL_ReportNewReading
    <3>2. b'.lasttime = Now
      BY <3>1 DEF Computed, TypeOK, State
    <3>3. PICK c \in Nat : c = clock'
      BY DEF ClockType
    <3>4. TakenAt(c, 0) = c
      BY TakenNow
    <3>5. Taken' = clock'
      BY <3>1, <3>3, <3>4 DEF Taken
    <3> QED BY <3>1, <3>2, <3>5 DEF Now
  <2>2. state' # 2
    BY <1>1 DEF TimerReport, Reported, timer_cb, ScanTurn, ConvertTurn, ReadTurn
  <2> QED BY <2>1, <2>2 DEF ReadingInv
<1>2. CASE TimerOther
  <2> SUFFICES ASSUME gap' < Wrap
               PROVE  /\ b'.lasttime \in Seconds => b'.lasttime = SecondOf(Taken)'
                      /\ state' = 2 => gap' >= Second - Jitter + lag'
    BY DEF ReadingInv
  <2>1. Elapse /\ b' = b
    BY <1>2 DEF TimerOther, vars
  <2>0. gap \in Nat /\ Passed \in Nat
    BY <2>1, PassedType DEF ClockType
  <2>2. gap' = gap + Passed /\ gap + Passed < Wrap
    <3>1. gap' = IF gap + Passed < Wrap THEN gap + Passed ELSE Wrap
      BY <1>2 DEF TimerOther
    <3> QED BY <3>1
  <2>3. gap < Wrap
    BY <2>0, <2>2
  <2>4. Taken' = Taken
    BY <2>1, <2>2, TakenKept DEF Taken
  <2>5. b.lasttime \in Seconds => b.lasttime = SecondOf(Taken)
    BY <2>3 DEF ReadingInv
  <2>6. gap' >= Second - Jitter + lag'
    <3>1. PICK l \in 0 .. Jitter : l = lag'
      BY <2>1, PassedType
    <3>2. Passed >= Second - Jitter + l
      BY <2>1, <3>1, PassedType
    <3>3. gap + Passed >= Second - Jitter + l
      BY <2>0, <3>2
    <3> QED BY <2>2, <3>1, <3>3
  <2> QED BY <2>1, <2>4, <2>5, <2>6 DEF SecondOf
<1>3. CASE Boot
  <2>1. b'.lasttime \in BootTimes /\ state' = 0
    BY <1>3 DEF Boot, Reset, Restart, Booted
  <2>2. b'.lasttime \notin Seconds /\ state' # 2
    BY <2>1, ClockAssumption
  <2> QED BY <2>2 DEF ReadingInv
<1>4. CASE SecondCall \/ DeviceWrite \/ Delivery \/ BusEvent \/ UNCHANGED bvars
  BY <1>4, TimeKept DEF ReadingInv, Taken, timing
<1> QED BY <1>1, <1>2, <1>3, <1>4 DEF BNext, Timer, DivideByZero

LEMMA ReadingAlways == BSpec => [](TypeOK /\ SensorInv /\ ClockType /\ ReadingInv)
<1>1. BInit => ReadingInv
  <2> SUFFICES ASSUME BInit PROVE b.lasttime \notin Seconds /\ state # 2
    BY DEF ReadingInv
  <2>1. b.lasttime \in BootTimes /\ state = 0
    BY DEF BInit, Init, SInit, Booted
  <2> QED BY <2>1, ClockAssumption
<1> QED BY <1>1, ReadingStep, SystemSafe, ClockAlways, DriverSpec, SensorAlways, PTL DEF BSpec

(* BCTRL_ReportNewReading divides by zero only when no reading has been    *)
(* used for the time the clock takes to come around, less a second.        *)
THEOREM DivisionSafe == BSpec => NoDivideByZero
<1>1. ASSUME ClockType, ReadingInv, DivideByZero
      PROVE  gap + Second - lag + Jitter > Wrap - Second
  <2> USE ClockConstants
  <2> SUFFICES ASSUME gap + Second - lag + Jitter <= Wrap - Second PROVE FALSE
    BY <1>1 DEF ClockType
  <2>0. clock \in 0 .. Wrap - 1 /\ lag \in 0 .. Jitter /\ gap \in 0 .. Wrap /\ state = 2
    BY <1>1 DEF ClockType, DivideByZero
  <2>1. PICK l \in 0 .. Jitter : b.lasttime = SecondOf((clock + Second - lag + l) % Wrap)
    BY <1>1 DEF DivideByZero
  <2> DEFINE p == Second - lag + l
  <2>2. p \in Nat \ {0} /\ gap + p <= Wrap - Second /\ clock + Second - lag + l = clock + p
    BY <2>0
  <2>3. gap < Wrap /\ p < Wrap
    BY <2>0, <2>2
  <2>4. gap + p >= Second
    BY <1>1, <2>0, <2>3 DEF ReadingInv
  <2>5. b.lasttime = SecondOf((clock + p) % Wrap)
    BY <2>1, <2>2
  <2> HIDE DEF p
  <2>6. (clock + p) % Wrap \in 0 .. Wrap - 1 /\ (clock + p) % Wrap = ClockAfter(clock, p)
    BY <2>0, <2>2, <2>3, ClockAfterMod
  <2>7. b.lasttime \in Seconds
    BY <2>5, <2>6, SecondsSeen
  <2>8. SecondOf(ClockAfter(clock, p)) = SecondOf(TakenAt(clock, gap))
    BY <1>1, <2>3, <2>5, <2>6, <2>7 DEF ReadingInv, Taken
  <2> QED BY <2>0, <2>2, <2>4, <2>8, TakenApart
<1>2. ClockType /\ ReadingInv => [DivideByZero => gap + Second - lag + Jitter > Wrap - Second]_bvars
  BY <1>1
<1> QED BY <1>2, ReadingAlways, PTL DEF NoDivideByZero

(* dt, by which the integral multiplies and the derivative divides, is the *)
(* time since the last reading to within a second.                         *)
THEOREM DtCorrect == BSpec => DtMeasured
<1> DEFINE elapsed == gap + Passed
           Measured == NewReading /\ b.lasttime \in Seconds =>
               LET e == gap + Passed
                   dt == b'.lasttime - b.lasttime
               IN  e <= clock' => dt * Second \in e - Second + 1 .. e + Second - 1
<1>1. ASSUME TypeOK, SensorInv, ClockType, ClockType', ReadingInv, [BNext]_bvars
      PROVE  Measured
  <2> USE ClockConstants
  <2> SUFFICES ASSUME NewReading, b.lasttime \in Seconds, elapsed <= clock'
               PROVE  (b'.lasttime - b.lasttime) * Second \in elapsed - Second + 1 .. elapsed + Second - 1
    OBVIOUS
  <2>1. TimerReport
    <3>1. ~Boot
      <4>1. Boot => b'.lasttime \in BootTimes
        BY DEF Boot, Reset, Booted
      <4> QED BY <4>1, ClockAssumption DEF NewReading
    <3>2. ~(SecondCall \/ DeviceWrite \/ Delivery \/ BusEvent \/ UNCHANGED bvars)
      BY <1>1, TimeKept DEF NewReading, timing
    <3>3. ~TimerOther
      <4>1. TimerOther => gap' = IF gap + Passed < Wrap THEN gap + Passed ELSE Wrap
        BY DEF TimerOther
      <4>2. TimerOther => Passed \in Nat /\ Passed > 0 /\ gap \in Nat
        BY <1>1, PassedType DEF TimerOther, ClockType
      <4> QED BY <4>1, <4>2 DEF NewReading
    <3> QED BY <1>1, <3>1, <3>2, <3>3 DEF BNext, Timer, DivideByZero
  <2>2. b'.lasttime = SecondOf(clock')
    <3>1. b' = Computed(b, report', Now)
      BY <2>1 DEF TimerReport, BCTRL_ReportNewReading
    <3> QED BY <1>1, <3>1 DEF Computed, TypeOK, State, Now
  <2>8. Elapse /\ Passed \in Nat /\ gap \in Nat
    BY <1>1, <2>1, PassedType DEF TimerReport, ClockType
  <2>9. PICK c \in 0 .. Wrap - 1 : c = clock'
    BY <1>1 DEF ClockType
  <2>3. elapsed \in 0 .. c /\ gap < Wrap /\ elapsed < Wrap
    <3>1. elapsed <= c
      BY <2>9
    <3> QED BY <2>8, <2>9, <3>1
  <2>4. TakenAt(c, elapsed) = Taken
    BY <1>1, <2>3, <2>8, <2>9, TakenKept
  <2>5. b.lasttime = SecondOf(Taken)
    BY <1>1, <2>3 DEF ReadingInv
  <2> HIDE DEF elapsed
  <2>6. (SecondOf(c) - SecondOf(TakenAt(c, elapsed))) * Second \in elapsed - Second + 1 .. elapsed + Second - 1
    BY <2>3, <2>9, TakenDistance
  <2> QED BY <2>2, <2>4, <2>5, <2>6, <2>9
<1>2. TypeOK /\ SensorInv /\ ClockType /\ ClockType' /\ ReadingInv /\ [BNext]_bvars => [Measured]_bvars
  BY <1>1
<1> QED BY <1>2, ReadingAlways, PTL DEF BSpec, DtMeasured
===============================================================================
