-------------------------------- MODULE Brewpi --------------------------------
(***************************************************************************)
(* The controller (BeerCtrl) driven by the timer callback (SensorCycle),   *)
(* by the remote settings of user/mqtt.c and by the clock of the chip.     *)
(*                                                                         *)
(* Only the timer callback reads the clock, so the clock is the time of    *)
(* the last callback.  A callback that makes two calls into the controller *)
(* makes the second one in a step of its own: due names it, and no other   *)
(* handler runs before it.                                                 *)
(***************************************************************************)
EXTENDS BeerCtrl, SensorCycle

CONSTANTS
    Second,         \* clock ticks in a second, and between timer expiries
    Jitter,         \* a callback runs at most this many ticks late
    Wrap,           \* system_get_time() counts modulo this, 2^32 in the SDK
    TempPayloads,   \* numbers received on setting/beer/temp
    KPPayloads      \* numbers received on setting/beer/kp

ASSUME ClockAssumption ==
    /\ Second \in Nat \ {0} /\ Jitter \in 0 .. Second - 1 /\ Wrap \in Nat \ {0}
    /\ Seconds = 0 .. (Wrap - 1) \div Second
    /\ BootTimes \cap Seconds = {}
ASSUME ReadingAssumption == Readings = Values

(* word is what is left of x in an int16_t. *)
Narrows(x, word) == word \in -32768 .. 32767 /\ (x - word) % 65536 = 0
ASSUME PayloadAssumption ==
    /\ TempPayloads \cup KPPayloads \subseteq Int
    /\ \A n \in TempPayloads : \E temp \in Setpoints : Narrows(16 * n, temp)
    /\ \A n \in KPPayloads : 16 * n \in KPs

VARIABLES
    clock,  \* system_get_time() at the last timer callback
    lag,    \* how late that callback was
    due,    \* call the running handler has still to make
    gap     \* history: ticks since b.lasttime was taken, up to Wrap

timing == <<clock, lag, gap>>
bvars == <<vars, svars, timing, due>>

BInit == /\ Init /\ SInit
         /\ clock = 0 /\ lag = 0 /\ gap = 0
         /\ due = "none"

Ready == Idle /\ due = "none"

-------------------------------------------------------------------------------
(* timer_cb, up to the call of BCTRL_Trigger. *)

(* Mutant: a divisor that is too large. *)
SecondOf_coarse(time) == time \div (3 * Second)
SecondOf(time) == time \div Second
Now == SecondOf(clock')

(* The ticks from the last callback to this one. *)
Passed == Second - lag + lag'
Elapse == lag' \in 0 .. Jitter /\ clock' = (clock + Passed) % Wrap

Reported == timer_cb /\ report' # NoReading /\ b.ctrl = "AUTOMATIC"

TimerReport ==
    /\ Ready /\ Elapse /\ Reported
    /\ BCTRL_ReportNewReading(report', Now)
    /\ Now # b.lasttime
    /\ gap' = 0
    /\ due' = IF trigger' THEN "BCTRL_Trigger" ELSE "none"

TimerOther ==
    /\ Ready /\ Elapse /\ timer_cb
    /\ report' = NoReading \/ b.ctrl = "MANUAL"
    /\ gap' = IF gap + Passed < Wrap THEN gap + Passed ELSE Wrap
    /\ due' = IF trigger' /\ b.ctrl = "AUTOMATIC" THEN "BCTRL_Trigger" ELSE "none"
    /\ UNCHANGED vars

(* The exception of a division by zero restarts everything. *)
Boot == Reset /\ Restart /\ clock' = 0 /\ lag' = 0 /\ gap' = 0 /\ due' = "none"

DivideByZero ==
    /\ Ready /\ state = 2 /\ b.ctrl = "AUTOMATIC"
    /\ addrs # <<>>
    /\ \E l \in 0 .. Jitter :
           b.lasttime = SecondOf((clock + Second - lag + l) % Wrap)
    /\ Boot

-------------------------------------------------------------------------------
(* deliver_publish of user/mqtt.c: the three topics. *)

Deliver(Setting) == Ready /\ Setting /\ due' = "none" /\ UNCHANGED <<svars, timing>>

(* Mutant: a setpoint that is not narrowed. *)
Int16_wide(x) == x
Int16(x) == ((x + 32768) % 65536) - 32768

DeliverTemp == \E n \in TempPayloads : Deliver(BCTRL_SetTemp(Int16(16 * n)))
DeliverKP == \E n \in KPPayloads : Deliver(BCTRL_SetKP(16 * n))
DeliverAuto == Deliver(BCTRL_SetCtrl("AUTOMATIC"))
DeliverFridge == \E s \in Fridge : Deliver(BCTRL_SetFridge(s))

(* Any other payload on setting/beer/ctrl: manual, and off. *)
DeliverManual == /\ Ready /\ BCTRL_SetCtrl("MANUAL")
                 /\ due' = "BCTRL_SetFridge"
                 /\ UNCHANGED <<svars, timing>>

SecondCall == /\ \/ due = "BCTRL_Trigger" /\ BCTRL_Trigger
                 \/ due = "BCTRL_SetFridge" /\ BCTRL_SetFridge("OFF")
              /\ due' = "none"
              /\ UNCHANGED <<svars, timing>>

-------------------------------------------------------------------------------
Timer == TimerReport \/ TimerOther \/ DivideByZero
Delivery == DeliverTemp \/ DeliverKP \/ DeliverAuto \/ DeliverFridge \/ DeliverManual
DeviceWrite == Write /\ UNCHANGED <<svars, timing, due>>
BusEvent == BusChange /\ UNCHANGED <<vars, timing, due>>

BNext == Timer \/ SecondCall \/ DeviceWrite \/ Delivery \/ BusEvent \/ Boot

BSpec == BInit /\ [][BNext]_bvars

(* The periodic timer expires for ever and handlers that run go on. *)
BFairSpec == BSpec /\ WF_bvars(Timer) /\ WF_bvars(SecondCall) /\ WF_bvars(DeviceWrite)

-------------------------------------------------------------------------------
(* Properties. *)

(* The system uses the controller as BeerCtrl describes it, so whatever    *)
(* holds of BeerCtrl holds here.                                           *)
ControllerSpec == Spec

(* No reading divides by zero unless nothing was reported, for lack of a   *)
(* sensor or in MANUAL, until the clock has come around to within a second *)
(* of the last reading.                                                    *)
NoDivideByZero == [][DivideByZero => gap + Second - lag + Jitter > Wrap - Second]_bvars

(* A reading is used: the only step that takes the time anew. *)
NewReading == gap' = 0 /\ gap # 0 /\ b'.lasttime \in Seconds

(* dt is the true time since the last reading, to within a second, except  *)
(* for the first reading after boot and when the clock wrapped in between. *)
DtMeasured ==
    [][NewReading /\ b.lasttime \in Seconds =>
         LET elapsed == gap + Passed
             dt == b'.lasttime - b.lasttime
         IN  elapsed <= clock' => dt * Second \in elapsed - Second + 1 .. elapsed + Second - 1]_bvars

(* The integral moves with the error: a beer that is too cold raises it.   *)
Accumulates == /\ b'.lasterror > 0 => b'.integral >= b.integral
               /\ b'.lasterror < 0 => b'.integral <= b.integral

(* "integral calculation", beerctrl.c:138, for every reading but the first *)
(* (boot stores microseconds in lasttime, readings compare seconds with    *)
(* it): the clock wraps in microseconds, so its seconds jump back to zero  *)
(* every 71 minutes.                                                       *)
IntegralAfterWrap == [][NewReading /\ b.lasttime \in Seconds => Accumulates]_bvars

(* The beer does not stay warm: while a sensor measures it warmer than the *)
(* setpoint in AUTOMATIC, the compressor runs again and again, whatever    *)
(* the integral and the clock have been through before, unless the program *)
(* keeps restarting.                                                       *)
Warm == /\ b.ctrl = "AUTOMATIC" /\ wire = "ok" /\ Sensors # {}
        /\ scratch[FirstSensor] > b.temp
WarmBeerCooled == <>[]Warm /\ <>[][~Boot]_bvars => []<>Cooling
===============================================================================
