-------------------------------- MODULE Display --------------------------------
(***************************************************************************)
(* What stands on the screen: the events of user/display.c, drawn by       *)
(* OLED_Print() of driver/i2c_oled.c, and the two texts of user/mqtt.c.    *)
(* Nothing is wiped before it is drawn over, so a text must not reach into *)
(* the next one, and a short one leaves the end of a longer one.           *)
(*                                                                         *)
(* The screen is rows of characters, pages 0 and 1 together one row of     *)
(* large ones.  A mark is the place of a character in a text of a field    *)
(* and the length of that text; what has no mark is blank.                 *)
(***************************************************************************)
EXTENDS Integers

CONSTANTS
    KpLengths,      \* of "%02d"
    TempLengths     \* of temp_to_string(): sign, whole part, point, two digits

ASSUME LengthAssumption ==
    /\ KpLengths \subseteq 2 .. 11
    /\ TempLengths \subseteq 5 .. 9     \* an int16_t of sixteenths: +0.00 to --2048.00

VARIABLES
    screen,     \* row and column to mark, of what has been drawn on
    shown,      \* history: length of the last text of each field, 0 none
    spilled     \* history: a text did not fit its row

dvars == <<screen, shown, spilled>>

-------------------------------------------------------------------------------
Position(row, column) == [row |-> row, column |-> column]
(* x > 126 starts a new page: a character at 126 is the last one of a row, *)
(* where the panel has room for a third of it.                             *)
Columns == 0 .. 21
MAX_SMALL_FONTS == 21

(* Mutant: the label follows the longest setpoint with two digits. *)
Place_tight ==
    [mode |-> Position(7, 0), fridge |-> Position(7, 1), tempLabel |-> Position(7, 3), temp |-> Position(7, 5),
     kpLabel |-> Position(7, 11), kp |-> Position(7, 14), errLabel |-> Position(3, 0), err |-> Position(3, 5),
     outLabel |-> Position(4, 0), out |-> Position(4, 5), reading |-> Position(0, 0), wifi |-> Position(6, 0), mqtt |-> Position(6, 5)]
Place ==
    [mode |-> Position(7, 0), fridge |-> Position(7, 1), tempLabel |-> Position(7, 3), temp |-> Position(7, 5),
     kpLabel |-> Position(7, 14), kp |-> Position(7, 17), errLabel |-> Position(3, 0), err |-> Position(3, 5),
     outLabel |-> Position(4, 0), out |-> Position(4, 5), reading |-> Position(0, 0), wifi |-> Position(6, 0), mqtt |-> Position(6, 5)]

Field == DOMAIN Place

Cell(field, number) == <<Place[field].row, Place[field].column + number - 1>>

(* A text of some length; what leaves the row is not followed.             *)
OLED_Print(scr, field, length) ==
    LET drawn == {Cell(field, i) : i \in {n \in 1 .. length : Cell(field, n)[2] \in Columns}}
    IN  [cell \in drawn \cup DOMAIN scr |->
            IF cell \in drawn
            THEN [field |-> field, length |-> length, number |-> cell[2] - Place[field].column + 1]
            ELSE scr[cell]]

FitsRow(field, length) == Cell(field, length)[2] < MAX_SMALL_FONTS

Show(field, length) ==
    /\ screen' = OLED_Print(screen, field, length)
    /\ shown' = [shown EXCEPT ![field] = length]
    /\ spilled' = (spilled \/ ~FitsRow(field, length))

ShowLabelled(label, labelLength, field, length) ==
    /\ screen' = OLED_Print(OLED_Print(screen, label, labelLength), field, length)
    /\ shown' = [shown EXCEPT ![label] = labelLength, ![field] = length]
    /\ spilled' = (spilled \/ ~FitsRow(field, length))

-------------------------------------------------------------------------------
(* OLED_Init() clears the screen and BCTRL_Init() sends the first events. *)
Cleared == <<>>
DInit == \E kp \in KpLengths, temp \in TempLengths :
            /\ FitsRow("kp", kp)
            /\ screen = LET s1 == OLED_Print(OLED_Print(Cleared, "kpLabel", 3), "kp", kp)
                            s2 == OLED_Print(OLED_Print(s1, "tempLabel", 2), "temp", temp)
                        IN  OLED_Print(OLED_Print(s2, "mode", 1), "fridge", 1)
            /\ shown = [f \in Field |-> CASE f \in {"mode", "fridge"} -> 1
                                          [] f = "kpLabel" -> 3 [] f = "kp" -> kp
                                          [] f = "tempLabel" -> 2 [] f = "temp" -> temp
                                          [] OTHER -> 0]
            /\ spilled = FALSE

(* DISPLAY_BeerCtrlEvent(), a case each. *)
EventFridge == Show("fridge", 1)
EventKp == \E n \in KpLengths : ShowLabelled("kpLabel", 3, "kp", n)
EventTemp == \E n \in TempLengths : ShowLabelled("tempLabel", 2, "temp", n)
EventCtrl == Show("mode", 1)
EventErr == ShowLabelled("errLabel", 4, "err", 5)   \* "%05d"
EventOut == ShowLabelled("outLabel", 4, "out", 5)
EventReading == \E n \in TempLengths : Show("reading", n)

WifiConnected == Show("wifi", 4)
MqttConnected == Show("mqtt", 4)

DNext == \/ EventFridge \/ EventKp \/ EventTemp \/ EventCtrl
         \/ EventErr \/ EventOut \/ EventReading
         \/ WifiConnected \/ MqttConnected
DSpec == DInit /\ [][DNext]_dvars

-------------------------------------------------------------------------------
(* The last text of each field can be read, whatever the others show; what *)
(* is left of a longer one stands behind it.  (The fifth character of a KP *)
(* does not fit the row, a sixth is on the next page: what the panel shows *)
(* then is not known.)                                                     *)
FieldsShown ==
    ~spilled => \A f \in Field : \A i \in 1 .. shown[f] :
        screen[Cell(f, i)] = [field |-> f, length |-> shown[f], number |-> i]
===============================================================================
