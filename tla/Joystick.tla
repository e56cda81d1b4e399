------------------------------- MODULE Joystick -------------------------------
(***************************************************************************)
(* hal/src/joystick.c as send_joy_vals of the controller uses it: y, in    *)
(* hundredths, of what the ADC reads, and whether the stick is at its      *)
(* centre.  The ends of the range are statics that grow with every reading *)
(* beyond them.  The same is kept of x in the code; the car uses no x, so  *)
(* that of x only the centre matters.                                      *)
(***************************************************************************)
EXTENDS Integers

CONSTANTS XReadings, YReadings   \* what the ADC yields: 12 bits (i2c_read_reg16)

ASSUME ReadingsAssumption == XReadings \subseteq 0..4095 /\ YReadings \subseteq 0..4095

VARIABLES up_max, down_max

joystickVars == <<up_max, down_max>>

THRESHOLD == 200
neutral_y == 828
neutral_x == 836

JoystickInit == up_max = 5 /\ down_max = 1620

JoystickTypeOK == up_max \in 0..5 /\ down_max \in 1620..4095

\* Inside the dead zone, where val_to_percent yields zero.
Centred(val, mid) == val \in mid - THRESHOLD .. mid + THRESHOLD

\* val_to_percent
Percent(val, mid, max, min) ==
    IF val > mid + THRESHOLD
    THEN ((val - (mid + THRESHOLD)) * 100) \div (max - (mid + THRESHOLD))
    ELSE IF val < mid - THRESHOLD
    THEN -(100 - ((val - min) * 100) \div (mid - THRESHOLD - min))
    ELSE 0

\* "adjust threshold if needed"
CalibrateNever(val) == UNCHANGED joystickVars          \* mutant: the ends stay
Calibrate(val) ==
    /\ up_max' = IF val < up_max THEN val ELSE up_max
    /\ down_max' = IF val > down_max THEN val ELSE down_max

\* joystick_get_y_val, with the ends it has just adjusted.
YPercent(val) == -Percent(val, neutral_y, down_max', up_max')
==============================================================================
