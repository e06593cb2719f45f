----------------------------- MODULE Backlight -----------------------------
(***************************************************************************)
(* The backlight that all displays share: every BACKLIGHT_CALLBACK_TIME_MS *)
(* the light is read and blended with the readings before it, in whole     *)
(* numbers, and the level follows with the square root of the light.       *)
(***************************************************************************)
EXTENDS Naturals

CONSTANTS
  Dark, Bright,   \* AMBIENT_LIGHT_DARK and AMBIENT_LIGHT_BRIGHT
  Readings,       \* what the converter may read
  Patience        \* callbacks that a steady light needs to be reached

ASSUME BacklightAssumption ==
  /\ Dark \in Nat /\ Bright \in Nat /\ Dark < Bright
  /\ Readings \subseteq Nat
  /\ Patience \in Nat

VARIABLES
  smoothed_adc,   \* 0 stands for no reading yet
  level,          \* of the PWM that drives the backlight
  raw_adc,        \* the last reading
  steady          \* callbacks since the reading changed, up to Patience

lightVars == <<smoothed_adc, level, raw_adc, steady>>

-----------------------------------------------------------------------------
LcdSetBacklight(percent) == IF percent > 100 THEN 100 ELSE percent

(* (uint8_t)(sqrtf(part / whole) * 100.0f), for part below whole. *)
RootPercent(part, whole) ==
  CHOOSE p \in 0 .. 100 : p * p * whole <= 10000 * part
                          /\ 10000 * part < (p + 1) * (p + 1) * whole

(* Mutant of Level: no minimum, and the difference wraps below Dark. *)
MutantNoMinimum(adc) ==
  LcdSetBacklight(IF adc >= Bright \/ adc < Dark THEN 255
                  ELSE RootPercent(adc - Dark, Bright - Dark))

(* The level for a blended reading. *)
Level(adc) ==
  LcdSetBacklight(CASE adc <= Dark -> 5
                    [] adc >= Bright -> 100
                    [] OTHER -> RootPercent(adc - Dark, Bright - Dark))

(* Mutant of Blend: each part is divided, and cut, on its own. *)
MutantCutsTwice(adc, reading) ==
  IF adc = 0 THEN reading ELSE (adc * 7) \div 8 + reading \div 8

Blend(adc, reading) == IF adc = 0 THEN reading ELSE (adc * 7 + reading) \div 8

BacklightTimerCallback(reading) ==
  /\ smoothed_adc' = Blend(smoothed_adc, reading)
  /\ level' = Level(smoothed_adc')
  /\ raw_adc' = reading
  /\ steady' = IF reading # raw_adc THEN 1
               ELSE IF steady < Patience THEN steady + 1 ELSE steady

(* lcd_init: nothing read, and the displays at 90 percent. *)
LightInit ==
  /\ smoothed_adc = 0
  /\ level = LcdSetBacklight(90)
  /\ raw_adc = 0
  /\ steady = 0

LightNext == \E reading \in Readings : BacklightTimerCallback(reading)

LightSpec == LightInit /\ [][LightNext]_lightVars

-----------------------------------------------------------------------------
(* Each callback moves the level towards the one for the light it reads,   *)
(* or leaves it: it neither overshoots nor turns back (clock.c:275-294).   *)
FollowsLight ==
  [][LET goal == Level(raw_adc')
     IN \/ level <= level' /\ level' <= goal
        \/ goal <= level' /\ level' <= level]_lightVars

(* In a steady light the blended reading comes to within the seven counts  *)
(* below it that the division cuts off (clock.c:279).                      *)
Settles ==
  steady = Patience => smoothed_adc <= raw_adc /\ raw_adc <= smoothed_adc + 7
=============================================================================
