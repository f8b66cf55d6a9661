------------------------------- MODULE Lights -------------------------------
(***************************************************************************)
(* liblight/lights.c: three lights share one LED.  Attention, notification *)
(* and battery each keep their last state, and every call decides anew,    *)
(* under g_lock, which of them the LED shows and how its files are written *)
(* for the chip at hand.  A call holds g_lock, so it is one action.        *)
(***************************************************************************)
EXTENDS Integers, Sequences

CONSTANTS Lit,          \* the light_state_t the framework sends
          Level,        \* the levels of the display and the buttons
          Device        \* the values of ro.oppo.device at hand

\* A colour has three channels and alpha, a byte each; times are in milliseconds.
LightState == [color : [1..3 -> 0..255], alpha : 0..255,
               flashMode : {"NONE", "TIMED", "HARDWARE"}, flashOnMS : Nat, flashOffMS : Nat]

ASSUME LightsAssumption == Lit \subseteq LightState /\ Level \subseteq 0..255

VARIABLES
  device,               \* the phone's ro.oppo.device
  opened,               \* the lights that have a device
  g_is_qpnp_device,
  g_notification, g_battery, g_attention,
  files,                \* what the files of the LED, the display and the buttons hold
  wishes,               \* ghost: the last request of each light
  crashed               \* the process has ended, by a division or by what it overwrote

lightVars == <<device, opened, g_is_qpnp_device, g_notification, g_battery, g_attention,
               files, wishes, crashed>>

Led   == {"notifications", "battery", "attention"}
Name  == Led \cup {"backlight", "buttons", "keyboard"}
Dark  == <<0, 0, 0>>
Unset == [color |-> Dark, alpha |-> 0, flashMode |-> "NONE", flashOnMS |-> 0, flashOffMS |-> 0]
QPNP_DUTY_STEPS == 50
MaxLut == 63                       \* "The maximum LUT size is 63 steps"

smaller(a, b) == IF a < b THEN a ELSE b

\* Everything is zeroed at the start, and so are the files.
LightsInit ==
  /\ device \in Device
  /\ opened = {} /\ g_is_qpnp_device = FALSE
  /\ g_notification = Unset /\ g_battery = Unset /\ g_attention = Unset
  /\ files = [rgb |-> Dark, blink |-> FALSE, freq |-> 0, pwm |-> 0,
              step |-> 0, duty |-> <<>>, lcd |-> 0, buttons |-> 0]
  /\ wishes = [l \in Led |-> Unset]
  /\ crashed = FALSE

is_qpnp_device == device \in {"find7s", "n3"}
is_lit(state)  == state.color # Dark
rgb_to_brightness(c) == (77 * c[1] + 150 * c[2] + 29 * c[3]) \div 256

\* Only LIGHT_FLASH_TIMED flashes, and only with both times.
OnMS(state)  == IF state.flashMode = "TIMED" THEN state.flashOnMS ELSE 0
OffMS(state) == IF state.flashMode = "TIMED" THEN state.flashOffMS ELSE 0
Flashes(state) == OnMS(state) > 0 /\ OffMS(state) > 0
TotalMS(state) == OnMS(state) + OffMS(state)

\* The files after the LED's own blinker is set; freq and pwm stay when it is off.
set_speaker_light_locked_shineled(state) ==
  LET pwm == (OnMS(state) * 255) \div TotalMS(state)
      lit == [files EXCEPT !.rgb = state.color, !.blink = Flashes(state)]
  IN IF Flashes(state)
     THEN [lit EXCEPT !.freq = TotalMS(state) \div 50,
                      !.pwm = IF pwm \in 1..15 THEN 16 ELSE pwm]
     ELSE lit

\* The LUT of the duty cycle: up to full over the first half of the steps the
\* light is on, down to 0 over the second, and dark for the rest of the period.
Duty(onSteps) ==
  LET half == onSteps \div 2
      last == IF onSteps > QPNP_DUTY_STEPS - 2 THEN onSteps ELSE QPNP_DUTY_STEPS - 2
  IN [i \in 1..(last + 1) |->
        LET n == i - 1
        IN IF n = 0 \/ n > onSteps THEN 0
           ELSE IF n <= half THEN smaller((100 * n) \div half, 100)
           ELSE smaller((100 * (onSteps - n)) \div half, 100)]

\* The second ramp of a light that is on for one step divides by zero too.
Divides(state) ==
  LET stepMS == TotalMS(state) \div QPNP_DUTY_STEPS
  IN Flashes(state) /\ (IF stepMS = 0 THEN TRUE ELSE OnMS(state) \div stepMS = 1)

\* A table of more steps than the chip takes may not fit into dutystr either:
\* what lies behind it is then overwritten.
TooLong(state) ==
  Flashes(state) /\ Len(Duty(OnMS(state) \div (TotalMS(state) \div QPNP_DUTY_STEPS))) > MaxLut

\* The user's brightness comes with the notification, whichever light is shown.
Brightness(notification) == IF notification.alpha = 0 THEN 255 ELSE notification.alpha

set_speaker_light_locked_qpnp(state, notification) ==
  LET stepMS == TotalMS(state) \div QPNP_DUTY_STEPS
  IN IF Flashes(state)
     THEN [files EXCEPT !.rgb[1] = 0, !.duty = Duty(OnMS(state) \div stepMS),
                        !.step = stepMS, !.blink = TRUE]
     ELSE [files EXCEPT !.blink = FALSE,
                        !.rgb[1] = IF is_lit(state) THEN Brightness(notification) ELSE 0]

\* Mutant: the battery goes before the notification.
BatteryFirst(attention, battery, notification) ==
  IF is_lit(attention) THEN attention
  ELSE IF is_lit(battery) THEN battery ELSE notification

\* Which of the three the LED shows.
Shown(attention, battery, notification) ==
  IF is_lit(attention) THEN attention
  ELSE IF is_lit(battery) /\ is_lit(notification) THEN notification
  ELSE IF is_lit(battery) THEN battery
  ELSE notification

handle_speaker_battery_locked(attention, battery, notification) ==
  LET state == Shown(attention, battery, notification)
  IN /\ crashed' \in IF ~g_is_qpnp_device THEN {FALSE}
                    ELSE IF Divides(state) THEN {TRUE}
                    ELSE IF TooLong(state) THEN BOOLEAN ELSE {FALSE}
     /\ files' = IF crashed' THEN files
                 ELSE IF g_is_qpnp_device THEN set_speaker_light_locked_qpnp(state, notification)
                 ELSE set_speaker_light_locked_shineled(state)

set_light_battery(state) ==
  /\ g_battery' = state
  /\ handle_speaker_battery_locked(g_attention, state, g_notification)
  /\ UNCHANGED <<g_notification, g_attention>>

set_light_notifications(state) ==
  /\ g_notification' = state
  /\ handle_speaker_battery_locked(g_attention, g_battery, state)
  /\ UNCHANGED <<g_battery, g_attention>>

\* A pulse without an end is steady, and a request not to flash ends the pulse.
Attention(state) ==
  IF state.flashMode = "HARDWARE" /\ state.flashOnMS > 0 /\ state.flashOffMS = 0
  THEN [state EXCEPT !.flashMode = "NONE"]
  ELSE IF state.flashMode = "NONE" THEN [state EXCEPT !.color = Dark]
  ELSE state

set_light_attention(state) ==
  /\ g_attention' = Attention(state)
  /\ handle_speaker_battery_locked(Attention(state), g_battery, g_notification)
  /\ UNCHANGED <<g_notification, g_battery>>

\* set_light of the LED's lights, through the device that open_lights returned.
SetLed(name, state) ==
  /\ name \in opened /\ ~crashed
  /\ CASE name = "battery" -> set_light_battery(state)
       [] name = "notifications" -> set_light_notifications(state)
       [] name = "attention" -> set_light_attention(state)
  /\ wishes' = [wishes EXCEPT ![name] = state]
  /\ UNCHANGED <<device, opened, g_is_qpnp_device>>

set_light_backlight(color) ==
  /\ "backlight" \in opened /\ ~crashed
  /\ files' = [files EXCEPT !.lcd = rgb_to_brightness(color)]
  /\ UNCHANGED <<device, opened, g_is_qpnp_device, g_notification, g_battery, g_attention,
                 wishes, crashed>>

set_light_touchkeys(color) ==
  /\ "buttons" \in opened /\ ~crashed
  /\ files' = [files EXCEPT !.buttons = rgb_to_brightness(color)]
  /\ UNCHANGED <<device, opened, g_is_qpnp_device, g_notification, g_battery, g_attention,
                 wishes, crashed>>

\* An unknown name is refused before anything is done.
open_lights(name) ==
  /\ name \in Led \cup {"backlight", "buttons"} /\ ~crashed
  /\ opened' = opened \cup {name}
  /\ g_is_qpnp_device' = is_qpnp_device
  /\ UNCHANGED <<device, g_notification, g_battery, g_attention, files, wishes, crashed>>

\* The device is freed; what its light shows stays.
close_lights(name) ==
  /\ name \in opened /\ ~crashed
  /\ opened' = opened \ {name}
  /\ UNCHANGED <<device, g_is_qpnp_device, g_notification, g_battery, g_attention, files,
                 wishes, crashed>>

LightsNext == \/ \E name \in Name : open_lights(name) \/ close_lights(name)
        \/ \E name \in Led, state \in Lit : SetLed(name, state)
        \/ \E l \in Level : set_light_backlight(<<l, l, l>>) \/ set_light_touchkeys(<<l, l, l>>)

LightsSpec == LightsInit /\ [][LightsNext]_lightVars

-----------------------------------------------------------------------------
LightsTypeOK ==
  /\ device \in Device /\ opened \subseteq Name
  /\ \A s \in {g_notification, g_battery, g_attention} : DOMAIN s = DOMAIN Unset
  /\ files.blink \in BOOLEAN /\ files.pwm \in 0..255 /\ files.lcd \in 0..255
  /\ files.buttons \in 0..255 /\ \A c \in 1..3 : files.rgb[c] \in 0..255

\* What the three lights ask for, by rank: a request not to flash withdraws the
\* attention light.
Wants(l)  == is_lit(wishes[l]) /\ (l = "attention" => wishes[l].flashMode # "NONE")
Winner    == IF Wants("attention") THEN wishes["attention"]
             ELSE IF Wants("notifications") THEN wishes["notifications"]
             ELSE IF Wants("battery") THEN wishes["battery"]
             ELSE Unset

(* Whatever the three lights have asked for, in any order and through any  *)
(* opening and closing of their devices, the LED shows the request of      *)
(* highest rank: its colour (or, where there is one colour, the brightness *)
(* the user gave the notification), blinking only if it blinks, and dark   *)
(* when no one asks.                                                       *)
ShowsWinner ==
  LET alpha == wishes["notifications"].alpha
  IN ~crashed =>
     /\ files.blink = Flashes(Winner)
     /\ IF ~is_qpnp_device THEN files.rgb = Winner.color
        ELSE files.rgb[1] = IF ~is_lit(Winner) \/ Flashes(Winner) THEN 0
                            ELSE IF alpha = 0 THEN 255 ELSE alpha

\* A period of 200 ms or more, of which the light is not on for just one step.
ChipHolds(s) == Flashes(s) => /\ TotalMS(s) >= 200
                              /\ OnMS(s) \div (TotalMS(s) \div QPNP_DUTY_STEPS) # 1

(* Whatever periods the lights have asked for, only a request of highest   *)
(* rank that blinks too fast, or for one step only, divides by zero or     *)
(* runs past the table's text.  While a request of a period the chip holds *)
(* is shown, the LED has a table of steps it takes, its ramps within       *)
(* 0..100, although requests of other periods came before.                 *)
DutyFits ==
  /\ crashed => is_qpnp_device /\ ~ChipHolds(Winner)
  /\ ~crashed /\ is_qpnp_device /\ Flashes(Winner) /\ ChipHolds(Winner) =>
       Len(files.duty) <= MaxLut /\ \A i \in 1..Len(files.duty) : files.duty[i] \in 0..100

\* Both: the LED shows what the lights ask for, and its blinking fits the chip.
LedShows == ShowsWinner /\ DutyFits
=============================================================================
