----------------------------------- MODULE Led -----------------------------------
(***************************************************************************)
(* The LED (led.c), its driver (pwm_rgb_led.c) and the calls of scripts    *)
(* (lua_ledlib.c).  A colour is the word of four bytes the LED is set to,  *)
(* most significant byte first.  Scripts give any number: the word of      *)
(* set_rgb may have any top byte, and hsv_to_rgb, whose saturation and     *)
(* value nobody checks, may make any word.  led_fade_to_hsv has no caller. *)
(***************************************************************************)
EXTENDS Integers, Sequences

CONSTANT Colours  \* words a script sets, or hsv_to_rgb makes of what it sets

Byte == 0..255

ASSUME LedAssumption == Colours \subseteq [1..4 -> Byte]

VARIABLE shown  \* the bytes the three PWM channels give: red, green, blue

LedInit == shown = <<0, 0, 0>>

\* Mutant of Bytes: the fields of the union are shifted, not cut.
BytesUncut(w) == <<256 * w[2] + w[3], w[2], w[1]>>

\* The union of led_set_color_rgb on a little-endian processor: its fields are the
\* three bytes above the lowest one, so red gets the green of the word, green its
\* red and blue its top byte.
Bytes(w) == <<w[3], w[2], w[1]>>

\* led_set_color_rgb and rgb_pwm_led_set_color: a PWM call that fails keeps the
\* channels behind it as they were.
SetColour(w) ==
  \E ok \in 0..3 : shown' = [i \in 1..3 |-> IF i <= ok THEN Bytes(w)[i] ELSE shown[i]]

\* lua_set_led_color_rgb and lua_set_led_color_hsv
LedCall == \E w \in Colours : SetColour(w)
================================================================================
