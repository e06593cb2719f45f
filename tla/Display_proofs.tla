--------------------------- MODULE Display_proofs ---------------------------
(***************************************************************************)
(* Proofs about Display for every sequence of local times and every set of *)
(* errors, and about Backlight for every sequence of readings.             *)
(***************************************************************************)
EXTENDS Integers, Display, Backlight, WellFoundedInduction, TLAPS

(* What a display holds when it shows one character and nothing else. *)
Only(char) == [glyphs |-> {char}, messages |-> {}]

(* current_lcd_digits says what was drawn, and it was drawn on a cleared   *)
(* display; before the first tick nothing is trusted.                      *)
DrawnInv ==
  /\ place = "start" => first_clock_tick
  /\ place = "run" /\ ~first_clock_tick =>
       \A ii \in Lcds : /\ current_lcd_digits[ii] = Digits(shown)[ii]
                        /\ screens[ii] = Only(current_lcd_digits[ii])

(* Clearing a display and drawing on it leaves the one character. *)
LEMMA RedrawnIsOnly ==
  ASSUME NEW screen, NEW char
  PROVE  Redraw(screen, char) = Only(char)
BY DEF Redraw, LcdPrintClockDigit, Blank, Only

(* A tick draws what differs and so makes every display right. *)
LEMMA TickDraws ==
  ASSUME DrawnInv, NEW n, NEW ntp, Tick(n, ntp)
  PROVE  \A ii \in Lcds : /\ current_lcd_digits'[ii] = Digits(shown)'[ii]
                          /\ screens'[ii] = Only(current_lcd_digits'[ii])
<1> TAKE ii \in Lcds
<1>1. shown' = n /\ current_lcd_digits' = Digits(n) /\ place = "run"
  BY DEF Tick
<1>2. Digits(shown)' = Digits(n)
  BY <1>1 DEF Digits
<1>3. CASE Changed(ii, n)
  <2>1. screens'[ii] = Redraw(screens[ii], Digits(n)[ii])
    BY <1>3 DEF Tick
  <2>2. QED
    BY <1>1, <1>2, <2>1, RedrawnIsOnly
<1>4. CASE ~Changed(ii, n)
  <2>1. ~first_clock_tick /\ current_lcd_digits[ii] = Digits(n)[ii]
    BY <1>4 DEF Changed
  <2>2. screens'[ii] = screens[ii]
    BY <1>4 DEF Tick
  <2>3. screens[ii] = Only(current_lcd_digits[ii])
    BY <1>1, <2>1 DEF DrawnInv
  <2>4. QED
    BY <1>1, <1>2, <2>1, <2>2, <2>3
<1>5. QED
  BY <1>3, <1>4

(* Every step keeps what is drawn: one case per action. *)
LEMMA DrawnNext == DrawnInv /\ [Next]_vars => DrawnInv'
<1> SUFFICES ASSUME DrawnInv, [Next]_vars
             PROVE  DrawnInv'
  OBVIOUS
<1>1. ASSUME NEW ntp, NEW wifi, ClockInit(ntp, wifi)
      PROVE  DrawnInv'
  BY <1>1 DEF ClockInit, DrawnInv
<1>2. CASE FlashCheckFails \/ SystemReboot \/ PowerCut
  BY <1>2 DEF FlashCheckFails, SystemReboot, PowerCut, DrawnInv
<1>3. CASE ClockStart
  BY <1>3 DEF ClockStart, DrawnInv
<1>4. ASSUME NEW ntp, NEW wifi, FatalReset(ntp, wifi)
      PROVE  DrawnInv'
  BY <1>4 DEF FatalReset, DrawnInv
<1>5. ASSUME NEW n, SetTimeOfDay(n)
      PROVE  DrawnInv'
  BY <1>5 DEF SetTimeOfDay, DrawnInv, Digits
<1>6. ASSUME NEW n, NEW ntp, Tick(n, ntp)
      PROVE  DrawnInv'
  <2>1. place' = "run"
    BY <1>6 DEF Tick
  <2>2. QED
    BY <1>6, <2>1, TickDraws DEF DrawnInv
<1>7. CASE UNCHANGED vars
  BY <1>7 DEF vars, DrawnInv, Digits
<1>8. QED
  BY <1>1, <1>2, <1>3, <1>4, <1>5, <1>6, <1>7 DEF Next

(* After every tick each display shows its character of that tick's local  *)
(* time and nothing else, although clock_task redraws only what changes.   *)
THEOREM DigitsCorrect == Spec => []DigitsShown
<1>1. Init => DrawnInv
  BY DEF Init, DrawnInv
<1>2. DrawnInv => DigitsShown
  BY DEF DrawnInv, DigitsShown, Only
<1>3. QED
  BY <1>1, <1>2, DrawnNext, PTL DEF Spec
-----------------------------------------------------------------------------
(* The icon of the remembered error stands from clock_init on. *)
IconInv ==
  place \in {"start", "run"} /\ watchdog_reset_error # "WATCHDOG_OK"
    => icons.watchdog = watchdog_reset_error

(* Drawing the icons puts up the error, if there is one to put up. *)
LEMMA IconDrawn ==
  ASSUME NEW on, NEW watchdog, NEW ntp, NEW wifi, watchdog # "WATCHDOG_OK"
  PROVE  LcdUpdateIcons(on, watchdog, ntp, wifi).watchdog = watchdog
BY DEF LcdUpdateIcons

(* Every step keeps the icon: one case per action. *)
LEMMA IconNext == IconInv /\ [Next]_vars => IconInv'
<1> SUFFICES ASSUME IconInv, [Next]_vars
             PROVE  IconInv'
  OBVIOUS
<1>1. ASSUME NEW ntp, NEW wifi, ClockInit(ntp, wifi)
      PROVE  IconInv'
  <2>1. CASE place = "off"
    BY <1>1, <2>1 DEF ClockInit, IconInv
  <2>2. CASE place # "off"
    BY <1>1, <2>2, IconDrawn DEF ClockInit, IconInv
  <2>3. QED
    BY <2>1, <2>2
<1>2. CASE FlashCheckFails \/ SystemReboot \/ PowerCut
  BY <1>2 DEF FlashCheckFails, SystemReboot, PowerCut, IconInv
<1>3. CASE ClockStart
  BY <1>3, IconDrawn DEF ClockStart, IconInv
<1>4. ASSUME NEW ntp, NEW wifi, FatalReset(ntp, wifi)
      PROVE  IconInv'
  BY <1>4 DEF FatalReset, IconInv
<1>5. ASSUME NEW n, SetTimeOfDay(n)
      PROVE  IconInv'
  BY <1>5 DEF SetTimeOfDay, IconInv
<1>6. ASSUME NEW n, NEW ntp, Tick(n, ntp)
      PROVE  IconInv'
  <2> SUFFICES ASSUME watchdog_reset_error' # "WATCHDOG_OK"
               PROVE  icons'.watchdog = watchdog_reset_error'
    BY DEF IconInv
  <2>1. icons' = IconsAfter(n, watchdog_reset_error', ntp)
    BY <1>6 DEF Tick
  <2>2. CASE \E ii \in Lcds : Changed(ii, n)
    BY <2>1, <2>2, IconDrawn DEF IconsAfter
  <2>3. CASE ~\E ii \in Lcds : Changed(ii, n)
    <3>1. icons' = icons
      BY <2>1, <2>3 DEF IconsAfter
    <3>2. place = "run" /\ watchdog_reset_error' = watchdog_reset_error
      BY <1>6 DEF Tick
    <3>3. QED
      BY <3>1, <3>2 DEF IconInv
  <2>4. QED
    BY <2>2, <2>3
<1>7. CASE UNCHANGED vars
  BY <1>7 DEF vars, IconInv
<1>8. QED
  BY <1>1, <1>2, <1>3, <1>4, <1>5, <1>6, <1>7 DEF Next

(* The icon of the reason for the last reset stands on the first display   *)
(* for as long as the clock remembers that reason.                         *)
THEOREM IconCorrect == Spec => []WatchdogShown
<1>1. Init => IconInv
  BY DEF Init, IconInv
<1>2. IconInv => WatchdogShown
  BY DEF IconInv, WatchdogShown
<1>3. QED
  BY <1>1, <1>2, IconNext, PTL DEF Spec
-----------------------------------------------------------------------------
(* A set of natural numbers has a least one.                               *)
LEMMA LeastNumber ==
  ASSUME NEW T \in SUBSET Nat, T # {}
  PROVE  \E n \in T : \A k \in T : n <= k
<1>1. IsWellFoundedOn(OpToRel(<, Nat), Nat)
  BY NatLessThanWellFounded
<1>2. PICK n \in T : \A k \in T : ~ (<<k, n>> \in OpToRel(<, Nat))
  BY <1>1, WFMin
<1>3. \A k \in T : ~(k < n)
  BY <1>2 DEF OpToRel
<1>4. QED
  BY <1>3

(* Squares, and their multiples, grow with the number.                     *)
LEMMA SquareGrows ==
  ASSUME NEW a \in Nat, NEW b \in Nat, a <= b, NEW w \in Nat
  PROVE  a * a \in Nat /\ b * b \in Nat /\ a * a <= b * b /\ a * a * w <= b * b * w
<1>1. a * a \in Nat /\ b * b \in Nat /\ a * a <= b * b
  OBVIOUS
<1> DEFINE s == a * a
           t == b * b
<1>2. s \in Nat /\ t \in Nat /\ s <= t
  BY <1>1
<1> HIDE DEF s, t
<1>3. s * w <= t * w
  BY <1>2
<1>4. QED
  BY <1>1, <1>3 DEF s, t

(* For a part below the whole there is a percentage whose square is the    *)
(* last one not above the part: RootPercent chooses from something.        *)
LEMMA RootExists ==
  ASSUME NEW part \in Nat, NEW whole \in Nat, part < whole
  PROVE  LET p == RootPercent(part, whole)
         IN /\ p \in 0 .. 100
            /\ p * p * whole <= 10000 * part
            /\ 10000 * part < (p + 1) * (p + 1) * whole
<1> DEFINE T == {p \in Nat : 10000 * part < (p + 1) * (p + 1) * whole}
<1>1. T \in SUBSET Nat /\ 99 \in T
  OBVIOUS
<1>2. PICK n \in T : \A k \in T : n <= k
  <2> HIDE DEF T
  <2>1. T \in SUBSET Nat /\ T # {}
    BY <1>1
  <2>2. QED
    BY <2>1, LeastNumber
<1>3. n \in Nat /\ n <= 99 /\ 10000 * part < (n + 1) * (n + 1) * whole
  BY <1>1, <1>2
<1>4. n * n * whole <= 10000 * part
  <2>1. CASE n = 0
    BY <2>1
  <2>2. CASE n # 0
    <3>1. n - 1 \in Nat /\ n - 1 \notin T /\ n - 1 + 1 = n
      BY <1>2, <1>3, <2>2
    <3>2. ~(10000 * part < (n - 1 + 1) * (n - 1 + 1) * whole)
      BY <3>1
    <3>3. ~(10000 * part < n * n * whole)
      BY <3>1, <3>2
    <3>4. n * n * whole \in Int /\ 10000 * part \in Int
      BY <1>3
    <3>5. QED
      BY <3>3, <3>4
  <2>3. QED
    BY <2>1, <2>2
<1> DEFINE Fits(p) == /\ p * p * whole <= 10000 * part
                      /\ 10000 * part < (p + 1) * (p + 1) * whole
           root == CHOOSE p \in 0 .. 100 : Fits(p)
<1>5. \E p \in 0 .. 100 : Fits(p)
  BY <1>3, <1>4
<1>6. RootPercent(part, whole) = root
  BY DEF RootPercent
<1>7. root \in 0 .. 100 /\ Fits(root)
  <2> HIDE DEF Fits
  <2> QED
    BY <1>5
<1>8. QED
  BY <1>6, <1>7

(* The root grows with the part.                                           *)
LEMMA RootGrows ==
  ASSUME NEW whole \in Nat, NEW a \in Nat, NEW b \in Nat, a <= b, b < whole
  PROVE  RootPercent(a, whole) <= RootPercent(b, whole)
<1> DEFINE p == RootPercent(a, whole)
           q == RootPercent(b, whole)
<1>1. p \in 0 .. 100 /\ p * p * whole <= 10000 * a
  BY RootExists
<1>2. q \in 0 .. 100 /\ 10000 * b < (q + 1) * (q + 1) * whole
  BY RootExists
<1> HIDE DEF p, q
<1>3. ASSUME q + 1 <= p PROVE FALSE
  <2> DEFINE s == (q + 1) * (q + 1) * whole
             t == p * p * whole
  <2>1. s <= t
    BY <1>1, <1>2, <1>3, SquareGrows
  <2>2. s \in Int /\ t \in Int
    BY <1>1, <1>2
  <2>3. t <= 10000 * a /\ 10000 * b < s
    BY <1>1, <1>2
  <2> HIDE DEF s, t
  <2>4. QED
    BY <2>1, <2>2, <2>3
<1>4. QED
  BY <1>1, <1>2, <1>3 DEF p, q

(* The level grows with the light.  Between Dark and Bright the root must  *)
(* not fall below the minimum of 5 percent: at the first count above Dark  *)
(* it is 100 / sqrt(Bright - Dark), at least 5 up to a difference of 400.  *)
(* The code's is 320.                                                      *)
LEMMA LevelGrows ==
  ASSUME Bright - Dark <= 400, NEW a \in Nat, NEW b \in Nat, a <= b
  PROVE  Level(a) \in 0 .. 100 /\ Level(b) \in 0 .. 100 /\ Level(a) <= Level(b)
<1> DEFINE W == Bright - Dark
           Root(n) == RootPercent(n - Dark, W)
<1>1. Dark \in Nat /\ Bright \in Nat /\ W \in 1 .. 400
  BY BacklightAssumption
<1>2. ASSUME NEW n \in Nat, Dark < n, n < Bright
      PROVE  /\ Root(n) \in 5 .. 100
             /\ \A k \in Nat : Dark < k /\ k <= n => Root(k) <= Root(n)
  <2>1. n - Dark \in Nat /\ W \in Nat /\ n - Dark < W
    BY <1>1, <1>2
  <2> DEFINE p == RootPercent(n - Dark, W)
  <2>2. /\ p \in 0 .. 100
        /\ 10000 * (n - Dark) < (p + 1) * (p + 1) * W
    BY <2>1, RootExists
  <2>3. p >= 5
    <3> SUFFICES ASSUME p <= 4 PROVE FALSE
      BY <2>2
    <3>1. (p + 1) * (p + 1) * W <= 5 * 5 * W
      <4>1. p + 1 \in Nat /\ 5 \in Nat /\ p + 1 <= 5
        BY <2>2
      <4> HIDE DEF p
      <4>2. QED
        BY <2>1, <4>1, SquareGrows
    <3>2. 10000 * (n - Dark) >= 10000
      BY <1>1, <1>2
    <3> DEFINE s == (p + 1) * (p + 1) * W
    <3>3. s \in Int
      BY <2>1, <2>2
    <3>4. s <= 5 * 5 * W /\ 10000 * (n - Dark) < s
      BY <2>2, <3>1
    <3> HIDE DEF s, p, W
    <3>5. QED
      BY <1>1, <3>2, <3>3, <3>4
  <2>4. ASSUME NEW k \in Nat, Dark < k, k <= n PROVE Root(k) <= Root(n)
    <3>1. k - Dark \in Nat /\ k - Dark <= n - Dark
      BY <1>1, <1>2, <2>4
    <3> HIDE DEF W
    <3>2. QED
      BY <2>1, <3>1, RootGrows
  <2>5. QED
    BY <2>2, <2>3, <2>4
<1>3. \A n \in Nat : Level(n) = IF n <= Dark THEN 5 ELSE IF n >= Bright THEN 100 ELSE Root(n)
  <2>1. TAKE n \in Nat
  <2>2. CASE n <= Dark
    BY <1>1, <2>2 DEF Level, LcdSetBacklight
  <2>3. CASE n >= Bright
    BY <1>1, <2>3 DEF Level, LcdSetBacklight
  <2>4. CASE ~(n <= Dark) /\ ~(n >= Bright)
    <3>1. Root(n) \in 5 .. 100
      BY <1>1, <1>2, <2>4
    <3>2. QED
      BY <2>4, <3>1 DEF Level, LcdSetBacklight
  <2>5. QED
    BY <2>2, <2>3, <2>4
<1> HIDE DEF Root, W
<1>4. \A n \in Nat : ~(n <= Dark) /\ ~(n >= Bright)
         => /\ Root(n) \in 5 .. 100
            /\ \A k \in Nat : Dark < k /\ k <= n => Root(k) <= Root(n)
  BY <1>1, <1>2
<1>5. QED
  BY <1>1, <1>3, <1>4

(* A blend lies between the old value and the reading, or is the first     *)
(* reading.                                                                *)
LEMMA BlendBetween ==
  ASSUME NEW adc \in Nat, NEW reading \in Nat
  PROVE  LET b == Blend(adc, reading)
         IN /\ b \in Nat
            /\ adc = 0 => b = reading
            /\ adc # 0 => \/ adc <= b /\ b <= reading
                          \/ reading <= b /\ b <= adc
BY DEF Blend

(* The level is that of the blend, once something has been read.           *)
LightInv ==
  /\ smoothed_adc \in Nat /\ raw_adc \in Nat /\ level \in 0 .. 100
  /\ smoothed_adc # 0 => level = Level(smoothed_adc)

(* A callback keeps the level that of the blend, and moves it towards the  *)
(* goal.                                                                   *)
LEMMA LightStep ==
  ASSUME Bright - Dark <= 400, LightInv, [LightNext]_lightVars
  PROVE  /\ LightInv'
         /\ \/ UNCHANGED lightVars
            \/ level <= level' /\ level' <= Level(raw_adc')
            \/ Level(raw_adc') <= level' /\ level' <= level
<1>1. CASE UNCHANGED lightVars
  BY <1>1 DEF lightVars, LightInv
<1>2. ASSUME NEW reading \in Readings, BacklightTimerCallback(reading)
      PROVE  /\ LightInv'
             /\ \/ level <= level' /\ level' <= Level(raw_adc')
                \/ Level(raw_adc') <= level' /\ level' <= level
  <2> DEFINE b == Blend(smoothed_adc, reading)
  <2>1. /\ smoothed_adc' = b /\ level' = Level(b) /\ raw_adc' = reading
        /\ reading \in Nat /\ smoothed_adc \in Nat /\ level \in 0 .. 100
    BY <1>2, BacklightAssumption DEF BacklightTimerCallback, LightInv
  <2>2. /\ b \in Nat
        /\ smoothed_adc = 0 => b = reading
        /\ smoothed_adc # 0 => \/ smoothed_adc <= b /\ b <= reading
                               \/ reading <= b /\ b <= smoothed_adc
    BY <2>1, BlendBetween
  <2> HIDE DEF b
  <2>3. \A m, n \in Nat : m <= n => /\ Level(m) \in 0 .. 100 /\ Level(n) \in 0 .. 100
                                    /\ Level(m) <= Level(n)
    BY LevelGrows
  <2>4. Level(b) \in 0 .. 100 /\ Level(reading) \in 0 .. 100
    BY <2>1, <2>2, <2>3
  <2>5. LightInv'
    BY <2>1, <2>2, <2>4 DEF LightInv
  <2>6. CASE smoothed_adc = 0
    BY <2>1, <2>2, <2>4, <2>5, <2>6
  <2>7. CASE smoothed_adc # 0
    <3>1. level = Level(smoothed_adc)
      BY <2>7 DEF LightInv
    <3>2. \/ Level(smoothed_adc) <= Level(b) /\ Level(b) <= Level(reading)
          \/ Level(reading) <= Level(b) /\ Level(b) <= Level(smoothed_adc)
      BY <2>1, <2>2, <2>3, <2>7
    <3>3. QED
      BY <2>1, <2>5, <3>1, <3>2
  <2>8. QED
    BY <2>6, <2>7
<1>3. QED
  BY <1>1, <1>2 DEF LightNext

(* The invariant holds before the first reading.                           *)
LEMMA LightStart == LightInit => LightInv
BY DEF LightInit, LightInv, LcdSetBacklight

(* FollowsLight, for every sequence of readings: backlight_timer_callback  *)
(* moves the level towards the one for the light it reads, monotonically   *)
(* and without overshoot, as long as Bright - Dark is at most 400 (the     *)
(* code's is 320).                                                         *)
THEOREM LevelFollows ==
  ASSUME Bright - Dark <= 400
  PROVE  LightSpec => FollowsLight
<1>1. LightInv /\ [LightNext]_lightVars
        => LightInv' /\ [LET goal == Level(raw_adc')
                         IN \/ level <= level' /\ level' <= goal
                            \/ goal <= level' /\ level' <= level]_lightVars
  BY LightStep
<1>2. QED
  BY <1>1, LightStart, PTL DEF LightSpec, FollowsLight

-----------------------------------------------------------------------------
(* What is left of a distance after a callback, from above and from below. *)
Down(n) == n - ((n + 7) \div 8)
Up(n) == n - (n \div 8)

(* A blend takes an eighth from the distance, rounded up when it falls and *)
(* down when it rises.                                                     *)
LEMMA BlendApproaches ==
  ASSUME NEW adc \in Nat \ {0}, NEW reading \in Nat
  PROVE  LET b == Blend(adc, reading)
         IN /\ adc >= reading => b >= reading /\ b - reading = Down(adc - reading)
            /\ adc <= reading => b <= reading /\ reading - b = Up(reading - adc)
<1>1. Blend(adc, reading) = (adc * 7 + reading) \div 8
  BY DEF Blend
<1>2. QED
  BY <1>1 DEF Down, Up

(* What is left grows with the distance and is no more than it.            *)
LEMMA ShrinkGrows ==
  ASSUME NEW m \in Nat, NEW n \in Nat, m <= n
  PROVE  /\ Down(m) \in Nat /\ Up(m) \in Nat
         /\ Down(m) <= Down(n) /\ Up(m) <= Up(n)
         /\ Down(m) <= m /\ Up(m) <= m
BY DEF Down, Up

(* Bounds on the distance after so many callbacks with the same reading.   *)
Bounds(M, Above, Below) ==
  /\ M \in Nat /\ Readings \subseteq 0 .. M
  /\ Above \in [1 .. Patience -> Nat] /\ Below \in [1 .. Patience -> Nat]
  /\ Above[1] >= M /\ Below[1] >= M
  /\ \A n \in 1 .. (Patience - 1) : /\ Above[n + 1] >= Down(Above[n])
                                    /\ Below[n + 1] >= Up(Below[n])
  /\ Above[Patience] = 0 /\ Below[Patience] <= 7
  /\ Patience >= 1

(* The distance between blend and reading, from the side it comes from.    *)
SettleInv(M, Above, Below) ==
  /\ smoothed_adc \in 0 .. M /\ raw_adc \in 0 .. M
  /\ steady \in 0 .. Patience
  /\ steady > 0 => /\ smoothed_adc >= raw_adc => smoothed_adc - raw_adc <= Above[steady]
                   /\ smoothed_adc <= raw_adc => raw_adc - smoothed_adc <= Below[steady]

(* A callback keeps the distance below the bound for the number of         *)
(* callbacks.                                                              *)
LEMMA SettleStep ==
  ASSUME NEW M, NEW Above, NEW Below, Bounds(M, Above, Below),
         SettleInv(M, Above, Below), [LightNext]_lightVars
  PROVE  SettleInv(M, Above, Below)'
<1>1. CASE UNCHANGED lightVars
  BY <1>1 DEF lightVars, SettleInv
<1>2. ASSUME NEW reading \in Readings, BacklightTimerCallback(reading)
      PROVE  SettleInv(M, Above, Below)'
  <2> DEFINE b == Blend(smoothed_adc, reading)
  <2>1. /\ M \in Nat /\ Patience \in Nat /\ Patience >= 1
        /\ reading \in 0 .. M /\ smoothed_adc \in 0 .. M /\ raw_adc \in 0 .. M
        /\ steady \in 0 .. Patience
    BY BacklightAssumption DEF Bounds, SettleInv
  <2>2. /\ smoothed_adc' = b /\ raw_adc' = reading
        /\ steady' = IF reading # raw_adc THEN 1
                     ELSE IF steady < Patience THEN steady + 1 ELSE steady
    BY <1>2 DEF BacklightTimerCallback
  <2>3. \A n \in 1 .. Patience : Above[n] \in Nat /\ Below[n] \in Nat
    BY DEF Bounds
  <2>4. /\ b \in 0 .. M
        /\ smoothed_adc = 0 => b = reading
        /\ smoothed_adc # 0 /\ smoothed_adc >= reading
             => b >= reading /\ b - reading = Down(smoothed_adc - reading)
        /\ smoothed_adc # 0 /\ smoothed_adc <= reading
             => b <= reading /\ reading - b = Up(reading - smoothed_adc)
    <3>1. smoothed_adc \in Nat /\ reading \in Nat
      BY <2>1
    <3>2. /\ b \in Nat
          /\ smoothed_adc = 0 => b = reading
          /\ smoothed_adc # 0 => \/ smoothed_adc <= b /\ b <= reading
                                 \/ reading <= b /\ b <= smoothed_adc
      BY <3>1, BlendBetween
    <3>3. /\ smoothed_adc # 0 /\ smoothed_adc >= reading
             => b >= reading /\ b - reading = Down(smoothed_adc - reading)
          /\ smoothed_adc # 0 /\ smoothed_adc <= reading
             => b <= reading /\ reading - b = Up(reading - smoothed_adc)
      BY <3>1, BlendApproaches
    <3> HIDE DEF b
    <3>4. b \in 0 .. M
      BY <2>1, <3>2
    <3>5. QED
      BY <3>2, <3>3, <3>4
  <2> HIDE DEF b
  <2>5. steady' \in 1 .. Patience
    BY <2>1, <2>2
  <2>6. ASSUME b >= reading PROVE b - reading <= Above[steady']
    <3>1. CASE smoothed_adc = 0 \/ ~(smoothed_adc >= reading)
      <4>1. b - reading = 0
        BY <2>1, <2>4, <2>6, <3>1
      <4>2. QED
        BY <2>3, <2>5, <4>1
    <3>2. CASE steady' = 1
      <4>1. b - reading <= M /\ Above[1] >= M /\ Above[1] \in Nat
        BY <2>1, <2>3, <2>4 DEF Bounds
      <4>2. QED
        BY <2>1, <2>4, <3>2, <4>1
    <3>3. CASE smoothed_adc # 0 /\ smoothed_adc >= reading /\ steady' # 1
      <4> DEFINE D == smoothed_adc - reading
      <4>1. /\ reading = raw_adc /\ steady \in 1 .. Patience
            /\ steady' = IF steady < Patience THEN steady + 1 ELSE steady
        BY <2>1, <2>2, <3>3
      <4>2. D \in Nat /\ b - reading = Down(D)
        BY <2>1, <2>4, <3>3
      <4>3. D <= Above[steady] /\ Above[steady] \in Nat
        BY <2>3, <3>3, <4>1 DEF SettleInv
      <4> HIDE DEF D
      <4>4. /\ Down(D) <= Down(Above[steady]) /\ Down(D) <= D
            /\ Down(D) \in Nat /\ Down(Above[steady]) \in Nat
        BY <4>2, <4>3, ShrinkGrows
      <4>5. CASE steady < Patience
        <5>1. steady \in 1 .. (Patience - 1) /\ steady + 1 \in 1 .. Patience
          BY <2>1, <4>1, <4>5
        <5>2. Above[steady + 1] >= Down(Above[steady])
          BY <5>1 DEF Bounds
        <5>3. Above[steady + 1] \in Nat
          BY <2>1, <2>3, <5>1
        <5>4. QED
          BY <4>1, <4>2, <4>4, <4>5, <5>2, <5>3
      <4>6. CASE ~(steady < Patience)
        BY <4>1, <4>2, <4>3, <4>4, <4>6
      <4>7. QED
        BY <4>5, <4>6
    <3>4. QED
      BY <3>1, <3>2, <3>3
  <2>7. ASSUME b <= reading PROVE reading - b <= Below[steady']
    <3>1. CASE smoothed_adc = 0 \/ ~(smoothed_adc <= reading)
      <4>1. reading - b = 0
        BY <2>1, <2>4, <2>7, <3>1
      <4>2. QED
        BY <2>3, <2>5, <4>1
    <3>2. CASE steady' = 1
      <4>1. reading - b <= M /\ Below[1] >= M /\ Below[1] \in Nat
        BY <2>1, <2>3, <2>4 DEF Bounds
      <4>2. QED
        BY <2>1, <2>4, <3>2, <4>1
    <3>3. CASE smoothed_adc # 0 /\ smoothed_adc <= reading /\ steady' # 1
      <4> DEFINE D == reading - smoothed_adc
      <4>1. /\ reading = raw_adc /\ steady \in 1 .. Patience
            /\ steady' = IF steady < Patience THEN steady + 1 ELSE steady
        BY <2>1, <2>2, <3>3
      <4>2. D \in Nat /\ reading - b = Up(D)
        BY <2>1, <2>4, <3>3
      <4>3. D <= Below[steady] /\ Below[steady] \in Nat
        BY <2>3, <3>3, <4>1 DEF SettleInv
      <4> HIDE DEF D
      <4>4. /\ Up(D) <= Up(Below[steady]) /\ Up(D) <= D
            /\ Up(D) \in Nat /\ Up(Below[steady]) \in Nat
        BY <4>2, <4>3, ShrinkGrows
      <4>5. CASE steady < Patience
        <5>1. steady \in 1 .. (Patience - 1) /\ steady + 1 \in 1 .. Patience
          BY <2>1, <4>1, <4>5
        <5>2. Below[steady + 1] >= Up(Below[steady])
          BY <5>1 DEF Bounds
        <5>3. Below[steady + 1] \in Nat
          BY <2>1, <2>3, <5>1
        <5>4. QED
          BY <4>1, <4>2, <4>4, <4>5, <5>2, <5>3
      <4>6. CASE ~(steady < Patience)
        BY <4>1, <4>2, <4>3, <4>4, <4>6
      <4>7. QED
        BY <4>5, <4>6
    <3>4. QED
      BY <3>1, <3>2, <3>3
  <2>8. QED
    BY <2>1, <2>2, <2>4, <2>5, <2>6, <2>7 DEF SettleInv
<1>3. QED
  BY <1>1, <1>2 DEF LightNext

(* The distances from 4095 down, less an eighth each time, less one at the *)
(* end, where the division cuts off the eighth.                            *)
Distances ==
  <<4095, 3584, 3136, 2744, 2401, 2101, 1839, 1610, 1409, 1233, 1079, 945,
    827, 724, 634, 555, 486, 426, 373, 327, 287, 252, 221, 194,
    170, 149, 131, 115, 101, 89, 78, 69, 61, 54, 48, 42,
    37, 33, 29, 26, 23, 21, 19, 17, 15, 14, 13, 12,
    11, 10, 9, 8, 7, 6, 5, 4, 3, 2, 1, 0>>

(* Any sequences that shrink no faster than the blend and end at 0 and at  *)
(* 7 bound the distance.                                                   *)
LEMMA SettlesWithin ==
  ASSUME NEW M, NEW Above, NEW Below, Bounds(M, Above, Below)
  PROVE  LightSpec => []Settles
<1>1. LightInit => SettleInv(M, Above, Below)
  BY BacklightAssumption DEF LightInit, SettleInv, Bounds
<1>2. SettleInv(M, Above, Below) /\ [LightNext]_lightVars => SettleInv(M, Above, Below)'
  BY SettleStep
<1>3. SettleInv(M, Above, Below) => Settles
  <2> SUFFICES ASSUME SettleInv(M, Above, Below), steady = Patience
               PROVE  smoothed_adc <= raw_adc /\ raw_adc <= smoothed_adc + 7
    BY DEF Settles
  <2>1. /\ Patience \in Nat /\ Patience > 0 /\ M \in Nat
        /\ Above[Patience] = 0 /\ Below[Patience] <= 7 /\ Below[Patience] \in Nat
    BY BacklightAssumption DEF Bounds
  <2>2. /\ smoothed_adc \in 0 .. M /\ raw_adc \in 0 .. M
        /\ smoothed_adc >= raw_adc => smoothed_adc - raw_adc <= Above[Patience]
        /\ smoothed_adc <= raw_adc => raw_adc - smoothed_adc <= Below[Patience]
    BY <2>1 DEF SettleInv
  <2>3. QED
    BY <2>1, <2>2
<1>4. QED
  BY <1>1, <1>2, <1>3, PTL DEF LightSpec

(* The table holds natural numbers.                                        *)
LEMMA DistancesType ==
  \A n \in Nat \ {0} : /\ (IF n < 60 THEN Distances[n] ELSE 0) \in Nat
                       /\ (IF n < 53 THEN Distances[n] ELSE 7) \in Nat
<1>1. \A n \in 1 .. 60 : Distances[n] \in Nat
  BY DEF Distances
<1>2. QED
  BY <1>1

(* Settles for a 12-bit converter: whatever was read before, 60 callbacks  *)
(* of a steady light, 12 seconds, bring the blend to within the seven      *)
(* counts below it that the division cuts off, and never leave it above.   *)
THEOREM LightSettles ==
  ASSUME Readings \subseteq 0 .. 4095, Patience >= 60
  PROVE  LightSpec => []Settles
<1> DEFINE Above == [n \in 1 .. Patience |-> IF n < 60 THEN Distances[n] ELSE 0]
           Below == [n \in 1 .. Patience |-> IF n < 53 THEN Distances[n] ELSE 7]
<1>1. Patience \in Nat
  BY BacklightAssumption
<1>3. Distances[1] = 4095 /\ Distances[60] = 0 /\ Distances[53] = 7
  BY DEF Distances
<1>4. \A n \in 1 .. 59 : Distances[n + 1] >= Down(Distances[n])
  <2>1. TAKE n \in 1 .. 59
  <2>2. n \in {1, 2, 3, 4, 5, 6, 7, 8, 9, 10, 11, 12, 13, 14, 15, 16, 17, 18,
             19, 20, 21, 22, 23, 24, 25, 26, 27, 28, 29, 30, 31, 32, 33, 34,
             35, 36, 37, 38, 39, 40, 41, 42, 43, 44, 45, 46, 47, 48, 49, 50,
             51, 52, 53, 54, 55, 56, 57, 58, 59}
    OBVIOUS
  <2>3. QED
    BY <2>2, SMTT(120) DEF Distances, Down
<1>5. \A n \in 1 .. 52 : Distances[n + 1] >= Up(Distances[n])
  <2>1. TAKE n \in 1 .. 52
  <2>2. n \in {1, 2, 3, 4, 5, 6, 7, 8, 9, 10, 11, 12, 13, 14, 15, 16, 17, 18,
             19, 20, 21, 22, 23, 24, 25, 26, 27, 28, 29, 30, 31, 32, 33, 34,
             35, 36, 37, 38, 39, 40, 41, 42, 43, 44, 45, 46, 47, 48, 49, 50,
             51, 52}
    OBVIOUS
  <2>3. QED
    BY <2>2, SMTT(120) DEF Distances, Up
<1>6. Bounds(4095, Above, Below)
  <2>1. Down(0) = 0 /\ Up(7) = 7
    BY DEF Down, Up
  <2>2. /\ Above \in [1 .. Patience -> Nat] /\ Below \in [1 .. Patience -> Nat]
        /\ Above[1] = 4095 /\ Below[1] = 4095
        /\ Above[Patience] = 0 /\ Below[Patience] = 7
    <3>1. 1 \in 1 .. Patience /\ Patience \in 1 .. Patience /\ ~(Patience < 60) /\ ~(Patience < 53)
      BY <1>1
    <3>2. Above[1] = 4095 /\ Below[1] = 4095 /\ Above[Patience] = 0 /\ Below[Patience] = 7
      BY <1>3, <3>1
    <3>3. \A n \in 1 .. Patience : /\ (IF n < 60 THEN Distances[n] ELSE 0) \in Nat
                                  /\ (IF n < 53 THEN Distances[n] ELSE 7) \in Nat
      BY <1>1, DistancesType
    <3>4. Above \in [1 .. Patience -> Nat]
      BY <3>3
    <3>5. Below \in [1 .. Patience -> Nat]
      BY <3>3
    <3> HIDE DEF Above, Below
    <3>6. QED
      BY <3>2, <3>4, <3>5
  <2>3. ASSUME NEW n \in 1 .. (Patience - 1)
        PROVE  Above[n + 1] >= Down(Above[n]) /\ Below[n + 1] >= Up(Below[n])
    <3>1. n \in Nat /\ n + 1 \in 1 .. Patience /\ n \in 1 .. Patience
      BY <1>1
    <3>2. Above[n + 1] >= Down(Above[n])
      <4>1. CASE n < 60
        BY <1>3, <1>4, <3>1, <4>1
      <4>2. CASE n >= 60
        BY <2>1, <3>1, <4>2
      <4>3. QED
        BY <3>1, <4>1, <4>2
    <3>3. Below[n + 1] >= Up(Below[n])
      <4>1. CASE n < 53
        BY <1>3, <1>5, <3>1, <4>1
      <4>2. CASE n >= 53
        BY <2>1, <3>1, <4>2
      <4>3. QED
        BY <3>1, <4>1, <4>2
    <3>4. QED
      BY <3>2, <3>3
  <2> HIDE DEF Above, Below
  <2>4. Patience >= 1 /\ 4095 \in Nat
    BY <1>1
  <2>5. QED
    BY <2>2, <2>3, <2>4 DEF Bounds
<1>7. QED
  BY <1>6, SettlesWithin
=============================================================================
