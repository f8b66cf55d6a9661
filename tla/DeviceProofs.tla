---------------------------- MODULE DeviceProofs ----------------------------
(***************************************************************************)
(* The parts of the platform, and two that the engine writes out through.  *)
(* The camera wrapper frees each string once until cameras clash, and the  *)
(* LED shows the request of highest rank.  The parameters are what the     *)
(* last lines that count say; the list and the heap hold what they were    *)
(* given.                                                                  *)
(* The NMEA sentences say all of a satellite report, and the image of the  *)
(* device trees says where each tree is.                                   *)
(***************************************************************************)
EXTENDS Lights, CameraWrapper, LocCfg, Structures, Nmea, Dtbtool, FiniteSetTheorems, WellFoundedInduction, TLAPS

-----------------------------------------------------------------------------
(* CameraWrapper.                                                          *)

\* While no open is under way, the array of the open cameras holds a string
\* of each, alive and its own, except those that are being replaced.
ArrayOwned ==
  opening = {} /\ devices # {} =>
    /\ \A c \in Camera \ devices : fixed_set_params[c] = NoString
    /\ \A c \in devices \ fixing : fixed_set_params[c] \in strings \cup {NoString}
    /\ \A c, d \in devices \ fixing :
         c # d /\ fixed_set_params[c] = fixed_set_params[d] => fixed_set_params[c] = NoString

\* Until cameras clash, no open is under way while a string is replaced.
Unclashed == ~clashed => /\ ~torn /\ ArrayOwned
                         /\ opening # {} => fixing = {}

\* SettingsFit of all cameras: a camera that is not open has no settings.
AllFit ==
  \A c \in Camera : vendor[c].app =>
    IF vendor[c].hint THEN vendor[c].preview = vendor[c].video
    ELSE c = 0 /\ vendor[c].exposure \notin {"none", "0"} => vendor[c].flash = "off"

CameraInv == CameraTypeOK /\ Unclashed /\ AllFit

LEMMA CameraInitHolds == CameraInit => CameraInv
<1> SUFFICES ASSUME CameraInit PROVE CameraInv
  OBVIOUS
<1>1. NoSettings \in Parameters
  BY CameraAssumption DEF NoSettings, Parameters
<1>2. CameraTypeOK
  BY <1>1 DEF CameraInit, CameraTypeOK
<1>3. ~NoSettings.app
  BY DEF NoSettings
<1> QED BY <1>2, <1>3 DEF CameraInit, CameraInv, Unclashed, ArrayOwned, AllFit

\* What reaches the vendor is well typed and fits.
LEMMA FixupFits ==
  ASSUME NEW s \in Setting, NEW id
  PROVE  /\ Fixed(id, s) \in Parameters
         /\ Fixed(id, s).hint => Fixed(id, s).preview = Fixed(id, s).video
         /\ ~Fixed(id, s).hint /\ id = 0 /\ Fixed(id, s).exposure \notin {"none", "0"}
              => Fixed(id, s).flash = "off"
<1> DEFINE p == [s EXCEPT !.exposure = IF s.shutter = "none" THEN @ ELSE s.shutter, !.app = TRUE]
<1>1. p \in Parameters
  BY CameraAssumption DEF Parameters
<1>2. CASE p.hint
  <2>1. Fixed(id, s) = Video(p)
    BY <1>2 DEF Fixed
  <2> HIDE DEF p
  <2>2. \A q \in Parameters :
          Video(q) \in Parameters /\ Video(q).hint = q.hint /\ Video(q).preview = Video(q).video
    BY CameraAssumption DEF Video, Parameters
  <2> QED BY <1>1, <1>2, <2>1, <2>2
<1>3. CASE ~p.hint
  <2>1. Fixed(id, s) = Still(p, id)
    BY <1>3 DEF Fixed
  <2> HIDE DEF p
  <2>2. \A q \in Parameters :
          /\ Still(q, id) \in Parameters /\ Still(q, id).hint = q.hint
          /\ id = 0 /\ Still(q, id).exposure \notin {"none", "0"} => Still(q, id).flash = "off"
    BY CameraAssumption DEF Still, Parameters
  <2> QED BY <1>1, <1>3, <2>1, <2>2
<1> QED BY <1>2, <1>3

\* An array for the cameras is one.
LEMMA ArrayThere == ASSUME NEW c \in Camera, NEW a \in [Camera -> String \cup {NoString, Wild}]
                    PROVE  a # NoArray
<1>1. c \in DOMAIN a
  OBVIOUS
<1>2. DOMAIN NoArray = {}
  BY DEF NoArray
<1> QED BY <1>1, <1>2

\* An open lets no string be freed.
LEMMA OpenBegins ==
  ASSUME CameraInv, NEW id, id \notin devices, camera_device_open(id)
  PROVE  CameraInv'
<1>1. /\ gVendorModule' \in BOOLEAN
      /\ UNCHANGED <<devices, fixing, strings, torn, vendor, out>>
  BY Zenon DEF camera_device_open, check_vendor_module, CameraInv, CameraTypeOK
<1>2. AllFit'
  BY <1>1 DEF CameraInv, AllFit
<1>3. CASE UNCHANGED <<opening, fixed_set_params, clashed>>
  BY <1>1, <1>2, <1>3 DEF CameraInv, CameraTypeOK, Unclashed, ArrayOwned
<1>4. CASE /\ \E garbage \in [Camera -> {NoString, Wild}] : fixed_set_params' = garbage
           /\ opening' = {id}
           /\ clashed' = (clashed \/ fixing # {})
  <2>1. fixed_set_params' \in [Camera -> String \cup {NoString, Wild}]
    BY <1>4
  <2>2. devices # {} => fixed_set_params' # NoArray
    BY <2>1, ArrayThere DEF CameraInv, CameraTypeOK
  <2>3. CameraTypeOK'
    BY <1>1, <1>4, <2>1, <2>2 DEF CameraInv, CameraTypeOK
  <2>4. Unclashed'
    BY <1>1, <1>4 DEF CameraInv, Unclashed, ArrayOwned
  <2> QED BY <1>2, <2>3, <2>4 DEF CameraInv
<1> QED BY <1>3, <1>4 DEF camera_device_open

\* The array it clears is of nobody's strings.
LEMMA OpenEnds ==
  ASSUME CameraInv, NEW id, NEW works \in BOOLEAN, camera_device_opened(id, works)
  PROVE  CameraInv'
<1>1. /\ id \in opening /\ opening' = {} /\ fixed_set_params' = Cleared
      /\ devices' = IF works /\ id \in Camera THEN devices \cup {id} ELSE devices
      /\ UNCHANGED <<gVendorModule, fixing, strings, torn, clashed, vendor, out>>
  BY DEF camera_device_opened
<1>2. AllFit'
  BY <1>1 DEF CameraInv, AllFit
<1>3. /\ fixed_set_params' \in [Camera -> String \cup {NoString, Wild}]
      /\ \A c \in Camera : fixed_set_params'[c] = NoString
  BY <1>1 DEF Cleared
<1>4. devices' \subseteq Camera /\ devices \subseteq devices'
  BY <1>1 DEF CameraInv, CameraTypeOK
<1>5. devices' # {} => fixed_set_params' # NoArray
  BY <1>3, <1>4, ArrayThere
<1>6. CameraTypeOK'
  BY <1>1, <1>3, <1>4, <1>5 DEF CameraInv, CameraTypeOK
<1>7. Unclashed'
  BY <1>1, <1>3, <1>4 DEF CameraInv, Unclashed, ArrayOwned
<1> QED BY <1>2, <1>6, <1>7 DEF CameraInv

\* free() takes no more than it is given.
LEMMA FreeTypes ==
  ASSUME CameraInv, NEW cs, Free(cs) PROVE strings' \subseteq String /\ torn' \in BOOLEAN
<1>1. strings' \subseteq strings
  BY DEF Free
<1>2. torn' \in BOOLEAN
  BY Zenon DEF Free, CameraInv, CameraTypeOK
<1> QED BY <1>1, <1>2 DEF CameraInv, CameraTypeOK

\* The one camera's string in the array is freed, and it is alive.
LEMMA CloseKeeps ==
  ASSUME CameraInv, NEW id \in Camera, camera_device_close(id)
  PROVE  CameraInv'
<1>1. /\ id \in devices \ fixing /\ opening = {} /\ Free(Camera) /\ devices' = devices \ {id}
      /\ clashed' = (clashed \/ devices # {id})
      /\ vendor' = [vendor EXCEPT ![id] = NoSettings]
      /\ UNCHANGED <<gVendorModule, opening, fixing, fixed_set_params, out>>
  BY DEF camera_device_close
<1>2. strings' \subseteq String /\ torn' \in BOOLEAN
  BY <1>1, FreeTypes
<1>3. vendor' \in [Camera -> Parameters] /\ AllFit'
  <2>1. NoSettings \in Parameters /\ ~NoSettings.app
    BY CameraAssumption DEF NoSettings, Parameters
  <2> HIDE DEF NoSettings
  <2> QED BY <1>1, <2>1 DEF CameraInv, CameraTypeOK, AllFit
<1>4. CameraTypeOK'
  BY <1>1, <1>2, <1>3 DEF CameraInv, CameraTypeOK
<1>5. Unclashed'
  <2> SUFFICES ASSUME ~clashed' PROVE /\ ~torn' /\ devices' = {} /\ opening' = {}
    BY DEF Unclashed, ArrayOwned
  <2>1. ~clashed /\ devices = {id} /\ devices' = {} /\ fixing = {}
    BY <1>1 DEF CameraInv, CameraTypeOK
  <2>2. /\ fixed_set_params[id] \in strings \cup {NoString}
        /\ \A c \in Camera : c # id => fixed_set_params[c] = NoString
    BY <1>1, <2>1 DEF CameraInv, Unclashed, ArrayOwned
  <2>3. ~torn'
    BY <1>1, <2>1, <2>2 DEF Free, CameraInv, Unclashed
  <2> QED BY <1>1, <2>1, <2>3
<1> QED BY <1>3, <1>4, <1>5 DEF CameraInv

\* Its old string is the camera's own.
LEMMA FixupKeeps ==
  ASSUME CameraInv, NEW id \in Camera, camera_fixup_setparams(id)
  PROVE  CameraInv'
<1>1. /\ id \in devices \ fixing /\ Free({id}) /\ fixing' = fixing \cup {id}
      /\ clashed' = (clashed \/ opening # {})
      /\ UNCHANGED <<gVendorModule, devices, opening, fixed_set_params, vendor, out>>
  BY DEF camera_fixup_setparams
<1>2. strings' \subseteq String /\ torn' \in BOOLEAN
  BY <1>1, FreeTypes
<1>3. AllFit'
  BY <1>1 DEF CameraInv, AllFit
<1>4. CameraTypeOK'
  BY <1>1, <1>2 DEF CameraInv, CameraTypeOK
<1>5. Unclashed'
  <2> SUFFICES ASSUME ~clashed' PROVE ~torn' /\ ArrayOwned' /\ opening' = {}
    BY DEF Unclashed
  <2>1. ~clashed /\ opening = {} /\ opening' = {} /\ ~torn /\ ArrayOwned
    BY <1>1 DEF CameraInv, Unclashed
  <2> DEFINE old == fixed_set_params[id]
  <2>2. /\ old \in strings \cup {NoString}
        /\ \A c \in devices \ (fixing \cup {id}) : fixed_set_params[c] = old => old = NoString
    BY <1>1, <2>1 DEF ArrayOwned
  <2>3. strings' = strings \ ({old} \ {NoString}) /\ ~torn'
    <3>1. {fixed_set_params[c] : c \in {id}} = {old}
      OBVIOUS
    <3> QED BY <1>1, <2>1, <2>2, <3>1 DEF Free
  <2>4. ArrayOwned'
    BY <1>1, <2>1, <2>2, <2>3 DEF ArrayOwned
  <2> QED BY <2>1, <2>3, <2>4
<1> QED BY <1>3, <1>4, <1>5 DEF CameraInv

\* The new string takes the place of the old one.
LEMMA SetKeeps ==
  ASSUME CameraInv, NEW id \in Camera, NEW s \in Setting, camera_set_parameters(id, s)
  PROVE  CameraInv'
<1>1. /\ id \in fixing /\ fixing' = fixing \ {id}
      /\ vendor' = [vendor EXCEPT ![id] = Fixed(id, s)]
      /\ UNCHANGED <<gVendorModule, devices, opening, torn, clashed, out>>
  BY DEF camera_set_parameters
<1>2. PICK new \in String \ strings :
        /\ strings' = strings \cup {new}
        /\ fixed_set_params' = [fixed_set_params EXCEPT ![id] = new]
  BY DEF camera_set_parameters
<1>3. vendor' \in [Camera -> Parameters] /\ AllFit'
  <2> DEFINE p == Fixed(id, s)
  <2>1. vendor' = [vendor EXCEPT ![id] = p]
    BY <1>1
  <2>2. /\ p \in Parameters
        /\ p.hint => p.preview = p.video
        /\ ~p.hint /\ id = 0 /\ p.exposure \notin {"none", "0"} => p.flash = "off"
    BY FixupFits
  <2> HIDE DEF p
  <2> QED BY <2>1, <2>2 DEF CameraInv, CameraTypeOK, AllFit
<1>4. /\ id \in devices /\ fixed_set_params \in [Camera -> String \cup {NoString, Wild}]
  BY <1>1 DEF CameraInv, CameraTypeOK
<1>5. /\ fixed_set_params' \in [Camera -> String \cup {NoString, Wild}]
      /\ fixed_set_params'[id] = new
      /\ \A c \in Camera : c # id => fixed_set_params'[c] = fixed_set_params[c]
  BY <1>2, <1>4
<1>6. fixed_set_params' # NoArray
  BY <1>5, ArrayThere
<1>7. CameraTypeOK'
  BY <1>1, <1>2, <1>3, <1>5, <1>6 DEF CameraInv, CameraTypeOK
<1>8. Unclashed'
  <2> SUFFICES ASSUME ~clashed' PROVE ~torn' /\ ArrayOwned' /\ opening' = {}
    BY DEF Unclashed
  <2>1. opening = {} /\ opening' = {} /\ ~torn /\ ~torn' /\ ArrayOwned
    BY <1>1 DEF CameraInv, Unclashed
  <2>2. new \notin strings /\ new \in strings' /\ new # NoString
    BY <1>2 DEF String, NoString
  <2>3. devices \subseteq Camera
    BY DEF CameraInv, CameraTypeOK
  <2>4. ArrayOwned'
    BY <1>1, <1>2, <1>4, <1>5, <2>1, <2>2, <2>3 DEF ArrayOwned
  <2> QED BY <2>1, <2>4
<1> QED BY <1>3, <1>7, <1>8 DEF CameraInv

\* Reading the parameters touches none of it.
LEMMA OutKeeps ==
  ASSUME CameraInv, out' \subseteq Camera,
         UNCHANGED <<gVendorModule, devices, opening, fixing, fixed_set_params, strings, torn,
                     clashed, vendor>>
  PROVE  CameraInv'
  BY DEF CameraInv, CameraTypeOK, Unclashed, ArrayOwned, AllFit

LEMMA CameraStep ==
  ASSUME CameraInv, [CameraNext]_camVars
  PROVE  CameraInv'
<1>1. CASE UNCHANGED camVars
  BY <1>1, OutKeeps DEF camVars, CameraInv, CameraTypeOK
<1>2. ASSUME NEW id \in Camera, camera_get_parameters(id) \/ camera_put_parameters(id)
      PROVE  CameraInv'
  <2>1. /\ out' = out \cup {id} \/ out' = out \ {id}
        /\ UNCHANGED <<gVendorModule, devices, opening, fixing, fixed_set_params, strings, torn,
                       clashed, vendor>>
    BY <1>2 DEF camera_get_parameters, camera_put_parameters
  <2> QED BY <2>1, OutKeeps DEF CameraInv, CameraTypeOK
<1> QED BY <1>1, <1>2, OpenBegins, OpenEnds, CloseKeeps, FixupKeeps, SetKeeps DEF CameraNext

\* Whatever cameras there are and however many are open, settings, failed
\* opens and orders of the calls: until one camera is closed while another is
\* open, or parameters are set during an open, no string is freed twice or
\* used after it was freed; and what the vendor is told fits.
THEOREM CameraSafe == CameraSpec => [](CameraTypeOK /\ CamerasSafe)
<1>1. CameraInv => CameraTypeOK /\ CamerasSafe
  <2> SUFFICES ASSUME CameraInv PROVE CameraTypeOK /\ CamerasSafe
    OBVIOUS
  <2>1. StringsOwned
    BY DEF CameraInv, CameraTypeOK, Unclashed, ArrayOwned, StringsOwned
  <2>2. SettingsFit
    BY DEF CameraInv, CameraTypeOK, AllFit, SettingsFit
  <2> QED BY <2>1, <2>2 DEF CamerasSafe, CameraInv
<1> QED BY CameraInitHolds, CameraStep, <1>1, PTL DEF CameraSpec

-----------------------------------------------------------------------------
(* Lights.                                                                 *)

\* A request that flashes has a colour to flash with.
ColoursFlash == \A s \in Lit : Flashes(s) => is_lit(s)

\* Winner, of any three requests.
Best(attention, battery, notification) ==
  IF is_lit(attention) /\ attention.flashMode # "NONE" THEN attention
  ELSE IF is_lit(notification) THEN notification
  ELSE IF is_lit(battery) THEN battery
  ELSE Unset

\* What the code keeps of the requests, and of the chip once a light is open.
AsAsked ==
  /\ wishes \in [Led -> Lit \cup {Unset}]
  /\ g_notification = wishes["notifications"] /\ g_battery = wishes["battery"]
  /\ g_attention = Attention(wishes["attention"])
  /\ g_is_qpnp_device \in BOOLEAN /\ (opened # {} => g_is_qpnp_device = is_qpnp_device)

Files == [rgb : [1..3 -> Int], blink : BOOLEAN, freq : Int, pwm : Int, step : Int,
          duty : Seq(Int), lcd : Int, buttons : Int]

LightsInv == AsAsked /\ crashed \in BOOLEAN /\ files \in Files /\ LedShows

LEMMA UnsetDark == Unset \in LightState /\ ~is_lit(Unset) /\ ~Flashes(Unset)
  BY DEF Unset, LightState, is_lit, Flashes, OnMS, OffMS, Dark

LEMMA RequestType == \A s \in Lit \cup {Unset} : s \in LightState
  BY UnsetDark, LightsAssumption

LEMMA WinnerBest == Winner = Best(wishes["attention"], wishes["battery"], wishes["notifications"])
  BY DEF Winner, Best, Wants

\* The request of highest rank is the one shown, or one that looks the same.
LEMMA BestShown ==
  ASSUME NEW a \in LightState, NEW b \in LightState, NEW n \in LightState,
         Flashes(n) => is_lit(n)
  PROVE  LET s == Shown(Attention(a), b, n)
             w == Best(a, b, n)
         IN  /\ s.color = w.color /\ Flashes(s) = Flashes(w)
             /\ Flashes(s) => OnMS(s) = OnMS(w) /\ OffMS(s) = OffMS(w)
<1>1. /\ is_lit(Attention(a)) <=> is_lit(a) /\ a.flashMode # "NONE"
      /\ is_lit(a) /\ a.flashMode # "NONE" => /\ Attention(a).color = a.color
                                              /\ Flashes(Attention(a)) = Flashes(a)
                                              /\ OnMS(Attention(a)) = OnMS(a)
                                              /\ OffMS(Attention(a)) = OffMS(a)
  BY DEF Attention, is_lit, LightState, Dark, Flashes, OnMS, OffMS
<1>2. CASE is_lit(a) /\ a.flashMode # "NONE"
  BY <1>1, <1>2 DEF Shown, Best
<1>3. CASE ~(is_lit(a) /\ a.flashMode # "NONE") /\ is_lit(n)
  BY <1>1, <1>3 DEF Shown, Best
<1>4. CASE ~(is_lit(a) /\ a.flashMode # "NONE") /\ ~is_lit(n) /\ is_lit(b)
  BY <1>1, <1>4 DEF Shown, Best
<1>5. CASE ~(is_lit(a) /\ a.flashMode # "NONE") /\ ~is_lit(n) /\ ~is_lit(b)
  <2>1. Shown(Attention(a), b, n) = n /\ Best(a, b, n) = Unset
    BY <1>1, <1>5 DEF Shown, Best
  <2>2. n.color = Dark /\ Unset.color = Dark /\ ~Flashes(n)
    BY <1>5, UnsetDark DEF is_lit
  <2> QED BY <2>1, <2>2, UnsetDark DEF Flashes
<1> QED BY <1>2, <1>3, <1>4, <1>5

\* A colour is three channels.
LEMMA ColourChannels == \A s \in LightState : s.color \in [1..3 -> Int]
  BY DEF LightState

\* A pulse without an end that is kept is a request like the others.
LEMMA AttentionType == \A s \in LightState : Attention(s) \in LightState
<1>1. Dark \in [1..3 -> 0..255]
  BY DEF Dark
<1> QED BY <1>1 DEF Attention, LightState

\* The times of a request are numbers, and of one that flashes not zero.
LEMMA Times ==
  ASSUME NEW s \in LightState
  PROVE  /\ OnMS(s) \in Nat /\ OffMS(s) \in Nat /\ Flashes(s) \in BOOLEAN
         /\ Flashes(s) => OnMS(s) > 0 /\ TotalMS(s) \in Nat /\ TotalMS(s) > OnMS(s)
  BY DEF LightState, OnMS, OffMS, Flashes, TotalMS

\* What a request leaves in the files, by the two kinds of chip.
LEMMA ShineledWrites ==
  ASSUME files \in Files, NEW s \in LightState
  PROVE  LET f == set_speaker_light_locked_shineled(s)
         IN  f \in Files /\ f.rgb = s.color /\ f.blink = Flashes(s) /\ f.duty = files.duty
<1> DEFINE pwm == (OnMS(s) * 255) \div TotalMS(s)
           lit == [files EXCEPT !.rgb = s.color, !.blink = Flashes(s)]
           f == set_speaker_light_locked_shineled(s)
<1>1. lit \in Files /\ lit.rgb = s.color /\ lit.blink = Flashes(s) /\ lit.duty = files.duty
  BY ColourChannels, Times DEF Files
<1>2. CASE Flashes(s)
  <2>1. pwm \in Int
    BY <1>2, Times
  <2>2. TotalMS(s) \div 50 \in Int
    BY <1>2, Times
  <2> DEFINE q == TotalMS(s) \div 50
             p == IF pwm \in 1..15 THEN 16 ELSE pwm
  <2>3. f = [lit EXCEPT !.freq = q, !.pwm = p]
    BY <1>2 DEF set_speaker_light_locked_shineled
  <2>4. q \in Int /\ p \in Int
    BY <2>1, <2>2
  <2> HIDE DEF lit, q, p
  <2> QED BY <1>1, <2>3, <2>4 DEF Files
<1>3. CASE ~Flashes(s)
  BY <1>1, <1>3 DEF set_speaker_light_locked_shineled
<1> QED BY <1>2, <1>3

LEMMA QpnpWrites ==
  ASSUME files \in Files, NEW s \in LightState, NEW n \in LightState
  PROVE  LET f == set_speaker_light_locked_qpnp(s, n)
             d == Duty(OnMS(s) \div (TotalMS(s) \div QPNP_DUTY_STEPS))
         IN  /\ f.blink = Flashes(s)
             /\ f.rgb[1] = IF ~is_lit(s) \/ Flashes(s) THEN 0 ELSE Brightness(n)
             /\ ~Flashes(s) => f \in Files /\ f.duty = files.duty
             /\ Flashes(s) /\ ~Divides(s) /\ d \in Seq(Int) => f \in Files /\ f.duty = d
<1>1. Brightness(n) \in Int
  BY DEF Brightness, LightState
<1>2. CASE ~Flashes(s)
  <2> DEFINE v == IF is_lit(s) THEN Brightness(n) ELSE 0
  <2>1. v \in Int
    BY <1>1
  <2> DEFINE c == [files.rgb EXCEPT ![1] = v]
  <2>2. c \in [1..3 -> Int] /\ c[1] = v
    BY <2>1 DEF Files
  <2>3. set_speaker_light_locked_qpnp(s, n) = [files EXCEPT !.blink = FALSE, !.rgb = c]
    BY <1>2 DEF set_speaker_light_locked_qpnp
  <2> HIDE DEF v, c
  <2>4. /\ set_speaker_light_locked_qpnp(s, n) \in Files
        /\ set_speaker_light_locked_qpnp(s, n).duty = files.duty
        /\ set_speaker_light_locked_qpnp(s, n).blink = FALSE
        /\ set_speaker_light_locked_qpnp(s, n).rgb[1] = v
    BY <2>2, <2>3 DEF Files
  <2> QED BY <1>2, <2>4, Times DEF v
<1>3. CASE Flashes(s)
  <2> DEFINE stepMS == TotalMS(s) \div QPNP_DUTY_STEPS
             d == Duty(OnMS(s) \div stepMS)
             c == [files.rgb EXCEPT ![1] = 0]
  <2>1. stepMS \in Int
    BY <1>3, Times DEF QPNP_DUTY_STEPS
  <2>2. set_speaker_light_locked_qpnp(s, n)
          = [files EXCEPT !.rgb = c, !.duty = d, !.step = stepMS, !.blink = TRUE]
    BY <1>3 DEF set_speaker_light_locked_qpnp
  <2>5. c \in [1..3 -> Int] /\ c[1] = 0
    BY DEF Files
  <2> HIDE DEF stepMS, d, c
  <2>3. /\ set_speaker_light_locked_qpnp(s, n).blink = TRUE
        /\ set_speaker_light_locked_qpnp(s, n).rgb[1] = 0
        /\ set_speaker_light_locked_qpnp(s, n).duty = d
    BY <2>1, <2>2, <2>5 DEF Files
  <2>4. d \in Seq(Int) => set_speaker_light_locked_qpnp(s, n) \in Files
    BY <2>1, <2>2, <2>5 DEF Files
  <2> QED BY <1>3, <2>3, <2>4, Times DEF d, stepMS
<1> QED BY <1>2, <1>3

\* Division, of what the table is built from.
LEMMA Quotient ==
  ASSUME NEW x \in Nat, NEW y \in Nat, y > 0
  PROVE  x \div y \in Nat /\ \A c \in Nat : x < c * y => x \div y < c
<1>1. x \div y \in Nat /\ y * (x \div y) <= x
  BY Z3
<1>2. ASSUME NEW c \in Nat, x < c * y, x \div y >= c
      PROVE  FALSE
  <2> DEFINE q == x \div y
  <2>1. q \in Nat /\ y * q <= x /\ q >= c
    BY <1>1, <1>2
  <2> HIDE DEF q
  <2>2. y * q >= y * c
    BY <2>1, Z3
  <2> QED BY <1>2, <2>1, <2>2
<1> QED BY <1>1, <1>2

LEMMA DutyTable ==
  ASSUME NEW k \in Nat, k # 1
  PROVE  /\ Duty(k) \in Seq(Int) /\ \A i \in 1..Len(Duty(k)) : Duty(k)[i] \in 0..100
         /\ Len(Duty(k)) = (IF k > QPNP_DUTY_STEPS - 2 THEN k ELSE QPNP_DUTY_STEPS - 2) + 1
<1> DEFINE half == k \div 2
           last == IF k > QPNP_DUTY_STEPS - 2 THEN k ELSE QPNP_DUTY_STEPS - 2
           Step(n) == IF n = 0 \/ n > k THEN 0
                      ELSE IF n <= half THEN smaller((100 * n) \div half, 100)
                      ELSE smaller((100 * (k - n)) \div half, 100)
<1>1. last \in Nat
  BY DEF QPNP_DUTY_STEPS
<1>2. ASSUME NEW n \in Nat PROVE Step(n) \in 0..100
  <2>1. CASE n = 0 \/ n > k
    BY <2>1
  <2>2. CASE ~(n = 0 \/ n > k)
    <3>1. half \in Nat /\ half > 0
      BY <2>2
    <3>2. 100 * n \in Nat /\ 100 * (k - n) \in Nat
      BY <2>2
    <3> HIDE DEF half
    <3>3. (100 * n) \div half \in Nat /\ (100 * (k - n)) \div half \in Nat
      BY <3>1, <3>2, Quotient
    <3> QED BY <2>2, <3>3 DEF smaller
  <2> QED BY <2>1, <2>2
<1>3. Duty(k) = [i \in 1..(last + 1) |-> Step(i - 1)]
  BY DEF Duty
<1> HIDE DEF last, Step
<1>4. \A i \in 1..(last + 1) : Step(i - 1) \in 0..100
  BY <1>1, <1>2
<1>5. Duty(k) \in Seq(Int) /\ Len(Duty(k)) = last + 1
  <2>1. \A i \in 1..(last + 1) : Step(i - 1) \in Int
    BY <1>4
  <2>2. last + 1 \in Nat
    BY <1>1
  <2> QED BY <1>3, <2>1, <2>2
<1>6. \A i \in 1..(last + 1) : Duty(k)[i] = Step(i - 1)
  BY <1>3, Zenon
<1>7. \A i \in 1..(last + 1) : Duty(k)[i] \in 0..100
  BY <1>4, <1>6
<1> QED BY <1>5, <1>7 DEF last

\* A period the chip can hold makes a table it can hold.
LEMMA HeldTable ==
  ASSUME NEW s \in LightState, Flashes(s), ChipHolds(s)
  PROVE  LET d == Duty(OnMS(s) \div (TotalMS(s) \div QPNP_DUTY_STEPS))
         IN  ~Divides(s) /\ (\A i \in 1..Len(d) : d[i] \in 0..100) /\ Len(d) <= MaxLut
<1> DEFINE step == TotalMS(s) \div QPNP_DUTY_STEPS
           k == OnMS(s) \div step
<1>1. TotalMS(s) \in Nat /\ OnMS(s) \in Nat /\ OnMS(s) < TotalMS(s) /\ TotalMS(s) >= 200
  BY Times DEF ChipHolds
<1>2. step \in Nat /\ step >= 4 /\ TotalMS(s) < 50 * step + 50
  BY <1>1 DEF QPNP_DUTY_STEPS
<1>3. k # 1
  BY DEF ChipHolds
<1>4. OnMS(s) < 63 * step
  BY <1>1, <1>2
<1>5. ~Divides(s)
  BY <1>2, <1>3 DEF Divides
<1> HIDE DEF step
<1>6. k \in Nat /\ k < 63
  BY <1>1, <1>2, <1>4, Quotient
<1> HIDE DEF k
<1>7. /\ \A i \in 1..Len(Duty(k)) : Duty(k)[i] \in 0..100
      /\ Len(Duty(k)) <= MaxLut
  <2>1. /\ \A i \in 1..Len(Duty(k)) : Duty(k)[i] \in 0..100
        /\ Len(Duty(k)) = (IF k > QPNP_DUTY_STEPS - 2 THEN k ELSE QPNP_DUTY_STEPS - 2) + 1
    BY <1>3, <1>6, DutyTable
  <2> QED BY <1>6, <2>1 DEF QPNP_DUTY_STEPS, MaxLut
<1> QED BY <1>5, <1>7 DEF k, step

\* Whatever the period, a table that is made is one of percentages.
LEMMA MadeTable ==
  ASSUME NEW s \in LightState, Flashes(s), ~Divides(s)
  PROVE  Duty(OnMS(s) \div (TotalMS(s) \div QPNP_DUTY_STEPS)) \in Seq(Int)
<1> DEFINE step == TotalMS(s) \div QPNP_DUTY_STEPS
           k == OnMS(s) \div step
<1>1. TotalMS(s) \in Nat /\ OnMS(s) \in Nat
  BY Times
<1>2. step \in Nat
  BY <1>1 DEF QPNP_DUTY_STEPS
<1>3. step # 0 /\ k # 1
  BY DEF Divides
<1> HIDE DEF step
<1>4. k \in Nat
  BY <1>1, <1>2, <1>3, Quotient
<1> HIDE DEF k
<1>5. Duty(k) \in Seq(Int)
  BY <1>3, <1>4, DutyTable
<1> QED BY <1>5 DEF k, step

\* Nothing is shown before anything is asked for.
LEMMA LightsInitHolds == LightsInit => LightsInv
<1> SUFFICES ASSUME LightsInit PROVE LightsInv
  OBVIOUS
<1>1. /\ wishes["notifications"] = Unset /\ wishes["battery"] = Unset
      /\ wishes["attention"] = Unset
  BY DEF LightsInit, Led
<1>2. AsAsked
  <2>1. wishes \in [Led -> Lit \cup {Unset}] /\ opened = {} /\ g_is_qpnp_device \in BOOLEAN
    BY DEF LightsInit
  <2>2. Attention(Unset) = [Unset EXCEPT !.color = Dark] /\ Attention(Unset) = Unset
    BY DEF Attention, Unset, Dark
  <2> QED BY <1>1, <2>1, <2>2 DEF LightsInit, AsAsked
<1>3. Dark \in [1..3 -> Int] /\ Dark[1] = 0 /\ <<>> \in Seq(Int)
  BY DEF Dark
<1>4. files \in Files
  <2> DEFINE none == <<>>
  <2>1. files = [rgb |-> Dark, blink |-> FALSE, freq |-> 0, pwm |-> 0, step |-> 0,
                 duty |-> none, lcd |-> 0, buttons |-> 0]
    BY DEF LightsInit
  <2>2. none \in Seq(Int)
    BY <1>3
  <2> HIDE DEF none
  <2> QED BY <1>3, <2>1, <2>2 DEF Files
<1>5. Winner = Unset
  BY <1>1 DEF Winner, Wants
<1>6. ShowsWinner
  <2>1. files.rgb = Dark /\ files.blink = FALSE
    BY DEF LightsInit
  <2>2. Unset.color = Dark
    BY DEF Unset
  <2>3. Flashes(Unset) = FALSE /\ is_lit(Unset) = FALSE
    BY UnsetDark DEF Flashes, is_lit
  <2> HIDE DEF Unset
  <2>4. files.rgb[1] = 0
    BY <1>3, <2>1
  <2> QED BY <1>5, <2>1, <2>2, <2>3, <2>4 DEF ShowsWinner
<1>7. DutyFits
  BY <1>5, UnsetDark DEF LightsInit, DutyFits
<1> QED BY <1>2, <1>4, <1>6, <1>7 DEF LightsInv, LightsInit, LedShows

\* A request of one of the LED's lights: what is remembered after it.
LEMMA RequestRemembered ==
  ASSUME LightsInv, NEW name \in Led, NEW state \in Lit, SetLed(name, state)
  PROVE  /\ AsAsked' /\ is_qpnp_device' = is_qpnp_device
         /\ handle_speaker_battery_locked(g_attention', g_battery', g_notification')
<1>1. /\ wishes' = [wishes EXCEPT ![name] = state]
      /\ UNCHANGED <<device, opened, g_is_qpnp_device>>
  BY DEF SetLed
<1>2. CASE name = "battery"
  <2>1. set_light_battery(state)
    BY <1>2 DEF SetLed
  <2> QED BY <1>1, <1>2, <2>1
          DEF LightsInv, AsAsked, set_light_battery, is_qpnp_device, Led
<1>3. CASE name = "notifications"
  <2>1. set_light_notifications(state)
    BY <1>3 DEF SetLed
  <2> QED BY <1>1, <1>3, <2>1
          DEF LightsInv, AsAsked, set_light_notifications, is_qpnp_device, Led
<1>4. CASE name = "attention"
  <2>1. set_light_attention(state)
    BY <1>4 DEF SetLed
  <2> QED BY <1>1, <1>4, <2>1
          DEF LightsInv, AsAsked, set_light_attention, is_qpnp_device, Led
<1> QED BY <1>2, <1>3, <1>4 DEF Led

\* The files after it show the request of highest rank, where they are written
\* at all, and hold a table that fits where its period does.
LEMMA RequestShows ==
  ASSUME ColoursFlash, LightsInv, NEW name \in Led, NEW state \in Lit, SetLed(name, state)
  PROVE  LightsInv'
<1> DEFINE a == wishes'["attention"]
           b == wishes'["battery"]
           n == wishes'["notifications"]
           s == Shown(g_attention', g_battery', g_notification')
           w == Best(a, b, n)
<1>1. /\ AsAsked' /\ is_qpnp_device' = is_qpnp_device
      /\ handle_speaker_battery_locked(g_attention', g_battery', g_notification')
  BY RequestRemembered
<1>2. /\ a \in Lit \cup {Unset} /\ b \in Lit \cup {Unset} /\ n \in Lit \cup {Unset}
      /\ g_attention' = Attention(a) /\ g_battery' = b /\ g_notification' = n
  BY <1>1 DEF AsAsked, Led
<1>3. /\ a \in LightState /\ b \in LightState /\ n \in LightState
      /\ Flashes(n) => is_lit(n)
  BY <1>2, RequestType, UnsetDark DEF ColoursFlash
<1> HIDE DEF a, b, n
<1>4. /\ s.color = w.color /\ Flashes(s) = Flashes(w)
      /\ Flashes(s) => OnMS(s) = OnMS(w) /\ OffMS(s) = OffMS(w)
  BY <1>2, <1>3, BestShown
<1>5. is_lit(s) = is_lit(w)
  BY <1>4 DEF is_lit
<1>6. s \in LightState
  <2>2. Attention(a) \in LightState
    BY <1>3, AttentionType
  <2>3. s = Attention(a) \/ s = n \/ s = b
    BY <1>2 DEF Shown
  <2> QED BY <1>3, <2>2, <2>3
<1>7. Winner' = w
  BY DEF Winner, Wants, Best, a, b, n
<1>8. g_is_qpnp_device = is_qpnp_device /\ ~crashed /\ files \in Files
  BY DEF SetLed, LightsInv, AsAsked
<1>9. /\ crashed' \in IF ~g_is_qpnp_device THEN {FALSE}
                      ELSE IF Divides(s) THEN {TRUE}
                      ELSE IF TooLong(s) THEN BOOLEAN ELSE {FALSE}
      /\ files' = IF crashed' THEN files
                  ELSE IF g_is_qpnp_device THEN set_speaker_light_locked_qpnp(s, n)
                  ELSE set_speaker_light_locked_shineled(s)
  BY <1>1, <1>2 DEF handle_speaker_battery_locked
<1> HIDE DEF s, w
<1>10. g_is_qpnp_device /\ ~crashed' =>
         /\ ~Divides(s) /\ files' = set_speaker_light_locked_qpnp(s, n)
         /\ files'.blink = Flashes(s)
         /\ files'.rgb[1] = IF ~is_lit(s) \/ Flashes(s) THEN 0 ELSE Brightness(n)
  BY <1>3, <1>6, <1>8, <1>9, QpnpWrites
<1>11. crashed' => g_is_qpnp_device /\ files' = files /\ (Divides(s) \/ TooLong(s))
  BY <1>9
<1>12. ~g_is_qpnp_device =>
         /\ ~crashed' /\ files' \in Files /\ files'.duty = files.duty
         /\ files'.rgb = s.color /\ files'.blink = Flashes(s)
  BY <1>6, <1>8, <1>9, ShineledWrites
<1>13. ShowsWinner'
  BY <1>1, <1>4, <1>5, <1>7, <1>8, <1>10, <1>11, <1>12 DEF ShowsWinner, Brightness, n
<1>14. g_is_qpnp_device /\ ~crashed' => files' \in Files
  BY <1>3, <1>6, <1>8, <1>10, QpnpWrites, MadeTable
<1>15. files' \in Files /\ crashed' \in BOOLEAN
  BY <1>8, <1>9, <1>11, <1>12, <1>14
<1>16. Flashes(s) => Flashes(w) /\ (ChipHolds(w) <=> ChipHolds(s))
  BY <1>4 DEF ChipHolds, TotalMS
<1>17. crashed' => ~ChipHolds(w)
  <2>1. Divides(s) \/ TooLong(s) => Flashes(s)
    BY DEF Divides, TooLong
  <2>2. Flashes(s) /\ ChipHolds(s) => ~Divides(s) /\ ~TooLong(s)
    <3>1. ASSUME Flashes(s), ChipHolds(s)
          PROVE  /\ ~Divides(s)
                 /\ Len(Duty(OnMS(s) \div (TotalMS(s) \div QPNP_DUTY_STEPS))) <= MaxLut
                 /\ Len(Duty(OnMS(s) \div (TotalMS(s) \div QPNP_DUTY_STEPS))) \in Nat
      <4>1. Duty(OnMS(s) \div (TotalMS(s) \div QPNP_DUTY_STEPS)) \in Seq(Int)
        BY <1>6, <3>1, HeldTable, MadeTable
      <4> QED BY <1>6, <3>1, <4>1, HeldTable
    <3> QED BY <3>1 DEF TooLong, MaxLut
  <2> QED BY <1>11, <1>16, <2>1, <2>2
<1>18. ASSUME ~crashed', g_is_qpnp_device, Flashes(w), ChipHolds(w)
       PROVE  Len(files'.duty) <= MaxLut /\ \A i \in 1..Len(files'.duty) : files'.duty[i] \in 0..100
  <2>1. Flashes(s) /\ ChipHolds(s) /\ ~Divides(s)
    BY <1>4, <1>10, <1>16, <1>18
  <2>2. files'.duty = Duty(OnMS(s) \div (TotalMS(s) \div QPNP_DUTY_STEPS))
    BY <1>3, <1>6, <1>8, <1>10, <1>18, <2>1, QpnpWrites, MadeTable
  <2> QED BY <1>6, <2>1, <2>2, HeldTable
<1>19. DutyFits'
  BY <1>1, <1>7, <1>8, <1>11, <1>17, <1>18 DEF DutyFits
<1> QED BY <1>1, <1>13, <1>15, <1>19 DEF LightsInv, LedShows

\* Opening, closing and the other two lights leave the LED as it is.
LEMMA OthersKeep ==
  ASSUME LightsInv, opened' \subseteq opened \/ g_is_qpnp_device' = is_qpnp_device,
         g_is_qpnp_device' \in {g_is_qpnp_device, is_qpnp_device},
         files' \in Files, files'.rgb = files.rgb, files'.blink = files.blink,
         files'.duty = files.duty,
         UNCHANGED <<device, g_notification, g_battery, g_attention, wishes, crashed>>
  PROVE  LightsInv'
<1>1. is_qpnp_device' = is_qpnp_device /\ is_qpnp_device \in BOOLEAN /\ Winner' = Winner
  BY DEF is_qpnp_device, Winner, Wants
<1>2. AsAsked'
  BY <1>1 DEF LightsInv, AsAsked
<1>3. ShowsWinner'
  BY <1>1 DEF LightsInv, LedShows, ShowsWinner
<1>4. DutyFits'
  BY <1>1 DEF LightsInv, LedShows, DutyFits
<1> QED BY <1>2, <1>3, <1>4 DEF LightsInv, LedShows

LEMMA LightsStep ==
  ASSUME ColoursFlash, LightsInv, [LightsNext]_lightVars
  PROVE  LightsInv'
<1>1. CASE UNCHANGED lightVars
  BY <1>1, OthersKeep DEF lightVars, LightsInv
<1>2. ASSUME NEW name \in Name, open_lights(name) \/ close_lights(name)
      PROVE  LightsInv'
  <2>1. /\ opened' \subseteq opened \/ g_is_qpnp_device' = is_qpnp_device
        /\ g_is_qpnp_device' \in {g_is_qpnp_device, is_qpnp_device}
        /\ UNCHANGED <<device, g_notification, g_battery, g_attention, files, wishes, crashed>>
    BY <1>2 DEF open_lights, close_lights
  <2> QED BY <2>1, OthersKeep DEF LightsInv
<1>3. ASSUME NEW name \in Led, NEW state \in Lit, SetLed(name, state)
      PROVE  LightsInv'
  BY <1>3, RequestShows
<1>4. ASSUME NEW l \in Level,
             set_light_backlight(<<l, l, l>>) \/ set_light_touchkeys(<<l, l, l>>)
      PROVE  LightsInv'
  <2>1. rgb_to_brightness(<<l, l, l>>) \in Int
    BY LightsAssumption DEF rgb_to_brightness
  <2>2. PICK v \in Int :
          files' = [files EXCEPT !.lcd = v] \/ files' = [files EXCEPT !.buttons = v]
    BY <1>4, <2>1 DEF set_light_backlight, set_light_touchkeys
  <2>3. UNCHANGED <<device, opened, g_is_qpnp_device, g_notification, g_battery, g_attention,
                    wishes, crashed>>
    BY <1>4 DEF set_light_backlight, set_light_touchkeys
  <2>4. /\ files' \in Files /\ files'.rgb = files.rgb /\ files'.blink = files.blink
        /\ files'.duty = files.duty
    BY <2>2 DEF LightsInv, Files
  <2> QED BY <2>3, <2>4, OthersKeep
<1> QED BY <1>1, <1>2, <1>3, <1>4 DEF LightsNext

\* Whatever the requests and their periods, in any order and through any opening
\* and closing of the devices: the LED shows the request of highest rank, the
\* process fails only by a request whose period the chip cannot hold, and the
\* table of one that it can fits.
THEOREM LightsSafe == ASSUME ColoursFlash PROVE LightsSpec => []LedShows
<1>1. LightsInv => LedShows
  BY DEF LightsInv
<1> QED BY LightsInitHolds, LightsStep, <1>1, PTL DEF LightsSpec

\* What the files take is a byte.
Bytes ==
  /\ device \in Device /\ opened \subseteq Name
  /\ files.pwm \in 0..255 /\ files.lcd \in 0..255 /\ files.buttons \in 0..255
  /\ \A c \in 1..3 : files.rgb[c] \in 0..255

\* The share of the period in which the light is on, out of 255.
LEMMA PwmByte ==
  ASSUME NEW s \in LightState, Flashes(s)
  PROVE  (OnMS(s) * 255) \div TotalMS(s) \in 0..255
<1>1. OnMS(s) \in Nat /\ TotalMS(s) \in Nat /\ TotalMS(s) > OnMS(s) /\ OnMS(s) > 0
  BY Times
<1> DEFINE x == OnMS(s) * 255
           y == TotalMS(s)
<1>2. x \in Nat /\ y \in Nat /\ y > 0 /\ x < 256 * y
  BY <1>1
<1> HIDE DEF x, y
<1>3. x \div y \in Nat /\ x \div y < 256
  BY <1>2, Quotient
<1>4. x \div y \in 0..255
  BY <1>3
<1> QED BY <1>4 DEF x, y

LEMMA BytesRequest ==
  ASSUME LightsInv, Bytes, NEW name \in Led, NEW state \in Lit, SetLed(name, state)
  PROVE  Bytes'
<1> DEFINE n == wishes'["notifications"]
           s == Shown(g_attention', g_battery', g_notification')
<1>1. /\ AsAsked'
      /\ handle_speaker_battery_locked(g_attention', g_battery', g_notification')
  BY RequestRemembered
<1>2. /\ n \in LightState /\ g_notification' = n
      /\ g_attention' \in LightState /\ g_battery' \in LightState
  BY <1>1, RequestType, AttentionType DEF AsAsked, Led
<1>3. s \in LightState
  BY <1>2 DEF Shown
<1> HIDE DEF n, s
<1>4. /\ UNCHANGED <<device, opened>> /\ files \in Files
      /\ \/ files' = files
         \/ files' = set_speaker_light_locked_qpnp(s, n)
         \/ files' = set_speaker_light_locked_shineled(s)
  BY <1>1, <1>2 DEF handle_speaker_battery_locked, SetLed, LightsInv, s
<1>5. CASE files' = set_speaker_light_locked_qpnp(s, n)
  <2>1. Brightness(n) \in 0..255
    BY <1>2 DEF Brightness, LightState
  <2>2. PICK v \in 0..255 :
          /\ files'.rgb = [files.rgb EXCEPT ![1] = v]
          /\ files'.pwm = files.pwm /\ files'.lcd = files.lcd /\ files'.buttons = files.buttons
    <3>1. CASE Flashes(s)
      BY <1>4, <1>5, <3>1 DEF set_speaker_light_locked_qpnp, Files
    <3>2. CASE ~Flashes(s)
      <4> DEFINE v == IF is_lit(s) THEN Brightness(n) ELSE 0
                 c == [files.rgb EXCEPT ![1] = v]
      <4>1. v \in 0..255
        BY <2>1
      <4>2. files' = [files EXCEPT !.blink = FALSE, !.rgb = c]
        BY <1>5, <3>2 DEF set_speaker_light_locked_qpnp
      <4>3. /\ files'.rgb = c
            /\ files'.pwm = files.pwm /\ files'.lcd = files.lcd /\ files'.buttons = files.buttons
        <5> HIDE DEF v, c
        <5> QED BY <1>4, <4>2 DEF Files
      <4> QED BY <4>1, <4>3
    <3> QED BY <3>1, <3>2
  <2>3. \A c \in 1..3 : files'.rgb[c] \in 0..255
    BY <1>4, <2>2 DEF Bytes, Files
  <2> QED BY <1>4, <2>2, <2>3 DEF Bytes
<1>6. CASE files' = set_speaker_light_locked_shineled(s)
  <2>1. s.color \in [1..3 -> 0..255]
    BY <1>3 DEF LightState
  <2>2. /\ files'.rgb = s.color /\ files'.lcd = files.lcd /\ files'.buttons = files.buttons
        /\ files'.pwm \in 0..255
    <3>1. CASE Flashes(s)
      <4> DEFINE pwm == (OnMS(s) * 255) \div TotalMS(s)
                 q == TotalMS(s) \div 50
                 p == IF pwm \in 1..15 THEN 16 ELSE pwm
                 c == s.color
      <4>1. files' = [files EXCEPT !.rgb = c, !.blink = TRUE, !.freq = q, !.pwm = p]
        BY <1>6, <3>1 DEF set_speaker_light_locked_shineled
      <4>2. p \in 0..255
        BY <1>3, <3>1, PwmByte
      <4> HIDE DEF p, q, c
      <4>3. files'.rgb = c /\ files'.lcd = files.lcd /\ files'.buttons = files.buttons /\ files'.pwm = p
        BY <1>4, <4>1 DEF Files
      <4> QED BY <4>2, <4>3 DEF c
    <3>2. CASE ~Flashes(s)
      BY <1>4, <1>6, <3>2 DEF set_speaker_light_locked_shineled, Files, Bytes
    <3> QED BY <3>1, <3>2
  <2> QED BY <1>4, <2>1, <2>2 DEF Bytes
<1> QED BY <1>4, <1>5, <1>6 DEF Bytes

LEMMA BytesStep ==
  ASSUME LightsInv, Bytes, [LightsNext]_lightVars
  PROVE  Bytes'
<1>1. CASE UNCHANGED lightVars
  BY <1>1 DEF lightVars, Bytes
<1>2. ASSUME NEW name \in Name, open_lights(name) \/ close_lights(name)
      PROVE  Bytes'
  BY <1>2 DEF open_lights, close_lights, Bytes
<1>3. ASSUME NEW name \in Led, NEW state \in Lit, SetLed(name, state)
      PROVE  Bytes'
  BY <1>3, BytesRequest
<1>4. ASSUME NEW l \in Level,
             set_light_backlight(<<l, l, l>>) \/ set_light_touchkeys(<<l, l, l>>)
      PROVE  Bytes'
  <2>1. rgb_to_brightness(<<l, l, l>>) \in 0..255
    BY LightsAssumption DEF rgb_to_brightness
  <2>2. PICK v \in 0..255 :
          files' = [files EXCEPT !.lcd = v] \/ files' = [files EXCEPT !.buttons = v]
    BY <1>4, <2>1 DEF set_light_backlight, set_light_touchkeys
  <2>3. UNCHANGED <<device, opened>> /\ files \in Files
    BY <1>4 DEF set_light_backlight, set_light_touchkeys, LightsInv
  <2>4. /\ files'.pwm = files.pwm /\ files'.rgb = files.rgb
        /\ files'.lcd \in {v, files.lcd} /\ files'.buttons \in {v, files.buttons}
    BY <2>2, <2>3 DEF Files
  <2> QED BY <2>3, <2>4 DEF Bytes
<1> QED BY <1>1, <1>2, <1>3, <1>4 DEF LightsNext

\* Whatever the requests and their periods: what is written to the files of the
\* LED, the display and the buttons fits a byte.
THEOREM LightsTypes == ASSUME ColoursFlash PROVE LightsSpec => []LightsTypeOK
<1>1. LightsInit => Bytes
  BY DEF LightsInit, Bytes, Dark
<1>2. LightsInv /\ Bytes => LightsTypeOK
  <2> SUFFICES ASSUME LightsInv, Bytes PROVE LightsTypeOK
    OBVIOUS
  <2>1. /\ g_notification \in LightState /\ g_battery \in LightState
        /\ g_attention \in LightState
    BY RequestType, AttentionType DEF LightsInv, AsAsked, Led
  <2>2. \A s \in LightState : DOMAIN s = DOMAIN Unset
    BY DEF LightState, Unset
  <2> QED BY <2>1, <2>2 DEF LightsInv, Bytes, Files, LightsTypeOK
<1> QED BY LightsInitHolds, LightsStep, BytesStep, <1>1, <1>2, PTL DEF LightsSpec

-----------------------------------------------------------------------------
(* Induction over the natural numbers, for a set of them.                   *)

LEMMA LeastOne ==
  ASSUME NEW T, T \subseteq Nat, T # {}
  PROVE  \E x \in T : \A y \in T : ~(y < x)
<1>1. PICK x \in T : \A y \in T : ~(<<y, x>> \in OpToRel(<, Nat))
  BY NatLessThanWellFounded, WFMin
<1>2. \A y \in T : ~(y < x)
  BY <1>1 DEF OpToRel
<1> QED BY <1>2

LEMMA Counting ==
  ASSUME NEW S, 0 \in S, \A n \in Nat : n \in S => n + 1 \in S
  PROVE  Nat \subseteq S
<1> SUFFICES ASSUME Nat \ S # {} PROVE FALSE
  OBVIOUS
<1>1. PICK x \in Nat \ S : \A y \in Nat \ S : ~(y < x)
  BY LeastOne
<1>2. x - 1 \in Nat /\ x - 1 < x /\ (x - 1) + 1 = x
  BY <1>1
<1> QED BY <1>1, <1>2

LEMMA GreatestOne ==
  ASSUME NEW T, T \subseteq Nat, T # {}, NEW b \in Nat, \A i \in T : i <= b
  PROVE  \E x \in T : \A y \in T : y <= x
<1> DEFINE U == {k \in Nat : \A i \in T : i <= k}
<1>1. b \in U
  OBVIOUS
<1>2. PICK x \in U : \A y \in U : ~(y < x)
  BY <1>1, LeastOne
<1>3. ASSUME x \notin T PROVE FALSE
  <2>1. \A i \in T : i \in Nat /\ i <= x /\ i # x
    BY <1>2, <1>3
  <2>2. x - 1 \in Nat /\ \A i \in T : i <= x - 1
    <3>1. PICK t \in T : t \in Nat /\ t <= x /\ t # x
      BY <2>1
    <3>2. x \in Nat /\ x - 1 \in Nat
      BY <1>2, <3>1
    <3>3. \A i \in Nat : i <= x /\ i # x => i <= x - 1
      BY <3>2
    <3> QED BY <2>1, <3>2, <3>3
  <2>3. x - 1 < x
    BY <1>2
  <2> QED BY <1>2, <2>2, <2>3
<1> QED BY <1>2, <1>3

\* What a recursion over the numbers up to N defines: it is a function.
Iteration(X, x0, N, step) ==
  {g \in [0..N -> X] : g[0] = x0 /\ \A k \in 1..N : g[k] = step[k][g[k - 1]]}

LEMMA Iterates ==
  ASSUME NEW X, NEW x0 \in X, NEW N \in Nat, NEW step, \A k \in 1..N : \A x \in X : step[k][x] \in X
  PROVE  Iteration(X, x0, N, step) # {}
<1> DEFINE Is(g, k) == g \in [0..k -> X] /\ g[0] = x0 /\ \A i \in 1..k : g[i] = step[i][g[i - 1]]
           S == {k \in Nat : k <= N => \E g : Is(g, k)}
<1>1. 0 \in S
  <2>1. Is([n \in 0..0 |-> x0], 0)
    OBVIOUS
  <2> QED BY <2>1
<1>2. ASSUME NEW k \in Nat, k \in S PROVE k + 1 \in S
  <2> SUFFICES ASSUME k + 1 <= N PROVE \E g : Is(g, k + 1)
    OBVIOUS
  <2>1. PICK g : Is(g, k)
    BY <1>2
  <2> DEFINE h == [n \in 0..(k + 1) |-> IF n = k + 1 THEN step[k + 1][g[k]] ELSE g[n]]
  <2>2. step[k + 1][g[k]] \in X
    <3>1. k + 1 \in 1..N /\ k \in 0..k
      OBVIOUS
    <3> QED BY <2>1, <3>1
  <2>3. h \in [0..(k + 1) -> X]
    <3>1. \A n \in 0..(k + 1) : n # k + 1 => n \in 0..k
      OBVIOUS
    <3> QED BY <2>1, <2>2, <3>1
  <2>4. ASSUME NEW i \in 1..(k + 1) PROVE h[i] = step[i][h[i - 1]]
    <3>1. i - 1 \in 0..k /\ i - 1 # k + 1 /\ i - 1 \in 0..(k + 1) /\ i \in 0..(k + 1)
      OBVIOUS
    <3>2. h[i - 1] = g[i - 1]
      BY <3>1
    <3>3. CASE i = k + 1
      <4>1. i - 1 = k
        BY <3>3
      <4> QED BY <3>1, <3>2, <3>3, <4>1
    <3>4. CASE i # k + 1
      <4>1. i \in 1..k
        BY <3>4
      <4> QED BY <2>1, <3>1, <3>2, <3>4, <4>1
    <3> QED BY <3>3, <3>4
  <2>5. h[0] = x0
    BY <2>1
  <2> HIDE DEF h
  <2> QED BY <2>3, <2>4, <2>5
<1> HIDE DEF S
<1>3. N \in S
  BY <1>1, <1>2, Counting
<1> QED BY <1>3 DEF S, Iteration

-----------------------------------------------------------------------------
(* The configuration reader.                                                *)

Own == {config_table, loc_param_table}

\* The lines among the first k of a text that give a parameter of a table a value,
\* and how many; those that are taken, and those of a name.
Giving(text, k, table)               == {i \in 1..k : text[i].param_name \in NamesOf(table) /\ text[i].value # {}}
Count(text, k, table)                == Cardinality(Giving(text, k, table))
Used(text, k, table, most)           == {i \in Giving(text, k, table) : Count(text, i - 1, table) < most}
LinesNaming(text, k, table, most, n) == {i \in Used(text, k, table, most) : text[i].param_name = n}

LEMMA EntriesIn ==
  ASSUME NEW table \in Own, NEW i \in DOMAIN table
  PROVE  \E k \in DOMAIN Tables : /\ Tables[k] = table[i]
                                  /\ \A j \in DOMAIN table : table[j].param_name = table[i].param_name => j = i
<1>1. config_table \in Seq(Entry) /\ loc_param_table \in Seq(Entry)
  BY CfgAssumption
<1> DEFINE n == IF table = config_table THEN 0 ELSE Len(config_table)
<1>2. n \in Nat /\ \A j \in DOMAIN table : j \in Nat /\ n + j \in DOMAIN Tables /\ Tables[n + j] = table[j]
  <2>1. CASE table = config_table
    BY <1>1, <2>1 DEF Tables
  <2>2. CASE table # config_table
    <3>1. table = loc_param_table
      BY <2>2 DEF Own
    <3> QED BY <1>1, <2>2, <3>1 DEF Tables
  <2> QED BY <2>1, <2>2
<1> HIDE DEF n
<1>3. ASSUME NEW j \in DOMAIN table, table[j].param_name = table[i].param_name PROVE j = i
  <2>1. n + j = n + i
    BY <1>2, <1>3, CfgAssumption
  <2> QED BY <1>2, <2>1
<1> QED BY <1>2, <1>3

LEMMA TypeIs ==
  ASSUME NEW table \in Own, NEW i \in DOMAIN table
  PROVE  /\ TypeOf(table[i].param_name) = table[i].param_type
         /\ table[i].param_type \in {"s", "n", "f"}
<1>1. PICK k \in DOMAIN Tables : Tables[k] = table[i]
  BY EntriesIn
<1>2. \A e \in {Tables[j] : j \in DOMAIN Tables} : e.param_name = table[i].param_name => e = table[i]
  BY <1>1, CfgAssumption
<1>3. table[i] \in {Tables[j] : j \in DOMAIN Tables}
  BY <1>1
<1>4. (CHOOSE e \in {Tables[j] : j \in DOMAIN Tables} : e.param_name = table[i].param_name) = table[i]
  BY <1>2, <1>3
<1>5. table[i] \in Entry
  BY CfgAssumption DEF Own
<1> QED BY <1>4, <1>5 DEF TypeOf, Entry

\* A line sets the parameter it names, if it has a value and the table the name.
Sets(table, line) == line.param_name \in NamesOf(table) /\ line.value # {}

LEMMA ItemDoes ==
  ASSUME NEW table \in Own, NEW line, NEW r, NEW s, s = loc_fill_conf_item(table, line, r), r.num_params \in Nat
  PROVE  /\ r.num_params = 0 => s = r
         /\ r.num_params # 0 =>
              /\ DOMAIN s.param = DOMAIN r.param
              /\ \A n \in DOMAIN r.param :
                   s.param[n] = IF Sets(table, line) /\ n = line.param_name
                                THEN Parsed(Operand(line.value), TypeOf(n)) ELSE r.param[n]
              /\ \A n \in NamesOf(table) :
                   n \in s.param_set <=>
                     (n \in r.param_set \/ (Sets(table, line) /\ n = line.param_name /\ n \in FlagsOf(table)))
              /\ r.param_set \subseteq s.param_set /\ s.param_set \subseteq r.param_set \cup NamesOf(table)
              /\ s.num_params = r.num_params - (IF Sets(table, line) THEN 1 ELSE 0)
              /\ s.ret = r.ret + 1
<1>1. CASE r.num_params = 0
  BY <1>1 DEF loc_fill_conf_item
<1>2. CASE r.num_params # 0
  <2> DEFINE hits == loc_set_config_entry(table, line)
  <2>1. s = [param |-> [n \in DOMAIN r.param |->
                          IF \E i \in hits : table[i].param_name = n
                          THEN Parsed(Operand(line.value), table[CHOOSE i \in hits : TRUE].param_type)
                          ELSE r.param[n]],
             param_set |-> r.param_set \cup {table[i].param_name : i \in {j \in hits : table[j].flag}},
             num_params |-> r.num_params - Cardinality(hits), ret |-> r.ret + 1]
    BY <1>2 DEF loc_fill_conf_item
  <2>2. CASE Sets(table, line)
    <3>1. PICK i \in DOMAIN table : table[i].param_name = line.param_name
      BY <2>2 DEF Sets, NamesOf
    <3>2. \A j \in DOMAIN table : table[j].param_name = line.param_name => j = i
      BY <3>1, EntriesIn
    <3>3. hits = {i}
      <4>1. table[i].param_type \in {"s", "n", "f"}
        BY TypeIs
      <4>2. \A j \in DOMAIN table : j \in hits <=> j = i
        BY <2>2, <3>1, <3>2, <4>1 DEF loc_set_config_entry, Sets
      <4> QED BY <4>2 DEF loc_set_config_entry
    <3>4. (CHOOSE j \in hits : TRUE) = i /\ Cardinality(hits) = 1
      BY <3>3, FS_Singleton
    <3> HIDE DEF hits
    <3>5. table[i].param_type = TypeOf(line.param_name)
      BY <3>1, TypeIs
    <3>6. s = [param |-> [n \in DOMAIN r.param |->
                          IF n = line.param_name
                          THEN Parsed(Operand(line.value), TypeOf(line.param_name)) ELSE r.param[n]],
               param_set |-> r.param_set \cup {n \in {line.param_name} : table[i].flag},
               num_params |-> r.num_params - 1, ret |-> r.ret + 1]
      <4>1. \A n : (\E j \in hits : table[j].param_name = n) <=> n = line.param_name
        BY <3>1, <3>3
      <4>2. {table[l].param_name : l \in {j \in hits : table[j].flag}} = {n \in {line.param_name} : table[i].flag}
        BY <3>1, <3>3
      <4> QED BY <2>1, <3>4, <3>5, <4>1, <4>2
    <3>7. line.param_name \in FlagsOf(table) <=> table[i].flag
      BY <3>1, <3>2 DEF FlagsOf
    <3>8. line.param_name \in NamesOf(table)
      BY <2>2 DEF Sets
    <3> QED BY <1>2, <2>2, <3>6, <3>7, <3>8
  <2>3. CASE ~Sets(table, line)
    <3>1. hits = {}
      BY <2>3 DEF loc_set_config_entry, Sets, NamesOf
    <3>2. Cardinality(hits) = 0
      BY <3>1, FS_EmptySet
    <3> HIDE DEF hits
    <3>3. s = [param |-> [n \in DOMAIN r.param |-> r.param[n]], param_set |-> r.param_set,
               num_params |-> r.num_params, ret |-> r.ret + 1]
      <4>1. \A n : ~(\E i \in hits : table[i].param_name = n)
        BY <3>1
      <4>2. r.param_set \cup {table[i].param_name : i \in {j \in hits : table[j].flag}} = r.param_set
        BY <3>1
      <4>3. r.num_params - Cardinality(hits) = r.num_params
        BY <3>2
      <4> QED BY <2>1, <4>1, <4>2, <4>3
    <3> QED BY <1>2, <2>3, <3>3
  <2> QED BY <2>2, <2>3
<1> QED BY <1>1, <1>2

\* The lines one after the other: a recursion over the length of the text.
LEMMA FillIs ==
  ASSUME NEW table, NEW text, NEW r, Len(text) \in Nat
  PROVE  \E g : /\ g = [n \in 0..Len(text) |->
                          IF n = 0 THEN r ELSE loc_fill_conf_item(table, text[n], g[n - 1])]
                /\ Fill(table, text, r) = g[Len(text)]
<1> DEFINE Is(g, k) == g = [n \in 0..k |-> IF n = 0 THEN r ELSE loc_fill_conf_item(table, text[n], g[n - 1])]
           S == {k \in Nat : \E g : Is(g, k)}
<1>1. 0 \in S
  <2>1. Is([n \in 0..0 |-> r], 0)
    OBVIOUS
  <2> QED BY <2>1
<1>2. ASSUME NEW k \in Nat, k \in S PROVE k + 1 \in S
  <2>1. PICK g : Is(g, k)
    BY <1>2
  <2> DEFINE h == [n \in 0..(k + 1) |-> IF n = k + 1 THEN loc_fill_conf_item(table, text[k + 1], g[k]) ELSE g[n]]
  <2>2. \A n \in 0..k : h[n] = g[n]
    OBVIOUS
  <2>3. ASSUME NEW n \in 0..(k + 1)
        PROVE  h[n] = IF n = 0 THEN r ELSE loc_fill_conf_item(table, text[n], h[n - 1])
    <3>1. CASE n = k + 1
      <4>1. n # 0 /\ n - 1 = k /\ h[k] = g[k]
        BY <2>2, <3>1
      <4> QED BY <3>1, <4>1
    <3>2. CASE n # k + 1
      <4>1. n \in 0..k /\ (n # 0 => n - 1 \in 0..k)
        BY <3>2
      <4>2. h[n] = g[n] /\ (n # 0 => h[n - 1] = g[n - 1])
        BY <2>2, <4>1
      <4>3. g[n] = IF n = 0 THEN r ELSE loc_fill_conf_item(table, text[n], g[n - 1])
        BY <2>1, <4>1
      <4> QED BY <4>2, <4>3
    <3> QED BY <3>1, <3>2
  <2>4. Is(h, k + 1)
    <3>1. h = [n \in 0..(k + 1) |-> h[n]]
      OBVIOUS
    <3> HIDE DEF h
    <3> QED BY <2>3, <3>1
  <2>5. \E a : Is(a, k + 1)
    BY <2>4
  <2> HIDE DEF Is
  <2> QED BY <2>5
<1>3. PICK g : Is(g, Len(text))
  <2> HIDE DEF S
  <2>1. Len(text) \in S
    BY <1>1, <1>2, Counting
  <2> QED BY <2>1 DEF S
<1> DEFINE after == CHOOSE a : Is(a, Len(text))
<1>4. Is(after, Len(text))
  BY <1>3
<1>5. Fill(table, text, r) = after[Len(text)]
  BY DEF Fill
<1> QED BY <1>4, <1>5

\* One more line, of which the count is known.
LEMMA CountNext ==
  ASSUME NEW text, NEW table, NEW k \in Nat
  PROVE  /\ IsFiniteSet(Giving(text, k, table)) /\ Count(text, k, table) \in Nat
         /\ Count(text, k + 1, table) = Count(text, k, table) + (IF Sets(table, text[k + 1]) THEN 1 ELSE 0)
<1>1. IsFiniteSet(Giving(text, k, table))
  <2>1. IsFiniteSet(1..k)
    BY FS_Interval
  <2>2. Giving(text, k, table) \subseteq 1..k
    BY DEF Giving
  <2> QED BY <2>1, <2>2, FS_Subset
<1>2. Count(text, k, table) \in Nat
  BY <1>1, FS_CardinalityType DEF Count
<1>3. /\ Sets(table, text[k + 1]) => /\ Giving(text, k + 1, table) = Giving(text, k, table) \cup {k + 1}
                                     /\ k + 1 \notin Giving(text, k, table)
      /\ ~Sets(table, text[k + 1]) => Giving(text, k + 1, table) = Giving(text, k, table)
  BY DEF Giving, Sets
<1>4. CASE Sets(table, text[k + 1])
  <2>1. Cardinality(Giving(text, k, table) \cup {k + 1}) = Cardinality(Giving(text, k, table)) + 1
    BY <1>1, <1>3, <1>4, FS_AddElement
  <2> QED BY <1>1, <1>2, <1>3, <1>4, <2>1 DEF Count
<1>5. CASE ~Sets(table, text[k + 1])
  BY <1>1, <1>2, <1>3, <1>5 DEF Count
<1> QED BY <1>4, <1>5

\* One more line: it is taken, and then the last, if it gives a value and the
\* count is not used up.
LEMMA UsedNext ==
  ASSUME NEW text, NEW table, NEW most \in Nat, NEW k \in Nat, NEW n \in NamesOf(table)
  PROVE  LET line == text[k + 1]
             now  == LinesNaming(text, k + 1, table, most, n)
             was  == LinesNaming(text, k, table, most, n)
         IN  IF Sets(table, line) /\ n = line.param_name /\ Count(text, k, table) < most
             THEN now # {} /\ Latest(now) = k + 1 ELSE now = was
<1> DEFINE line == text[k + 1]
           now  == LinesNaming(text, k + 1, table, most, n)
           was  == LinesNaming(text, k, table, most, n)
<1>1. \A i : i \in now <=> \/ i \in was
                           \/ i = k + 1 /\ Sets(table, line) /\ n = line.param_name /\ Count(text, k, table) < most
  <2>1. \A i \in 1..(k + 1) : i = k + 1 \/ i \in 1..k
    OBVIOUS
  <2>2. k + 1 \in 1..(k + 1) /\ (k + 1) - 1 = k /\ \A i \in 1..k : i \in 1..(k + 1) /\ i # k + 1
    OBVIOUS
  <2>3. \A i \in Giving(text, k, table) : i \in 1..k /\ i \in Giving(text, k + 1, table)
    BY <2>2 DEF Giving
  <2>4. \A i \in Giving(text, k + 1, table) : i # k + 1 => i \in Giving(text, k, table)
    BY <2>1 DEF Giving
  <2>5. k + 1 \in Giving(text, k + 1, table) <=> Sets(table, line)
    BY <2>2 DEF Giving, Sets
  <2>6. k + 1 \in now <=> Sets(table, line) /\ n = line.param_name /\ Count(text, k, table) < most
    BY <2>2, <2>5 DEF LinesNaming, Used
  <2>7. \A i : i # k + 1 => (i \in now <=> i \in was)
    BY <2>3, <2>4 DEF LinesNaming, Used
  <2>8. k + 1 \notin was
    BY <2>2, <2>3 DEF LinesNaming, Used
  <2> QED BY <2>6, <2>7, <2>8
<1>2. \A i \in now : i \in Nat /\ i <= k + 1
  BY DEF LinesNaming, Used, Giving
<1>3. CASE Sets(table, line) /\ n = line.param_name /\ Count(text, k, table) < most
  <2>1. k + 1 \in now
    BY <1>1, <1>3
  <2> HIDE DEF now, was, line
  <2>2. \A m \in now : (\A j \in now : j <= m) => m = k + 1
    BY <1>2, <2>1
  <2>3. Latest(now) = k + 1
    BY <1>2, <2>1, <2>2 DEF Latest
  <2> QED BY <1>3, <2>1, <2>3 DEF now, was, line
<1>4. CASE ~(Sets(table, line) /\ n = line.param_name /\ Count(text, k, table) < most)
  <2>1. now = was
    BY <1>1, <1>4
  <2> QED BY <1>4, <2>1
<1> QED BY <1>3, <1>4

\* What the lines of a text make of what was there.
Filled(s, r, table, text, len) ==
  /\ DOMAIN s.param = DOMAIN r.param
  /\ \A n \in DOMAIN r.param \ NamesOf(table) : s.param[n] = r.param[n]
  /\ r.param_set \subseteq s.param_set /\ s.param_set \subseteq r.param_set \cup NamesOf(table)
  /\ s.ret \in 0..len
  /\ \A n \in NamesOf(table) :
       LET lines == LinesNaming(text, len, table, r.num_params, n)
       IN  /\ s.param[n] = Written(text, lines, n, r.param[n])
           /\ n \in FlagsOf(table) => (n \in s.param_set <=> n \in r.param_set \/ lines # {})

\* The lines that give a value are taken until the count is used up.
LEMMA FillDoes ==
  ASSUME NEW table \in Own, NEW len \in Nat, NEW text \in [1..len -> Line],
         NEW r, r.num_params \in Nat, r.ret = 0, NamesOf(table) \subseteq DOMAIN r.param,
         NEW s, s = Fill(table, text, r)
  PROVE  Filled(s, r, table, text, len)
<1>1. Len(text) = len
  OBVIOUS
<1>2. PICK g : /\ g = [n \in 0..len |-> IF n = 0 THEN r ELSE loc_fill_conf_item(table, text[n], g[n - 1])]
               /\ s = g[len]
  BY <1>1, FillIs
<1> DEFINE most == r.num_params
           Kept(k) ==
             /\ DOMAIN g[k].param = DOMAIN r.param
             /\ \A n \in DOMAIN r.param \ NamesOf(table) : g[k].param[n] = r.param[n]
             /\ r.param_set \subseteq g[k].param_set /\ g[k].param_set \subseteq r.param_set \cup NamesOf(table)
             /\ g[k].ret \in 0..k
           ToCome(k) == g[k].num_params = IF Count(text, k, table) < most THEN most - Count(text, k, table) ELSE 0
           Made(k, n) ==
             /\ g[k].param[n] = Written(text, LinesNaming(text, k, table, most, n), n, r.param[n])
             /\ n \in FlagsOf(table) =>
                  (n \in g[k].param_set <=> n \in r.param_set \/ LinesNaming(text, k, table, most, n) # {})
           Good(k) == Kept(k) /\ ToCome(k) /\ \A n \in NamesOf(table) : Made(k, n)
           S == {k \in Nat : k <= len => Good(k)}
<1>4. 0 \in S
  <2>1. g[0] = r
    BY <1>2
  <2>2. Giving(text, 0, table) = {} /\ \A n : LinesNaming(text, 0, table, most, n) = {}
    BY DEF Giving, LinesNaming, Used
  <2>3. Count(text, 0, table) = 0
    BY <2>2, FS_EmptySet DEF Count
  <2>4. ToCome(0)
    BY <2>1, <2>3
  <2>5. \A n \in NamesOf(table) : Made(0, n)
    BY <2>1, <2>2 DEF Written
  <2>6. Kept(0)
    BY <2>1
  <2> QED BY <2>4, <2>5, <2>6
<1>5. ASSUME NEW k \in Nat, k \in S PROVE k + 1 \in S
  <2> SUFFICES ASSUME k + 1 <= len PROVE Good(k + 1)
    OBVIOUS
  <2>1. Good(k)
    BY <1>5
  <2>2. g[k + 1] = loc_fill_conf_item(table, text[k + 1], g[k])
    <3>1. k + 1 \in 0..len /\ k + 1 # 0 /\ (k + 1) - 1 = k
      OBVIOUS
    <3> QED BY <1>2, <3>1
  <2> DEFINE line == text[k + 1]
             old == g[k]
             new == g[k + 1]
             count == Count(text, k, table)
  <2>3. count \in Nat /\ Count(text, k + 1, table) = count + (IF Sets(table, line) THEN 1 ELSE 0)
    BY CountNext
  <2>4. old.num_params \in Nat /\ (old.num_params = 0 <=> ~(count < most))
    <3>1. old.num_params = IF count < most THEN most - count ELSE 0
      BY <2>1
    <3> HIDE DEF old, count
    <3> QED BY <2>3, <3>1
  <2>5. /\ old.num_params = 0 => new = old
        /\ old.num_params # 0 =>
              /\ DOMAIN new.param = DOMAIN old.param
              /\ \A n \in DOMAIN old.param :
                   new.param[n] = IF Sets(table, line) /\ n = line.param_name
                                THEN Parsed(Operand(line.value), TypeOf(n)) ELSE old.param[n]
              /\ \A n \in NamesOf(table) :
                   n \in new.param_set <=>
                     (n \in old.param_set \/ (Sets(table, line) /\ n = line.param_name /\ n \in FlagsOf(table)))
              /\ old.param_set \subseteq new.param_set /\ new.param_set \subseteq old.param_set \cup NamesOf(table)
              /\ new.num_params = old.num_params - (IF Sets(table, line) THEN 1 ELSE 0)
              /\ new.ret = old.ret + 1
    BY <2>2, <2>4, ItemDoes
  <2>6. \A n \in NamesOf(table) :
          IF Sets(table, line) /\ n = line.param_name /\ count < most
          THEN LinesNaming(text, k + 1, table, most, n) # {} /\ Latest(LinesNaming(text, k + 1, table, most, n)) = k + 1
          ELSE LinesNaming(text, k + 1, table, most, n) = LinesNaming(text, k, table, most, n)
    BY UsedNext
  <2>7. ToCome(k + 1)
    <3>1. old.num_params = IF count < most THEN most - count ELSE 0
      BY <2>1
    <3>2. new.num_params = IF old.num_params = 0 THEN 0 ELSE old.num_params - (IF Sets(table, line) THEN 1 ELSE 0)
      BY <2>5
    <3> PICK c \in Nat : c = Count(text, k + 1, table) /\ c = count + (IF Sets(table, line) THEN 1 ELSE 0)
      <4>1. Count(text, k + 1, table) \in Nat
        BY <2>3
      <4> QED BY <2>3, <4>1
    <3> HIDE DEF old, new, count, line
    <3>3. new.num_params = IF c < most THEN most - c ELSE 0
      BY <2>3, <3>1, <3>2
    <3> QED BY <3>3 DEF new
  <2>8. Kept(k + 1)
    <3>1. CASE old.num_params = 0
      BY <2>1, <2>5, <3>1
    <3>2. CASE old.num_params # 0
      <4>1. DOMAIN new.param = DOMAIN r.param /\ new.ret \in 0..(k + 1)
        BY <2>1, <2>5, <3>2
      <4>2. \A n \in DOMAIN r.param \ NamesOf(table) : new.param[n] = r.param[n]
        BY <2>1, <2>5, <3>2 DEF Sets
      <4>3. r.param_set \subseteq new.param_set /\ new.param_set \subseteq r.param_set \cup NamesOf(table)
        BY <2>1, <2>5, <3>2
      <4> QED BY <4>1, <4>2, <4>3
    <3> QED BY <3>1, <3>2
  <2>9. ASSUME NEW n \in NamesOf(table) PROVE Made(k + 1, n)
    <3>1. Made(k, n) /\ n \in DOMAIN old.param
      BY <2>1
    <3>2. CASE Sets(table, line) /\ n = line.param_name /\ count < most
      <4>1. old.num_params # 0
        BY <2>4, <3>2
      <4>2. new.param[n] = Parsed(Operand(line.value), TypeOf(n))
        BY <2>5, <3>1, <3>2, <4>1
      <4>3. n \in FlagsOf(table) => n \in new.param_set
        BY <2>5, <3>2, <4>1
      <4>4. LinesNaming(text, k + 1, table, most, n) # {} /\ Latest(LinesNaming(text, k + 1, table, most, n)) = k + 1
        BY <2>6, <3>2
      <4> QED BY <4>2, <4>3, <4>4 DEF Written
    <3>3. CASE ~(Sets(table, line) /\ n = line.param_name /\ count < most)
      <4>1. new.param[n] = old.param[n] /\ (n \in new.param_set <=> n \in old.param_set)
        BY <2>4, <2>5, <3>1, <3>3
      <4>2. LinesNaming(text, k + 1, table, most, n) = LinesNaming(text, k, table, most, n)
        BY <2>6, <3>3
      <4> QED BY <3>1, <4>1, <4>2
    <3> QED BY <3>2, <3>3
  <2> QED BY <2>7, <2>8, <2>9
<1>6. Good(len)
  <2>1. len \in S
    <3> HIDE DEF S
    <3> QED BY <1>4, <1>5, Counting
  <2> QED BY <2>1
<1> QED BY <1>2, <1>6 DEF Filled

\* The names of the two tables, which share none, are all the parameters.
LEMMA NamesApart ==
  /\ NamesOf(Tables) = NamesOf(config_table) \cup NamesOf(loc_param_table)
  /\ NamesOf(config_table) \cap NamesOf(loc_param_table) = {}
<1>1. config_table \in Seq(Entry) /\ loc_param_table \in Seq(Entry)
  BY CfgAssumption
<1>2. \A i \in DOMAIN config_table : i \in DOMAIN Tables /\ Tables[i] = config_table[i]
  BY <1>1 DEF Tables
<1>3. \A i \in DOMAIN loc_param_table : /\ Len(config_table) + i \in DOMAIN Tables
                                        /\ Tables[Len(config_table) + i] = loc_param_table[i]
  BY <1>1 DEF Tables
<1>4. \A i \in DOMAIN Tables : \/ i \in DOMAIN config_table /\ Tables[i] = config_table[i]
                               \/ /\ i - Len(config_table) \in DOMAIN loc_param_table
                                  /\ Tables[i] = loc_param_table[i - Len(config_table)]
  BY <1>1 DEF Tables
<1>5. \A i \in DOMAIN config_table, j \in DOMAIN loc_param_table : i # Len(config_table) + j
  BY <1>1
<1>6. NamesOf(Tables) \subseteq NamesOf(config_table) \cup NamesOf(loc_param_table)
  BY <1>4 DEF NamesOf
<1>7. NamesOf(config_table) \cup NamesOf(loc_param_table) \subseteq NamesOf(Tables)
  BY <1>2, <1>3 DEF NamesOf
<1>8. ASSUME NEW i \in DOMAIN config_table, NEW j \in DOMAIN loc_param_table
      PROVE  config_table[i].param_name # loc_param_table[j].param_name
  BY <1>2, <1>3, <1>5, CfgAssumption
<1>9. NamesOf(config_table) \cap NamesOf(loc_param_table) = {}
  BY <1>8 DEF NamesOf
<1> QED BY <1>6, <1>7, <1>9

\* The lines of a text, as the properties count them.
LEMMA TextLines ==
  ASSUME NEW text \in ConfTexts
  PROVE  \E len \in 0..MaxLines :
           /\ text \in [1..len -> Line]
           /\ \A table, most, n : LinesOf(text, table, most, n) = LinesNaming(text, len, table, most, n)
<1>1. PICK len \in 0..MaxLines : text \in [1..len -> Line]
  BY CfgAssumption DEF ConfTexts
<1>2. DOMAIN text = 1..len /\ len \in Nat
  BY <1>1, CfgAssumption
<1>3. ASSUME NEW table
      PROVE  Gives(text, table) = Giving(text, len, table)
  BY <1>2 DEF Gives, Giving
<1>4. ASSUME NEW table, NEW i \in Giving(text, len, table)
      PROVE  {j \in Giving(text, len, table) : j < i} = Giving(text, i - 1, table)
  BY <1>2 DEF Giving
<1>5. ASSUME NEW table, NEW most
      PROVE  Taken(text, table, most) = Used(text, len, table, most)
  BY <1>3, <1>4 DEF Taken, Used, Count
<1>6. ASSUME NEW table, NEW most, NEW n
      PROVE  LinesOf(text, table, most, n) = LinesNaming(text, len, table, most, n)
  BY <1>5 DEF LinesOf, LinesNaming
<1> QED BY <1>1, <1>6

\* What a file makes of the parameters and their flags: the log's come second.
LEMMA FileRead ==
  ASSUME CfgTypeOK, NEW text \in ConfTexts, loc_read_conf(text)
  PROVE  CfgTypeOK' /\ ConfRead'
<1> DEFINE r   == [param |-> param, param_set |-> param_set \ FlagsOf(config_table),
                   num_params |-> Len(config_table), ret |-> 0]
           own == Fill(config_table, text, r)
           q   == [param |-> own.param, param_set |-> own.param_set \ FlagsOf(loc_param_table),
                   num_params |-> Len(loc_param_table), ret |-> 0]
           log == Fill(loc_param_table, text, q)
<1>1. ReadText("read", text, log)
  BY DEF loc_read_conf, loc_read_conf_r
<1>2. Len(config_table) \in Nat /\ Len(loc_param_table) \in Nat /\ config_table \in Own /\ loc_param_table \in Own
  BY CfgAssumption DEF Own
<1>3. PICK len \in 0..MaxLines :
           /\ text \in [1..len -> Line]
           /\ \A table, most, n : LinesOf(text, table, most, n) = LinesNaming(text, len, table, most, n)
  BY TextLines
<1>4. len \in Nat /\ len <= MaxLines
  BY <1>3, CfgAssumption
<1>5. /\ r.num_params = Len(config_table) /\ r.ret = 0 /\ r.param = param
      /\ r.param_set = param_set \ FlagsOf(config_table)
  OBVIOUS
<1>6. /\ q.num_params = Len(loc_param_table) /\ q.ret = 0 /\ q.param = own.param
      /\ q.param_set = own.param_set \ FlagsOf(loc_param_table)
  OBVIOUS
<1> HIDE DEF r, q
<1>7. NamesOf(config_table) \subseteq DOMAIN param /\ NamesOf(loc_param_table) \subseteq DOMAIN param
  BY NamesApart DEF CfgTypeOK
<1>f. \A table \in Own : FlagsOf(table) \subseteq NamesOf(table)
  BY DEF FlagsOf, NamesOf
<1>8. /\ DOMAIN own.param = DOMAIN param
      /\ \A n \in DOMAIN param \ NamesOf(config_table) : own.param[n] = param[n]
      /\ r.param_set \subseteq own.param_set /\ own.param_set \subseteq r.param_set \cup NamesOf(config_table)
      /\ \A n \in NamesOf(config_table) :
           LET lines == LinesNaming(text, len, config_table, Len(config_table), n)
           IN  /\ own.param[n] = Written(text, lines, n, param[n])
               /\ n \in FlagsOf(config_table) => (n \in own.param_set <=> n \in r.param_set \/ lines # {})
  <2>1. r.num_params \in Nat /\ NamesOf(config_table) \subseteq DOMAIN r.param /\ text \in [1..len -> Line]
    BY <1>2, <1>3, <1>5, <1>7
  <2>2. own = Fill(config_table, text, r)
    OBVIOUS
  <2> HIDE DEF own
  <2>3. Filled(own, r, config_table, text, len)
    BY <1>2, <1>4, <1>5, <2>1, <2>2, FillDoes
  <2> QED BY <1>5, <2>3 DEF Filled
<1> HIDE DEF own
<1>9. /\ DOMAIN log.param = DOMAIN param
      /\ \A n \in DOMAIN param \ NamesOf(loc_param_table) : log.param[n] = own.param[n]
      /\ q.param_set \subseteq log.param_set /\ log.param_set \subseteq q.param_set \cup NamesOf(loc_param_table)
      /\ log.ret \in 0..len
      /\ \A n \in NamesOf(loc_param_table) :
           LET lines == LinesNaming(text, len, loc_param_table, Len(loc_param_table), n)
           IN  /\ log.param[n] = Written(text, lines, n, own.param[n])
               /\ n \in FlagsOf(loc_param_table) => (n \in log.param_set <=> n \in q.param_set \/ lines # {})
  <2>1. /\ q.num_params \in Nat /\ NamesOf(loc_param_table) \subseteq DOMAIN q.param /\ text \in [1..len -> Line]
        /\ DOMAIN q.param = DOMAIN param
    BY <1>2, <1>3, <1>6, <1>7, <1>8
  <2>2. log = Fill(loc_param_table, text, q)
    OBVIOUS
  <2> HIDE DEF log
  <2>3. Filled(log, q, loc_param_table, text, len)
    BY <1>2, <1>4, <1>6, <2>1, <2>2, FillDoes
  <2> QED BY <1>6, <2>1, <2>3 DEF Filled
<1> HIDE DEF log
<1>10. /\ param' = log.param /\ param_set' = log.param_set /\ read'.call = "read" /\ read'.ret = log.ret
       /\ read'.text = text /\ before'.param = param
       /\ reads < MaxReads /\ reads' = reads + 1
  BY <1>1 DEF ReadText
<1>11. CfgTypeOK'
  <2>1. DOMAIN param' = NamesOf(Tables)
    BY <1>9, <1>10 DEF CfgTypeOK
  <2>2. param_set' \subseteq NamesOf(Tables)
    BY <1>5, <1>6, <1>8, <1>9, <1>10, NamesApart DEF CfgTypeOK
  <2>3. read'.ret \in 0..MaxLines
    BY <1>4, <1>9, <1>10, CfgAssumption
  <2>4. reads' \in 0..MaxReads
    BY <1>10, CfgAssumption DEF CfgTypeOK
  <2> QED BY <1>10, <2>1, <2>2, <2>3, <2>4 DEF CfgTypeOK, NamesOf, Tables
<1>12. ASSUME NEW n \in NamesOf(config_table)
       PROVE  LET lines == LinesNaming(text, len, config_table, Len(config_table), n)
              IN  /\ param'[n] = Written(text, lines, n, param[n])
                  /\ n \in FlagsOf(config_table) => (n \in param_set' <=> lines # {})
  <2>1. n \in DOMAIN param \ NamesOf(loc_param_table)
    BY <1>7, NamesApart
  <2>2. n \in log.param_set <=> n \in own.param_set
    BY <1>2, <1>6, <1>9, <1>f, <2>1
  <2>3. param'[n] = own.param[n]
    BY <1>9, <1>10, <2>1
  <2>4. n \in FlagsOf(config_table) => n \notin r.param_set
    BY <1>5
  <2> QED BY <1>8, <1>10, <2>2, <2>3, <2>4
<1>13. ASSUME NEW n \in NamesOf(loc_param_table)
       PROVE  LET lines == LinesNaming(text, len, loc_param_table, Len(loc_param_table), n)
              IN  /\ param'[n] = Written(text, lines, n, param[n])
                  /\ n \in FlagsOf(loc_param_table) => (n \in param_set' <=> lines # {})
  <2>1. own.param[n] = param[n]
    BY <1>7, <1>8, NamesApart
  <2>2. n \in FlagsOf(loc_param_table) => n \notin q.param_set
    BY <1>6
  <2> QED BY <1>9, <1>10, <2>1, <2>2
<1>14. ASSUME NEW table \in Own
       PROVE  /\ AsWritten(table, Len(table))'
              /\ \A n \in FlagsOf(table) : n \in param_set' <=> LinesOf(text, table, Len(table), n) # {}
  <2>1. \A n \in NamesOf(table) :
          LET lines == LinesNaming(text, len, table, Len(table), n)
          IN  /\ param'[n] = Written(text, lines, n, param[n])
              /\ n \in FlagsOf(table) => (n \in param_set' <=> lines # {})
    <3>1. CASE table = config_table
      BY <1>12, <3>1
    <3>2. CASE table = loc_param_table
      BY <1>13, <3>2
    <3> QED BY <3>1, <3>2 DEF Own
  <2>2. AsWritten(table, Len(table))'
    BY <1>3, <1>10, <2>1 DEF AsWritten, NamesOf
  <2> QED BY <1>3, <1>f, <2>1, <2>2
<1>15. ConfRead'
  BY <1>10, <1>14 DEF ConfRead, FlagsOf, Own
<1> QED BY <1>11, <1>15

\* A text of the framework leaves the log's parameters alone.
LEMMA TextTaken ==
  ASSUME CfgTypeOK, NEW text \in ConfTexts, loc_update_conf(text)
  PROVE  CfgTypeOK' /\ ConfRead'
<1> DEFINE most == Len(config_table) - 1
           r == [param |-> param, param_set |-> param_set, num_params |-> most, ret |-> 0]
           s == Fill(config_table, text, r)
<1>1. ReadText("update", text, s) /\ config_table # <<>>
  BY DEF loc_update_conf
<1>2. most \in Nat /\ config_table \in Own
  BY <1>1, CfgAssumption DEF Own
<1>3. PICK len \in 0..MaxLines :
           /\ text \in [1..len -> Line]
           /\ \A table, some, n : LinesOf(text, table, some, n) = LinesNaming(text, len, table, some, n)
  BY TextLines
<1>4. len \in Nat /\ len <= MaxLines
  BY <1>3, CfgAssumption
<1>5. r.num_params = most /\ r.ret = 0 /\ r.param = param /\ r.param_set = param_set
  OBVIOUS
<1> HIDE DEF r
<1>6. NamesOf(config_table) \subseteq DOMAIN param /\ NamesOf(loc_param_table) \subseteq DOMAIN param
  BY NamesApart DEF CfgTypeOK
<1>7. /\ DOMAIN s.param = DOMAIN param
      /\ \A n \in DOMAIN param \ NamesOf(config_table) : s.param[n] = param[n]
      /\ param_set \subseteq s.param_set /\ s.param_set \subseteq param_set \cup NamesOf(config_table)
      /\ s.ret \in 0..len
      /\ \A n \in NamesOf(config_table) :
           LET lines == LinesNaming(text, len, config_table, most, n)
           IN  /\ s.param[n] = Written(text, lines, n, param[n])
               /\ n \in FlagsOf(config_table) => (n \in s.param_set <=> n \in param_set \/ lines # {})
  <2>1. r.num_params \in Nat /\ NamesOf(config_table) \subseteq DOMAIN r.param /\ text \in [1..len -> Line]
    BY <1>2, <1>3, <1>5, <1>6
  <2>2. s = Fill(config_table, text, r)
    OBVIOUS
  <2> HIDE DEF s
  <2>3. Filled(s, r, config_table, text, len)
    BY <1>2, <1>4, <1>5, <2>1, <2>2, FillDoes
  <2> QED BY <1>5, <2>3 DEF Filled
<1> HIDE DEF s
<1>8. /\ param' = s.param /\ param_set' = s.param_set /\ read'.call = "update" /\ read'.ret = s.ret
      /\ before'.param = param /\ before'.param_set = param_set
      /\ read'.text = text /\ reads < MaxReads /\ reads' = reads + 1
  BY <1>1 DEF ReadText
<1>9. CfgTypeOK'
  <2>1. DOMAIN param' = NamesOf(Tables) /\ param_set' \subseteq NamesOf(Tables)
    BY <1>7, <1>8, NamesApart DEF CfgTypeOK
  <2>2. read'.ret \in 0..MaxLines
    BY <1>4, <1>7, <1>8, CfgAssumption
  <2>3. reads' \in 0..MaxReads
    BY <1>8, CfgAssumption DEF CfgTypeOK
  <2> QED BY <1>8, <2>1, <2>2, <2>3 DEF CfgTypeOK, NamesOf, Tables
<1>10. AsWritten(config_table, most)'
  BY <1>3, <1>7, <1>8 DEF AsWritten, NamesOf
<1>11. \A n \in NamesOf(loc_param_table) : param'[n] = before'.param[n]
  BY <1>6, <1>7, <1>8, NamesApart
<1>12. ASSUME NEW n \in FlagsOf(config_table)
       PROVE  n \in param_set' <=> n \in before'.param_set \/ LinesOf(text, config_table, most, n) # {}
  <2>1. n \in NamesOf(config_table)
    BY DEF FlagsOf, NamesOf
  <2> QED BY <1>2, <1>3, <1>7, <1>8, <2>1
<1>13. ConfRead'
  BY <1>8, <1>10, <1>11, <1>12 DEF ConfRead, NamesOf, FlagsOf
<1> QED BY <1>9, <1>13

(* The reader of gps.conf, for every pair of tables whose names differ and  *)
(* for texts of any length: whichever files and texts were read, and in     *)
(* whatever order, a parameter has the value of its last line that counts.  *)
THEOREM ConfIsRead == CfgSpec => [](CfgTypeOK /\ ConfRead)
<1>1. CfgInit => CfgTypeOK /\ ConfRead
  BY CfgAssumption DEF CfgInit, CfgTypeOK, ConfRead
<1>2. CfgTypeOK /\ ConfRead /\ [CfgNext]_cfgVars => (CfgTypeOK /\ ConfRead)'
  <2> SUFFICES ASSUME CfgTypeOK, ConfRead, [CfgNext]_cfgVars PROVE (CfgTypeOK /\ ConfRead)'
    OBVIOUS
  <2>1. ASSUME NEW text \in ConfTexts, loc_read_conf(text) PROVE (CfgTypeOK /\ ConfRead)'
    BY <2>1, FileRead
  <2>2. ASSUME NEW text \in ConfTexts, loc_update_conf(text) PROVE (CfgTypeOK /\ ConfRead)'
    BY <2>2, TextTaken
  <2>3. CASE UNCHANGED cfgVars
    <3>1. /\ param' = param /\ param_set' = param_set /\ read' = read /\ before' = before /\ reads' = reads
      BY <2>3 DEF cfgVars
    <3>2. CfgTypeOK'
      BY <3>1 DEF CfgTypeOK, NamesOf, Tables
    <3>3. \A table, most : AsWritten(table, most)' <=> AsWritten(table, most)
      BY <3>1 DEF AsWritten, NamesOf
    <3>8. ConfRead'
      BY <3>1, <3>3 DEF ConfRead, FlagsOf, NamesOf
    <3> QED BY <3>2, <3>8
  <2> QED BY <2>1, <2>2, <2>3 DEF CfgNext
<1> QED BY <1>1, <1>2, PTL DEF CfgSpec

-----------------------------------------------------------------------------
(* The linked list.                                                         *)

\* The element at a place of the chain, or NULL before its head and after its tail.
At(w, i) == IF i \in DOMAIN w THEN w[i] ELSE Nil

Held == [data : Data, dealloc : BOOLEAN]

\* The elements m of a list l, chained in the order w, hold what h says.
ChainOf(l, m, h, w) ==
  /\ w \in Seq(Address) /\ h \in Seq(Held) /\ Len(h) = Len(w)
  /\ DOMAIN m = EntriesOf(w)
  /\ \A i, j \in DOMAIN w : w[i] = w[j] => i = j
  /\ \/ l = None /\ w = <<>>
     \/ l = {[head |-> At(w, 1), tail |-> At(w, Len(w))]}
  /\ \A i \in DOMAIN w :
       m[w[i]] = [next |-> At(w, i + 1), prev |-> At(w, i - 1), data |-> h[i].data, dealloc |-> h[i].dealloc]

\* No object is in the list twice, and none that was freed.
Owned ==
  /\ \A i, j \in DOMAIN held : held[i].data = held[j].data => i = j
  /\ freed \in [Data -> 0..1] /\ \A d \in InList : freed[d] = 0
  /\ gave.got = gave.due /\ gave.got \subseteq Data

ListInv == (\E w : ChainOf(list, elems, held, w)) /\ Owned

LEMMA CountTo == ASSUME NEW n \in Nat PROVE IsFiniteSet(1..n) /\ Cardinality(1..n) = n
<1>1. IsFiniteSet(1..n) /\ Cardinality(1..n) = IF 1 > n THEN 0 ELSE n - 1 + 1
  BY FS_Interval
<1> QED BY <1>1

LEMMA TheOne == ASSUME NEW x PROVE The({x}) = x
BY DEF The

\* A list of distinct addresses fits in the memory.
LEMMA Fits ==
  ASSUME NEW w \in Seq(Address), \A i, j \in DOMAIN w : w[i] = w[j] => i = j
  PROVE  Len(w) \in 0..MaxElems
<1>1. IsFiniteSet(Address) /\ Cardinality(Address) = MaxElems
  BY CountTo, ListAssumption DEF Address
<1>2. Len(w) \in Nat /\ IsFiniteSet(1..Len(w)) /\ Cardinality(1..Len(w)) = Len(w)
  BY CountTo
<1>3. w \in Injection(1..Len(w), Address)
  <2>1. w \in [1..Len(w) -> Address] /\ DOMAIN w = 1..Len(w)
    OBVIOUS
  <2> QED BY <2>1 DEF Injection, IsInjective
<1>4. Cardinality(1..Len(w)) <= Cardinality(Address)
  BY <1>1, <1>3, FS_Injection
<1> QED BY <1>1, <1>2, <1>4

\* The walk along next meets the chain from its head to its tail.
LEMMA WalkIs ==
  ASSUME NEW w, ChainOf(list, elems, held, w), list # None
  PROVE  Walk(p_head) = w
<1>1. /\ w \in Seq(Address) /\ DOMAIN elems = EntriesOf(w) /\ DOMAIN w = 1..Len(w) /\ Len(w) \in Nat
      /\ list = {[head |-> At(w, 1), tail |-> At(w, Len(w))]}
      /\ \A i \in DOMAIN w : elems[w[i]].next = At(w, i + 1)
  <2>1. w \in Seq(Address) /\ DOMAIN elems = EntriesOf(w) /\ (list # None => list = {[head |-> At(w, 1), tail |-> At(w, Len(w))]})
    BY DEF ChainOf
  <2>2. \A i \in DOMAIN w :
          elems[w[i]] = [next |-> At(w, i + 1), prev |-> At(w, i - 1), data |-> held[i].data, dealloc |-> held[i].dealloc]
    BY DEF ChainOf
  <2>3. ASSUME NEW i \in DOMAIN w PROVE elems[w[i]].next = At(w, i + 1)
    <3>1. elems[w[i]] = [next |-> At(w, i + 1), prev |-> At(w, i - 1), data |-> held[i].data, dealloc |-> held[i].dealloc]
      BY <2>2
    <3> QED BY <3>1
  <2>4. DOMAIN w = 1..Len(w) /\ Len(w) \in Nat
    BY <2>1
  <2> QED BY <2>1, <2>3, <2>4
<1>2. p_head = At(w, 1)
  <2>1. The(list) = [head |-> At(w, 1), tail |-> At(w, Len(w))]
    BY <1>1, TheOne
  <2> QED BY <2>1 DEF p_head
<1>3. Len(w) <= MaxElems
  BY <1>1, Fits DEF ChainOf
<1>4. Nil \notin DOMAIN elems
  <2>1. \A i \in DOMAIN w : w[i] \in Address
    BY <1>1
  <2>2. Nil \notin Address
    BY ListAssumption DEF Nil, Address
  <2> QED BY <1>1, <2>1, <2>2 DEF EntriesOf
<1> DEFINE Is(g) == g = [n \in 1..MaxElems |->
                           IF n = 1 THEN p_head
                           ELSE IF g[n - 1] \in DOMAIN elems THEN elems[g[n - 1]].next ELSE Nil]
           met == [n \in 1..MaxElems |-> At(w, n)]
<1>5. Is(met)
  <2> SUFFICES ASSUME NEW n \in 1..MaxElems
               PROVE  met[n] = IF n = 1 THEN p_head
                               ELSE IF met[n - 1] \in DOMAIN elems THEN elems[met[n - 1]].next ELSE Nil
    OBVIOUS
  <2>1. CASE n = 1
    BY <1>2, <2>1
  <2>2. CASE n # 1
    <3>1. n \in Nat /\ n - 1 \in 1..MaxElems /\ (n - 1) + 1 = n
      BY <2>2, ListAssumption
    <3>2. met[n] = At(w, n) /\ met[n - 1] = At(w, n - 1)
      BY <3>1
    <3>3. CASE n - 1 \in DOMAIN w
      <4>1. met[n - 1] = w[n - 1] /\ w[n - 1] \in DOMAIN elems
        BY <1>1, <3>2, <3>3 DEF At, EntriesOf
      <4> QED BY <1>1, <2>2, <3>1, <3>2, <3>3, <4>1
    <3>4. CASE n - 1 \notin DOMAIN w
      <4>1. n \notin DOMAIN w
        BY <1>1, <3>1, <3>4
      <4> QED BY <1>4, <2>2, <3>2, <3>4, <4>1 DEF At
    <3> QED BY <3>3, <3>4
  <2> QED BY <2>1, <2>2
<1> DEFINE at == CHOOSE g : Is(g)
<1>6. Is(at)
  BY <1>5
<1>7. \A n \in 1..MaxElems : at[n] = At(w, n)
  <2> DEFINE S == {n \in Nat : n \in 1..MaxElems => at[n] = At(w, n)}
  <2> HIDE DEF at, met
  <2>1. 0 \in S
    OBVIOUS
  <2>2. ASSUME NEW n \in Nat, n \in S PROVE n + 1 \in S
    <3> SUFFICES ASSUME n + 1 \in 1..MaxElems PROVE at[n + 1] = At(w, n + 1)
      OBVIOUS
    <3>1. (n + 1) - 1 = n
      OBVIOUS
    <3>2. at[n + 1] = IF n + 1 = 1 THEN p_head ELSE IF at[n] \in DOMAIN elems THEN elems[at[n]].next ELSE Nil
      BY <1>6, <3>1
    <3>3. met[n + 1] = IF n + 1 = 1 THEN p_head ELSE IF met[n] \in DOMAIN elems THEN elems[met[n]].next ELSE Nil
      BY <1>5, <3>1
    <3>4. met[n + 1] = At(w, n + 1) /\ (n # 0 => met[n] = At(w, n))
      BY ListAssumption DEF met
    <3>5. n # 0 => at[n] = At(w, n)
      BY <2>2, ListAssumption
    <3> QED BY <3>2, <3>3, <3>4, <3>5
  <2>3. Nat \subseteq S
    <3> HIDE DEF S
    <3> QED BY <2>1, <2>2, Counting
  <2> QED BY <2>3, ListAssumption
<1>8. {n \in 1..MaxElems : at[n] \in DOMAIN elems} = 1..Len(w)
  <2> HIDE DEF at
  <2>1. \A n \in 1..MaxElems : At(w, n) \in DOMAIN elems <=> n \in 1..Len(w)
    BY <1>1, <1>4 DEF At, EntriesOf
  <2>2. 1..Len(w) \subseteq 1..MaxElems
    BY <1>1, <1>3, ListAssumption
  <2> QED BY <1>7, <2>1, <2>2
<1>9. Cardinality({n \in 1..MaxElems : at[n] \in DOMAIN elems}) = Len(w)
  BY <1>1, <1>8, CountTo
<1>10. Walk(p_head) = [i \in 1..Len(w) |-> at[i]]
  BY <1>9 DEF Walk
<1>11. \A i \in 1..Len(w) : at[i] = w[i]
  <2> HIDE DEF at
  <2> QED BY <1>1, <1>3, <1>7, ListAssumption DEF At
<1>12. w = [i \in 1..Len(w) |-> w[i]]
  BY <1>1
<1> HIDE DEF at
<1> QED BY <1>10, <1>11, <1>12

LEMMA AtOne ==
  ASSUME NEW w \in Seq(Address), \A i, j \in DOMAIN w : w[i] = w[j] => i = j, NEW i \in DOMAIN w
  PROVE  \A j : At(w, j) = w[i] <=> j = i
<1>1. w[i] # Nil
  BY ListAssumption DEF Nil, Address
<1> QED BY <1>1 DEF At

\* An element is unlinked: its neighbours, or the ends of the list, close up.
LEMMA Cut ==
  ASSUME NEW l, NEW m, NEW h, NEW w, ChainOf(l, m, h, w), NEW k \in DOMAIN w,
         NEW n, n = [a \in DOMAIN m \ {w[k]} |->
                       [next |-> IF a = At(w, k - 1) THEN At(w, k + 1) ELSE m[a].next,
                        prev |-> IF a = At(w, k + 1) THEN At(w, k - 1) ELSE m[a].prev,
                        data |-> m[a].data, dealloc |-> m[a].dealloc]],
         NEW s, s = {[head |-> IF k = 1 THEN At(w, 2) ELSE At(w, 1),
                      tail |-> IF k = Len(w) THEN At(w, k - 1) ELSE At(w, Len(w))]}
  PROVE  ChainOf(s, n, CutAt(h, k), CutAt(w, k))
<1> DEFINE v == CutAt(w, k)
           g == CutAt(h, k)
<1>1. /\ w \in Seq(Address) /\ h \in Seq(Held) /\ Len(h) = Len(w) /\ Len(w) \in Nat
      /\ DOMAIN w = 1..Len(w) /\ DOMAIN h = 1..Len(w) /\ k \in 1..Len(w) /\ k \in Nat
      /\ DOMAIN m = EntriesOf(w) /\ \A i, j \in DOMAIN w : w[i] = w[j] => i = j
      /\ \A i \in DOMAIN w : w[i] \in Address
      /\ \A i \in DOMAIN h : h[i] \in Held
  BY DEF ChainOf
<1>2. /\ DOMAIN v = 1..(Len(w) - 1) /\ Len(v) = Len(w) - 1 /\ v \in Seq(Address)
      /\ DOMAIN g = 1..(Len(w) - 1) /\ Len(g) = Len(w) - 1 /\ g \in Seq(Held)
  BY <1>1 DEF CutAt
<1>3. \A i \in DOMAIN v : /\ i \in Nat /\ v[i] = IF i < k THEN w[i] ELSE w[i + 1]
                          /\ g[i] = IF i < k THEN h[i] ELSE h[i + 1]
  BY <1>1 DEF CutAt
<1>4. \A i \in Nat : At(v, i) = IF i < k THEN At(w, i) ELSE At(w, i + 1)
  BY <1>1, <1>2, <1>3 DEF At
<1>5. ASSUME NEW i \in DOMAIN v, NEW j \in DOMAIN v, v[i] = v[j] PROVE i = j
  <2> DEFINE o(x) == IF x < k THEN x ELSE x + 1
  <2>1. \A x \in DOMAIN v : x \in Nat /\ o(x) \in DOMAIN w /\ v[x] = w[o(x)]
    BY <1>1, <1>2, <1>3
  <2>2. o(i) = o(j)
    BY <1>1, <1>5, <2>1
  <2> QED BY <1>1, <2>1, <2>2
<1>6. EntriesOf(v) = EntriesOf(w) \ {w[k]}
  <2>1. \A i \in DOMAIN v : v[i] \in EntriesOf(w) \ {w[k]}
    BY <1>1, <1>2, <1>3 DEF EntriesOf
  <2>2. ASSUME NEW i \in DOMAIN w, w[i] # w[k] PROVE w[i] \in EntriesOf(v)
    <3>1. CASE i < k
      <4>1. i \in DOMAIN v /\ v[i] = w[i]
        BY <1>1, <1>2, <1>3, <3>1
      <4> QED BY <4>1 DEF EntriesOf
    <3>2. CASE i > k
      <4>1. i - 1 \in DOMAIN v /\ v[i - 1] = w[i]
        BY <1>1, <1>2, <1>3, <3>2
      <4> QED BY <4>1 DEF EntriesOf
    <3>3. i # k
      BY <2>2
    <3> QED BY <1>1, <3>1, <3>2, <3>3
  <2> QED BY <2>1, <2>2 DEF EntriesOf
<1>7. s = {[head |-> At(v, 1), tail |-> At(v, Len(v))]}
  <2>1. At(v, 1) = IF k = 1 THEN At(w, 2) ELSE At(w, 1)
    <3>1. At(v, 1) = IF 1 < k THEN At(w, 1) ELSE At(w, 1 + 1)
      BY <1>4
    <3>2. 1 < k <=> k # 1
      BY <1>1
    <3> QED BY <3>1, <3>2
  <2>2. At(v, Len(v)) = IF k = Len(w) THEN At(w, k - 1) ELSE At(w, Len(w))
    <3>1. Len(v) \in Nat /\ Len(v) = Len(w) - 1
      BY <1>1, <1>2
    <3>2. At(v, Len(v)) = IF Len(v) < k THEN At(w, Len(v)) ELSE At(w, Len(v) + 1)
      BY <1>4, <3>1
    <3>3. k = Len(w) => Len(v) < k /\ Len(v) = k - 1
      BY <1>1, <3>1
    <3>4. k # Len(w) => ~(Len(v) < k) /\ Len(v) + 1 = Len(w)
      BY <1>1, <3>1
    <3> HIDE DEF v
    <3> QED BY <3>2, <3>3, <3>4
  <2> QED BY <2>1, <2>2
<1>8. ASSUME NEW i \in DOMAIN v
      PROVE  n[v[i]] = [next |-> At(v, i + 1), prev |-> At(v, i - 1), data |-> g[i].data, dealloc |-> g[i].dealloc]
  <2> DEFINE o == IF i < k THEN i ELSE i + 1
  <2>1. /\ o \in DOMAIN w /\ v[i] = w[o] /\ g[i] = h[o] /\ o # k /\ i \in Nat /\ i - 1 \in Nat /\ i + 1 \in Nat
        /\ o \in Nat /\ o - 1 \in Nat /\ o + 1 \in Nat
    BY <1>1, <1>2, <1>3
  <2>o. o = (IF i < k THEN i ELSE i + 1) /\ i \in Nat
    BY <2>1
  <2> HIDE DEF o, v, g
  <2>2. m[w[o]] = [next |-> At(w, o + 1), prev |-> At(w, o - 1), data |-> h[o].data, dealloc |-> h[o].dealloc]
    BY <2>1 DEF ChainOf
  <2>3. w[o] = At(w, k - 1) <=> o = k - 1
    <3>1. \A j : At(w, j) = w[o] <=> j = o
      BY <1>1, <2>1, AtOne
    <3> QED BY <3>1
  <2>4. w[o] = At(w, k + 1) <=> o = k + 1
    <3>1. \A j : At(w, j) = w[o] <=> j = o
      BY <1>1, <2>1, AtOne
    <3> QED BY <3>1
  <2>5. At(v, i + 1) = IF o = k - 1 THEN At(w, k + 1) ELSE At(w, o + 1)
    <3>1. At(v, i + 1) = IF i + 1 < k THEN At(w, i + 1) ELSE At(w, (i + 1) + 1)
      BY <1>4, <2>1
    <3>2. CASE i + 1 < k
      <4>1. o = i /\ o # k - 1
        BY <1>1, <2>o, <3>2
      <4> QED BY <3>1, <3>2, <4>1
    <3>3. CASE i + 1 = k
      <4>1. o = k - 1 /\ (i + 1) + 1 = k + 1 /\ ~(i + 1 < k)
        BY <1>1, <2>o, <3>3
      <4> QED BY <3>1, <4>1
    <3>4. CASE i + 1 > k
      <4>1. o = i + 1 /\ o # k - 1 /\ ~(i + 1 < k)
        BY <1>1, <2>o, <3>4
      <4> QED BY <3>1, <4>1
    <3> QED BY <1>1, <2>o, <3>2, <3>3, <3>4
  <2>6. At(v, i - 1) = IF o = k + 1 THEN At(w, k - 1) ELSE At(w, o - 1)
    <3>1. At(v, i - 1) = IF i - 1 < k THEN At(w, i - 1) ELSE At(w, (i - 1) + 1)
      BY <1>4, <2>1
    <3>2. CASE i < k
      <4>1. o = i /\ o # k + 1 /\ i - 1 < k
        BY <1>1, <2>o, <3>2
      <4> QED BY <3>1, <4>1
    <3>3. CASE i = k
      <4>1. o = k + 1 /\ i - 1 = k - 1 /\ i - 1 < k
        BY <1>1, <2>o, <3>3
      <4> QED BY <3>1, <4>1
    <3>4. CASE i > k
      <4>1. o = i + 1 /\ o # k + 1 /\ ~(i - 1 < k) /\ (i - 1) + 1 = o - 1
        BY <1>1, <2>o, <3>4
      <4> QED BY <3>1, <4>1
    <3> QED BY <1>1, <2>o, <3>2, <3>3, <3>4
  <2>7. w[o] \in DOMAIN m \ {w[k]}
    BY <1>1, <2>1 DEF EntriesOf
  <2>8. n[w[o]] = [next |-> IF w[o] = At(w, k - 1) THEN At(w, k + 1) ELSE m[w[o]].next,
                   prev |-> IF w[o] = At(w, k + 1) THEN At(w, k - 1) ELSE m[w[o]].prev,
                   data |-> m[w[o]].data, dealloc |-> m[w[o]].dealloc]
    BY <2>7
  <2> QED BY <2>1, <2>2, <2>3, <2>4, <2>5, <2>6, <2>8
<1>9. DOMAIN n = EntriesOf(v)
  BY <1>1, <1>6
<1> HIDE DEF v, g
<1> QED BY <1>1, <1>2, <1>5, <1>7, <1>8, <1>9 DEF ChainOf, v, g

\* What the chain says of the list that has it.
LEMMA ChainFacts ==
  ASSUME NEW w, ChainOf(list, elems, held, w)
  PROVE  /\ Len(w) \in Nat /\ DOMAIN w = 1..Len(w) /\ DOMAIN held = 1..Len(w) /\ held \in Seq(Held) /\ w \in Seq(Address)
         /\ \A i \in DOMAIN w : w[i] \in Address /\ w[i] # Nil /\ w[i] \in DOMAIN elems
         /\ \A i \in DOMAIN w :
              elems[w[i]] = [next |-> At(w, i + 1), prev |-> At(w, i - 1), data |-> held[i].data, dealloc |-> held[i].dealloc]
         /\ list # None => p_head = At(w, 1) /\ p_tail = At(w, Len(w))
         /\ list = None => w = <<>>
         /\ DOMAIN elems = EntriesOf(w) /\ \A i, j \in DOMAIN w : w[i] = w[j] => i = j
<1>1. /\ w \in Seq(Address) /\ held \in Seq(Held) /\ Len(held) = Len(w)
      /\ DOMAIN elems = EntriesOf(w) /\ \A i, j \in DOMAIN w : w[i] = w[j] => i = j
  BY DEF ChainOf
<1>2. \/ list = None /\ w = <<>>
      \/ list = {[head |-> At(w, 1), tail |-> At(w, Len(w))]}
  BY DEF ChainOf
<1>3. \A i \in DOMAIN w :
        elems[w[i]] = [next |-> At(w, i + 1), prev |-> At(w, i - 1), data |-> held[i].data, dealloc |-> held[i].dealloc]
  BY DEF ChainOf
<1>4. Len(w) \in Nat /\ DOMAIN w = 1..Len(w) /\ DOMAIN held = 1..Len(w)
  BY <1>1
<1>5. \A i \in DOMAIN w : w[i] \in Address /\ w[i] # Nil /\ w[i] \in DOMAIN elems
  BY <1>1, ListAssumption DEF Address, Nil, EntriesOf
<1>6. list # None => The(list) = [head |-> At(w, 1), tail |-> At(w, Len(w))]
  BY <1>2, TheOne
<1>7. list # None => p_head = At(w, 1) /\ p_tail = At(w, Len(w))
  BY <1>6 DEF p_head, p_tail
<1>8. list = None => w = <<>>
  BY <1>2 DEF None
<1> QED BY <1>1, <1>3, <1>4, <1>5, <1>7, <1>8

LEMMA HeldData == ASSUME held \in Seq(Held) PROVE \A i \in DOMAIN held : held[i].data \in Data
<1>1. \A i \in DOMAIN held : held[i] \in Held
  OBVIOUS
<1> QED BY <1>1 DEF Held

LEMMA ElementAt ==
  ASSUME NEW w, ChainOf(list, elems, held, w)
  PROVE  \A a \in DOMAIN elems : \E i \in DOMAIN w : a = w[i]
<1>1. DOMAIN elems = EntriesOf(w)
  BY ChainFacts
<1> QED BY <1>1 DEF EntriesOf

LEMMA AtEnds ==
  ASSUME NEW w, ChainOf(list, elems, held, w)
  PROVE  /\ \A i : At(w, i) \in Pointer /\ (At(w, i) = Nil <=> i \notin DOMAIN w)
         /\ \A i : i \notin DOMAIN w => At(w, i) = Nil
<1> QED BY ChainFacts DEF At, Pointer

\* The invariant says what the list promises.
LEMMA ChainMeans == ListInv => ListKept /\ ListTypeOK
<1> SUFFICES ASSUME ListInv PROVE ListKept /\ ListTypeOK
  OBVIOUS
<1>1. PICK w : ChainOf(list, elems, held, w)
  BY DEF ListInv
<1>2. w = IF list = None THEN <<>> ELSE Walk(p_head)
  BY <1>1, WalkIs, ChainFacts
<1>3. [i \in DOMAIN w |-> [data |-> elems[w[i]].data, dealloc |-> elems[w[i]].dealloc]] = held
  <2>1. \A i \in DOMAIN w : [data |-> elems[w[i]].data, dealloc |-> elems[w[i]].dealloc] = held[i]
    <3> SUFFICES ASSUME NEW i \in DOMAIN w PROVE [data |-> elems[w[i]].data, dealloc |-> elems[w[i]].dealloc] = held[i]
      OBVIOUS
    <3>1. elems[w[i]].data = held[i].data /\ elems[w[i]].dealloc = held[i].dealloc
      <4>1. elems[w[i]] = [next |-> At(w, i + 1), prev |-> At(w, i - 1), data |-> held[i].data, dealloc |-> held[i].dealloc]
        BY <1>1, ChainFacts
      <4> QED BY <4>1
    <3>2. held[i] \in Held
      BY <1>1, ChainFacts
    <3> QED BY <3>1, <3>2 DEF Held
  <2>2. held = [i \in DOMAIN w |-> held[i]]
    BY <1>1, ChainFacts
  <2> QED BY <2>1, <2>2
<1>4. \A i \in DOMAIN w : elems[w[i]].prev = IF i = 1 THEN Nil ELSE w[i - 1]
  <2> SUFFICES ASSUME NEW i \in DOMAIN w PROVE elems[w[i]].prev = IF i = 1 THEN Nil ELSE w[i - 1]
    OBVIOUS
  <2>1. elems[w[i]] = [next |-> At(w, i + 1), prev |-> At(w, i - 1), data |-> held[i].data, dealloc |-> held[i].dealloc]
    BY <1>1, ChainFacts
  <2>2. elems[w[i]].prev = At(w, i - 1)
    BY <2>1
  <2>3. i \in 1..Len(w) /\ Len(w) \in Nat /\ DOMAIN w = 1..Len(w)
    BY <1>1, ChainFacts
  <2> QED BY <2>2, <2>3 DEF At
<1>5. list # None => p_tail = IF w = <<>> THEN Nil ELSE w[Len(w)]
  BY <1>1, ChainFacts DEF At
<1>6. ChainWhole
  BY <1>1, <1>2, <1>3, <1>4, <1>5, ChainFacts DEF ChainWhole
<1>7. ObjectsOwned
  BY DEF ListInv, Owned, ObjectsOwned
<1>8. list \in {None} \cup {{l} : l \in [head : Pointer, tail : Pointer]}
  <2>1. [head |-> At(w, 1), tail |-> At(w, Len(w))] \in [head : Pointer, tail : Pointer]
    BY <1>1, AtEnds
  <2> QED BY <1>1, <2>1 DEF ChainOf
<1>9. \A a \in DOMAIN elems : a \in Address /\ elems[a] \in [next : Pointer, prev : Pointer, data : Data, dealloc : BOOLEAN]
  <2> SUFFICES ASSUME NEW i \in DOMAIN w
               PROVE  w[i] \in Address /\ elems[w[i]] \in [next : Pointer, prev : Pointer, data : Data, dealloc : BOOLEAN]
    BY <1>1, ElementAt
  <2>1. elems[w[i]] = [next |-> At(w, i + 1), prev |-> At(w, i - 1), data |-> held[i].data, dealloc |-> held[i].dealloc]
    BY <1>1, ChainFacts
  <2>2. held[i] \in Held
    BY <1>1, ChainFacts
  <2> QED BY <1>1, <2>1, <2>2, ChainFacts, AtEnds DEF Held
<1>10. freed \in [Data -> 0..2] /\ gave.got \subseteq Data /\ gave.due \subseteq Data
  BY DEF ListInv, Owned
<1> QED BY <1>6, <1>7, <1>8, <1>9, <1>10 DEF ListKept, ListTypeOK

-----------------------------------------------------------------------------
\* The list without the object at k: the others are still there, once each.
LEMMA OwnedCut ==
  ASSUME Owned, held \in Seq(Held), NEW k \in DOMAIN held, held' = CutAt(held, k)
  PROVE  /\ \A i, j \in DOMAIN held' : held'[i].data = held'[j].data => i = j
         /\ InList' = InList \ {held[k].data}
<1>1. /\ DOMAIN held = 1..Len(held) /\ Len(held) \in Nat /\ k \in 1..Len(held)
      /\ DOMAIN held' = 1..(Len(held) - 1)
  BY DEF CutAt
<1>2. \A i \in DOMAIN held' : i \in Nat /\ held'[i] = IF i < k THEN held[i] ELSE held[i + 1]
  BY <1>1 DEF CutAt
<1>3. \A i, j \in DOMAIN held : held[i].data = held[j].data => i = j
  BY DEF Owned
<1>4. \A i, j \in DOMAIN held' : held'[i].data = held'[j].data => i = j
  BY <1>1, <1>2, <1>3
<1>5. \A i \in DOMAIN held' : held'[i].data \in InList \ {held[k].data}
  <2> SUFFICES ASSUME NEW i \in DOMAIN held' PROVE held'[i].data \in InList \ {held[k].data}
    OBVIOUS
  <2>1. PICK o \in DOMAIN held : o # k /\ held'[i] = held[o]
    BY <1>1, <1>2
  <2> QED BY <1>3, <2>1 DEF InList
<1>6. ASSUME NEW o \in DOMAIN held, held[o].data # held[k].data PROVE held[o].data \in InList'
  <2>1. \E i \in DOMAIN held' : held'[i] = held[o]
    <3>1. CASE o < k
      BY <1>1, <1>2, <3>1
    <3>2. CASE o > k
      <4>1. o - 1 \in DOMAIN held' /\ held'[o - 1] = held[o]
        BY <1>1, <1>2, <3>2
      <4> QED BY <4>1
    <3>3. o # k
      BY <1>6
    <3> QED BY <1>1, <3>1, <3>2, <3>3
  <2> QED BY <2>1 DEF InList
<1> QED BY <1>4, <1>5, <1>6 DEF InList

\* Unlink closes the chain.
LEMMA UnlinkCuts ==
  ASSUME NEW w, ChainOf(list, elems, held, w), list # None, NEW k \in DOMAIN w, Unlink(w[k])
  PROVE  ChainOf(list', elems', CutAt(held, k), CutAt(w, k))
<1> DEFINE e == elems[w[k]]
<1>1. e = [next |-> At(w, k + 1), prev |-> At(w, k - 1), data |-> held[k].data, dealloc |-> held[k].dealloc]
  BY ChainFacts
<1>2. e.next = At(w, k + 1) /\ e.prev = At(w, k - 1)
  BY <1>1
<1>3. k \in 1..Len(w) /\ Len(w) \in Nat /\ DOMAIN w = 1..Len(w)
  BY ChainFacts
<1>4. (At(w, k - 1) = Nil <=> k = 1) /\ (At(w, k + 1) = Nil <=> k = Len(w))
  <2>1. (At(w, k - 1) = Nil <=> k - 1 \notin DOMAIN w) /\ (At(w, k + 1) = Nil <=> k + 1 \notin DOMAIN w)
    BY AtEnds
  <2> QED BY <1>3, <2>1
<1>5. p_head = At(w, 1) /\ p_tail = At(w, Len(w))
  BY ChainFacts
<1>6. list' = {[head |-> IF k = 1 THEN At(w, 2) ELSE At(w, 1),
                tail |-> IF k = Len(w) THEN At(w, k - 1) ELSE At(w, Len(w))]}
  <2>1. list' = {[head |-> IF e.prev = Nil THEN e.next ELSE p_head,
                  tail |-> IF e.next = Nil THEN e.prev ELSE p_tail]}
    BY DEF Unlink
  <2>2. k = 1 => k + 1 = 2
    OBVIOUS
  <2> HIDE DEF e
  <2> QED BY <1>2, <1>4, <1>5, <2>1, <2>2
<1>7. elems' = [a \in DOMAIN elems \ {w[k]} |->
                  [next |-> IF a = At(w, k - 1) THEN At(w, k + 1) ELSE elems[a].next,
                   prev |-> IF a = At(w, k + 1) THEN At(w, k - 1) ELSE elems[a].prev,
                   data |-> elems[a].data, dealloc |-> elems[a].dealloc]]
  <2>1. elems' = [a \in DOMAIN elems \ {w[k]} |->
                    IF a = e.prev THEN [elems[a] EXCEPT !.next = e.next]
                    ELSE IF a = e.next THEN [elems[a] EXCEPT !.prev = e.prev]
                    ELSE elems[a]]
    BY DEF Unlink
  <2> HIDE DEF e
  <2>2. ASSUME NEW a \in DOMAIN elems \ {w[k]}
        PROVE  (IF a = e.prev THEN [elems[a] EXCEPT !.next = e.next]
                ELSE IF a = e.next THEN [elems[a] EXCEPT !.prev = e.prev]
                ELSE elems[a])
               = [next |-> IF a = At(w, k - 1) THEN At(w, k + 1) ELSE elems[a].next,
                  prev |-> IF a = At(w, k + 1) THEN At(w, k - 1) ELSE elems[a].prev,
                  data |-> elems[a].data, dealloc |-> elems[a].dealloc]
    <3>1. PICK i \in DOMAIN w : a = w[i]
      BY ElementAt
    <3>2. elems[a] = [next |-> At(w, i + 1), prev |-> At(w, i - 1), data |-> held[i].data, dealloc |-> held[i].dealloc]
      BY <3>1, ChainFacts
    <3>3. a = At(w, k - 1) => a # At(w, k + 1)
      <4>1. (At(w, k - 1) = w[i] <=> k - 1 = i) /\ (At(w, k + 1) = w[i] <=> k + 1 = i)
        BY ChainFacts, AtOne
      <4> QED BY <1>3, <3>1, <4>1
    <3> QED BY <1>2, <3>2, <3>3
  <2> QED BY <2>1, <2>2
<1> QED BY <1>6, <1>7, Cut

-----------------------------------------------------------------------------
LEMMA FlushKeeps ==
  ASSUME ListInv, list # None,
         freed' = Dealloc({elems[a].data : a \in {x \in EntriesOf(Walk(p_head)) : elems[x].dealloc}}),
         elems' = [a \in DOMAIN elems \ EntriesOf(Walk(p_head)) |-> elems[a]],
         list' \in {None, {[head |-> Nil, tail |-> Nil]}}, held' = <<>>, gave' = Silent
  PROVE  ListInv'
<1>1. PICK w : ChainOf(list, elems, held, w)
  BY DEF ListInv
<1>2. Walk(p_head) = w /\ DOMAIN elems = EntriesOf(w)
  BY <1>1, WalkIs, ChainFacts
<1>3. DOMAIN elems' = {}
  BY <1>2
<1>4. ChainOf(list', elems', held', <<>>)
  BY <1>3 DEF ChainOf, At, EntriesOf, Nil
<1>5. ASSUME NEW d \in {elems[a].data : a \in {x \in EntriesOf(w) : elems[x].dealloc}}
      PROVE  d \in InList
  <2>1. PICK a \in DOMAIN elems : d = elems[a].data
    BY <1>2
  <2>2. PICK i \in DOMAIN w : a = w[i]
    BY <1>1, ElementAt
  <2>3. elems[a] = [next |-> At(w, i + 1), prev |-> At(w, i - 1), data |-> held[i].data, dealloc |-> held[i].dealloc]
    BY <1>1, <2>2, ChainFacts
  <2>4. d = held[i].data /\ i \in DOMAIN held
    BY <1>1, <2>1, <2>3, ChainFacts
  <2> QED BY <2>4 DEF InList
<1>6. freed' \in [Data -> 0..1]
  <2>1. freed \in [Data -> 0..1] /\ \A d \in InList : freed[d] = 0
    BY DEF ListInv, Owned
  <2> QED BY <1>2, <1>5, <2>1 DEF Dealloc
<1>7. Owned'
  BY <1>6 DEF Owned, InList, Silent
<1> QED BY <1>4, <1>7 DEF ListInv

LEMMA ListAdds ==
  ASSUME ListInv, NEW d \in Data, NEW dealloc \in BOOLEAN, freed[d] = 0, d \notin InList, linked_list_add(d, dealloc)
  PROVE  ListInv'
<1>1. PICK w : ChainOf(list, elems, held, w)
  BY DEF ListInv
<1>2. /\ Len(w) \in Nat /\ DOMAIN w = 1..Len(w) /\ DOMAIN held = 1..Len(w) /\ held \in Seq(Held) /\ w \in Seq(Address)
      /\ \A i \in DOMAIN w : w[i] \in Address /\ w[i] # Nil /\ w[i] \in DOMAIN elems
      /\ list # None /\ p_head = At(w, 1) /\ p_tail = At(w, Len(w))
      /\ DOMAIN elems = EntriesOf(w) /\ \A i, j \in DOMAIN w : w[i] = w[j] => i = j
  BY <1>1, ChainFacts DEF linked_list_add
<1> DEFINE e == FreeAddress
           new == [data |-> d, dealloc |-> dealloc]
           v == <<e>> \o w
           g == <<new>> \o held
<1>3. e \in Address /\ e \notin DOMAIN elems /\ e # Nil
  <2>1. Address \ DOMAIN elems # {} /\ Address \ DOMAIN elems \subseteq Nat
    <3>1. DOMAIN elems \subseteq Address
      BY <1>1, <1>2, ElementAt
    <3>2. Address # DOMAIN elems
      BY DEF linked_list_add
    <3>3. Address \subseteq Nat
      BY ListAssumption DEF Address
    <3> QED BY <3>1, <3>2, <3>3
  <2>2. PICK x \in Address \ DOMAIN elems : \A y \in Address \ DOMAIN elems : ~(y < x)
    BY <2>1, LeastOne
  <2>3. \A y \in Address \ DOMAIN elems : x <= y
    BY <2>1, <2>2
  <2>4. e \in Address \ DOMAIN elems
    BY <2>2, <2>3 DEF FreeAddress
  <2> QED BY <2>4, ListAssumption DEF Address, Nil
<1> HIDE DEF e
<1>4. /\ v \in Seq(Address) /\ Len(v) = Len(w) + 1 /\ DOMAIN v = 1..(Len(w) + 1)
      /\ v[1] = e /\ \A i \in DOMAIN w : v[i + 1] = w[i]
  BY <1>2, <1>3
<1>5. /\ g \in Seq(Held) /\ Len(g) = Len(w) + 1 /\ DOMAIN g = 1..(Len(w) + 1)
      /\ g[1] = new /\ \A i \in DOMAIN w : g[i + 1] = held[i]
  BY <1>2 DEF Held
<1>6. At(v, 1) = e /\ At(v, 0) = Nil /\ \A i \in Nat \ {0} : At(v, i + 1) = At(w, i)
  BY <1>2, <1>4 DEF At
<1> HIDE DEF v
<1>7. EntriesOf(v) = EntriesOf(w) \cup {e}
  <2>1. \A i \in DOMAIN v : i = 1 \/ (i - 1 \in DOMAIN w /\ v[i] = w[i - 1])
    BY <1>2, <1>4
  <2>2. EntriesOf(v) \subseteq EntriesOf(w) \cup {e}
    BY <1>4, <2>1 DEF EntriesOf
  <2>3. 1 \in DOMAIN v /\ \A i \in DOMAIN w : i + 1 \in DOMAIN v
    BY <1>2, <1>4
  <2>4. EntriesOf(w) \cup {e} \subseteq EntriesOf(v)
    BY <1>4, <2>3 DEF EntriesOf
  <2> QED BY <2>2, <2>4
<1>8. \A i, j \in DOMAIN v : v[i] = v[j] => i = j
  <2>1. \A i \in DOMAIN v : i \in Nat /\ (i = 1 \/ (i - 1 \in DOMAIN w /\ v[i] = w[i - 1] /\ v[i] # e))
    BY <1>2, <1>3, <1>4
  <2> QED BY <1>2, <1>4, <2>1
<1>9. list' = {[head |-> At(v, 1), tail |-> At(v, Len(v))]}
  <2>1. list' = {[head |-> e, tail |-> IF p_head = Nil THEN e ELSE p_tail]}
    BY DEF linked_list_add, e
  <2>2. (At(w, 1) = Nil <=> w = <<>>) /\ (w = <<>> <=> Len(w) = 0)
    <3>1. At(w, 1) = Nil <=> 1 \notin DOMAIN w
      BY <1>1, AtEnds
    <3>2. 1 \notin DOMAIN w <=> Len(w) = 0
      BY <1>2
    <3> QED BY <1>2, <3>1, <3>2
  <2>3. At(v, Len(v)) = IF Len(w) = 0 THEN e ELSE At(w, Len(w))
    <3>1. CASE Len(w) = 0
      BY <1>4, <1>6, <3>1
    <3>2. CASE Len(w) # 0
      BY <1>2, <1>4, <1>6, <3>2
    <3> QED BY <3>1, <3>2
  <2> QED BY <1>2, <1>6, <2>1, <2>2, <2>3
<1>10. ASSUME NEW i \in DOMAIN v
       PROVE  elems'[v[i]] = [next |-> At(v, i + 1), prev |-> At(v, i - 1), data |-> g[i].data, dealloc |-> g[i].dealloc]
  <2>1. elems' = [a \in DOMAIN elems \cup {e} |->
                    IF a = e THEN [next |-> p_head, prev |-> Nil, data |-> d, dealloc |-> dealloc]
                    ELSE IF a = p_head THEN [elems[a] EXCEPT !.prev = e] ELSE elems[a]]
    BY DEF linked_list_add, e
  <2>2. CASE i = 1
    <3>1. elems'[e] = [next |-> p_head, prev |-> Nil, data |-> d, dealloc |-> dealloc]
      BY <2>1
    <3>2. At(v, i + 1) = At(w, 1) /\ At(v, i - 1) = Nil
      BY <1>6, <2>2
    <3>3. g[i].data = d /\ g[i].dealloc = dealloc
      BY <1>5, <2>2
    <3> QED BY <1>2, <1>4, <2>2, <3>1, <3>2, <3>3
  <2>3. CASE i # 1
    <3> DEFINE j == i - 1
    <3>1. j \in DOMAIN w /\ j \in Nat \ {0} /\ i = j + 1 /\ v[i] = w[j] /\ g[i] = held[j]
      BY <1>2, <1>4, <1>5, <2>3
    <3> HIDE DEF j
    <3>2. elems[w[j]] = [next |-> At(w, j + 1), prev |-> At(w, j - 1), data |-> held[j].data, dealloc |-> held[j].dealloc]
      BY <1>1, <3>1, ChainFacts
    <3>3. w[j] \in DOMAIN elems /\ w[j] # e /\ (w[j] = p_head <=> j = 1)
      <4>1. \A x : At(w, x) = w[j] <=> x = j
        BY <1>2, <3>1, AtOne
      <4> QED BY <1>2, <1>3, <3>1, <4>1
    <3>4. elems'[w[j]] = IF j = 1 THEN [elems[w[j]] EXCEPT !.prev = e] ELSE elems[w[j]]
      BY <2>1, <3>3
    <3>5. At(v, i + 1) = At(w, j + 1)
      BY <1>6, <3>1
    <3>6. At(v, i - 1) = IF j = 1 THEN e ELSE At(w, j - 1)
      <4>1. CASE j = 1
        BY <1>6, <3>1, <4>1
      <4>2. CASE j # 1
        <5>1. j - 1 \in Nat \ {0} /\ (j - 1) + 1 = i - 1
          BY <3>1, <4>2
        <5> QED BY <1>6, <4>2, <5>1
      <4> QED BY <4>1, <4>2
    <3>7. elems'[w[j]] = [next |-> At(w, j + 1), prev |-> IF j = 1 THEN e ELSE At(w, j - 1),
                          data |-> held[j].data, dealloc |-> held[j].dealloc]
      BY <3>2, <3>4
    <3> HIDE DEF g
    <3> QED BY <3>1, <3>5, <3>6, <3>7
  <2> QED BY <2>2, <2>3
<1>11. DOMAIN elems' = EntriesOf(v)
  BY <1>2, <1>7 DEF linked_list_add, e
<1>12. held' = g
  BY DEF linked_list_add
<1>13. ChainOf(list', elems', held', v)
  <2> HIDE DEF g
  <2> QED BY <1>4, <1>5, <1>8, <1>9, <1>10, <1>11, <1>12 DEF ChainOf
<1>14. Owned'
  <2>1. \A i \in DOMAIN g : i \in Nat /\ (IF i = 1 THEN g[i] = new ELSE i - 1 \in DOMAIN held /\ g[i] = held[i - 1])
    BY <1>2, <1>5
  <2>2. \A i \in DOMAIN g : i # 1 => g[i].data \in InList
    BY <2>1 DEF InList
  <2>3. \A i, j \in DOMAIN g : g[i].data = g[j].data => i = j
    <3> HIDE DEF g
    <3> SUFFICES ASSUME NEW i \in DOMAIN g, NEW j \in DOMAIN g, g[i].data = g[j].data PROVE i = j
      OBVIOUS
    <3>1. CASE i = 1 /\ j = 1
      BY <3>1
    <3>2. CASE i = 1 /\ j # 1
      BY <2>1, <2>2, <3>2
    <3>3. CASE i # 1 /\ j = 1
      BY <2>1, <2>2, <3>3
    <3>4. CASE i # 1 /\ j # 1
      <4>1. held[i - 1].data = held[j - 1].data /\ i - 1 \in DOMAIN held /\ j - 1 \in DOMAIN held
        BY <2>1, <3>4
      <4>2. i - 1 = j - 1
        BY <4>1 DEF ListInv, Owned
      <4> QED BY <2>1, <4>2
    <3> QED BY <3>1, <3>2, <3>3, <3>4
  <2>4. InList' \subseteq InList \cup {d}
    <3> HIDE DEF g
    <3>1. InList' = {g[i].data : i \in DOMAIN g}
      BY <1>12 DEF InList
    <3>2. \A i \in DOMAIN g : g[i].data = d \/ g[i].data \in InList
      BY <2>1, <2>2
    <3> QED BY <3>1, <3>2
  <2>5. freed' = freed /\ gave' = Silent
    BY DEF linked_list_add
  <2> HIDE DEF g
  <2> QED BY <1>12, <2>3, <2>4, <2>5 DEF ListInv, Owned, Silent
<1> QED BY <1>13, <1>14 DEF ListInv

LEMMA ListRemoves == ASSUME ListInv, linked_list_remove PROVE ListInv'
<1>1. PICK w : ChainOf(list, elems, held, w)
  BY DEF ListInv
<1>2. /\ Len(w) \in Nat /\ DOMAIN w = 1..Len(w) /\ DOMAIN held = 1..Len(w) /\ held \in Seq(Held)
      /\ list # None /\ p_head = At(w, 1) /\ p_tail = At(w, Len(w))
  BY <1>1, ChainFacts DEF linked_list_remove
<1> DEFINE k == Len(w)
<1>3. k \in DOMAIN w /\ p_tail = w[k] /\ k = Len(held)
  <2>1. Len(w) \in DOMAIN w
    BY <1>1, <1>2, AtEnds DEF linked_list_remove
  <2> QED BY <1>2, <2>1 DEF At
<1>4. elems[w[k]] = [next |-> At(w, k + 1), prev |-> At(w, k - 1), data |-> held[k].data, dealloc |-> held[k].dealloc]
  BY <1>1, <1>3, ChainFacts
<1>5. At(w, k + 1) = Nil /\ (At(w, k - 1) = Nil <=> k = 1)
  <2>1. k + 1 \notin DOMAIN w /\ (k - 1 \notin DOMAIN w <=> k = 1)
    BY <1>2, <1>3
  <2> QED BY <1>1, <2>1, AtEnds
<1>6. list' = {[head |-> IF k = 1 THEN At(w, 2) ELSE At(w, 1),
                tail |-> IF k = Len(w) THEN At(w, k - 1) ELSE At(w, Len(w))]}
  <2>1. list' = {[head |-> IF elems[w[k]].prev = Nil THEN Nil ELSE p_head, tail |-> elems[w[k]].prev]}
    BY <1>3 DEF linked_list_remove
  <2>2. elems[w[k]].prev = At(w, k - 1)
    BY <1>4
  <2>3. k = 1 => At(w, 2) = Nil
    BY <1>5
  <2> QED BY <1>2, <1>5, <2>1, <2>2, <2>3
<1>7. elems' = [a \in DOMAIN elems \ {w[k]} |->
                  [next |-> IF a = At(w, k - 1) THEN At(w, k + 1) ELSE elems[a].next,
                   prev |-> IF a = At(w, k + 1) THEN At(w, k - 1) ELSE elems[a].prev,
                   data |-> elems[a].data, dealloc |-> elems[a].dealloc]]
  <2>1. elems' = [a \in DOMAIN elems \ {w[k]} |->
                    IF a = elems[w[k]].prev THEN [elems[a] EXCEPT !.next = Nil] ELSE elems[a]]
    BY <1>3 DEF linked_list_remove
  <2>2. elems[w[k]].prev = At(w, k - 1)
    BY <1>4
  <2>3. ASSUME NEW a \in DOMAIN elems
        PROVE  (IF a = At(w, k - 1) THEN [elems[a] EXCEPT !.next = Nil] ELSE elems[a])
               = [next |-> IF a = At(w, k - 1) THEN At(w, k + 1) ELSE elems[a].next,
                  prev |-> IF a = At(w, k + 1) THEN At(w, k - 1) ELSE elems[a].prev,
                  data |-> elems[a].data, dealloc |-> elems[a].dealloc]
    <3>1. PICK i \in DOMAIN w : a = w[i]
      BY <1>1, ElementAt
    <3>2. elems[a] = [next |-> At(w, i + 1), prev |-> At(w, i - 1), data |-> held[i].data, dealloc |-> held[i].dealloc]
      BY <1>1, <3>1, ChainFacts
    <3>3. a # Nil
      BY <1>1, <3>1, ChainFacts
    <3> HIDE DEF k
    <3> QED BY <1>5, <3>2, <3>3
  <2> HIDE DEF k
  <2> QED BY <2>1, <2>2, <2>3
<1>8. ChainOf(list', elems', CutAt(held, k), CutAt(w, k))
  <2> HIDE DEF k
  <2> QED BY <1>1, <1>3, <1>6, <1>7, Cut
<1>9. held' = CutAt(held, k)
  BY <1>3 DEF linked_list_remove
<1>10. Owned /\ k \in DOMAIN held
  BY <1>2, <1>3 DEF ListInv
<1>11. /\ \A i, j \in DOMAIN held' : held'[i].data = held'[j].data => i = j
       /\ InList' = InList \ {held[k].data}
  <2> HIDE DEF k
  <2> QED BY <1>2, <1>9, <1>10, OwnedCut
<1>12. gave'.got = gave'.due /\ gave'.got \subseteq Data /\ freed' = freed
  <2>1. gave' = [got |-> {elems[w[k]].data}, due |-> {held[k].data}]
    BY <1>3 DEF linked_list_remove
  <2>2. elems[w[k]].data = held[k].data
    BY <1>4
  <2>3. gave'.got = {held[k].data} /\ gave'.due = {held[k].data}
    BY <2>1, <2>2
  <2>5. held[k].data \in Data
    BY <1>2, <1>10, HeldData
  <2>6. freed' = freed
    BY DEF linked_list_remove
  <2> QED BY <2>3, <2>5, <2>6
<1>13. Owned'
  BY <1>10, <1>11, <1>12 DEF Owned
<1> QED BY <1>8, <1>9, <1>13 DEF ListInv

LEMMA SearchKeeps ==
  ASSUME ListInv, NEW match \in SUBSET Data, NEW wanted \in BOOLEAN, NEW rm \in BOOLEAN,
         linked_list_search(match, wanted, rm)
  PROVE  ListInv'
<1>1. PICK w : ChainOf(list, elems, held, w)
  BY DEF ListInv
<1>2. /\ Len(w) \in Nat /\ DOMAIN w = 1..Len(w) /\ DOMAIN held = 1..Len(w) /\ held \in Seq(Held) /\ list # None
  BY <1>1, ChainFacts DEF linked_list_search
<1>3. Walk(p_head) = w
  BY <1>1, <1>2, WalkIs
<1>4. ASSUME NEW i \in DOMAIN w PROVE elems[w[i]].data = held[i].data /\ elems[w[i]].dealloc = held[i].dealloc
  <2>1. elems[w[i]] = [next |-> At(w, i + 1), prev |-> At(w, i - 1), data |-> held[i].data, dealloc |-> held[i].dealloc]
    BY <1>1, ChainFacts
  <2> QED BY <2>1
<1> DEFINE hits == {i \in DOMAIN w : elems[w[i]].data \in match}
           due  == {i \in DOMAIN held : held[i].data \in match}
           k    == CHOOSE i \in hits : \A j \in hits : i <= j
<1>5. hits = due
  BY <1>2, <1>4
<1>6. hits # {} => k \in DOMAIN w
  <2> SUFFICES ASSUME hits # {} PROVE k \in DOMAIN w
    OBVIOUS
  <2>1. hits \subseteq Nat
    BY <1>2
  <2>2. PICK x \in hits : \A y \in hits : ~(y < x)
    <3> HIDE DEF hits
    <3> QED BY <2>1, LeastOne
  <2>3. \A y \in hits : x <= y
    BY <2>1, <2>2
  <2>4. k \in hits
    BY <2>2, <2>3
  <2> QED BY <2>4
<1>7. /\ gave' = [got |-> IF wanted /\ hits # {} THEN {elems[w[k]].data} ELSE {},
                  due |-> IF wanted /\ due # {} THEN {held[CHOOSE i \in due : \A j \in due : i <= j].data} ELSE {}]
      /\ IF hits # {} /\ rm
         THEN /\ Unlink(w[k])
              /\ held' = IF due = {} THEN held ELSE CutAt(held, CHOOSE i \in due : \A j \in due : i <= j)
              /\ freed' = Dealloc(IF ~wanted /\ elems[w[k]].dealloc THEN {elems[w[k]].data} ELSE {})
         ELSE UNCHANGED <<list, elems, held, freed>>
  BY <1>3 DEF linked_list_search
<1>8. k = CHOOSE i \in due : \A j \in due : i <= j
  BY <1>5
<1> HIDE DEF hits, due, k
<1>9. gave'.got = gave'.due /\ gave'.got \subseteq Data
  <2>1. hits # {} => elems[w[k]].data = held[k].data /\ held[k].data \in Data
    <3>1. hits # {} => k \in DOMAIN held
      BY <1>2, <1>6
    <3>2. \A i \in DOMAIN held : held[i].data \in Data
      BY <1>2, HeldData
    <3> QED BY <1>4, <1>6, <3>1, <3>2
  <2> QED BY <1>5, <1>7, <1>8, <2>1
<1>10. CASE hits # {} /\ rm
  <2>1. k \in DOMAIN w /\ k \in DOMAIN held /\ Unlink(w[k]) /\ held' = CutAt(held, k)
    BY <1>2, <1>5, <1>6, <1>7, <1>8, <1>10
  <2>2. ChainOf(list', elems', held', CutAt(w, k))
    BY <1>1, <1>2, <2>1, UnlinkCuts
  <2>3. Owned
    BY DEF ListInv
  <2>4. /\ \A i, j \in DOMAIN held' : held'[i].data = held'[j].data => i = j
        /\ InList' = InList \ {held[k].data}
    BY <1>2, <2>1, <2>3, OwnedCut
  <2>5. freed' = freed \/ freed' = Dealloc({held[k].data})
    <3>1. freed' = Dealloc(IF ~wanted /\ elems[w[k]].dealloc THEN {held[k].data} ELSE {})
      BY <1>4, <1>7, <1>10, <2>1
    <3>2. Dealloc({}) = freed
      BY <2>3 DEF Dealloc, Owned
    <3> QED BY <3>1, <3>2
  <2>6. held[k].data \in InList
    BY <2>1 DEF InList
  <2>7. freed' \in [Data -> 0..1] /\ \A d \in Data : freed'[d] # freed[d] => d = held[k].data
    BY <2>3, <2>5, <2>6 DEF Dealloc, Owned
  <2>8. InList \subseteq Data
    BY <1>2, HeldData DEF InList
  <2>9. \A d \in InList' : freed'[d] = 0
    BY <2>3, <2>4, <2>7, <2>8 DEF Owned
  <2>10. Owned'
    BY <1>9, <2>4, <2>7, <2>9 DEF Owned
  <2> QED BY <2>2, <2>10 DEF ListInv
<1>11. CASE ~(hits # {} /\ rm)
  <2>1. list' = list /\ elems' = elems /\ held' = held /\ freed' = freed
    BY <1>7, <1>11
  <2>2. Owned'
    BY <1>9, <2>1 DEF ListInv, Owned, InList
  <2> QED BY <1>1, <2>1, <2>2 DEF ListInv
<1> QED BY <1>10, <1>11

LEMMA ListBegins == ListInit => ListInv
<1> SUFFICES ASSUME ListInit PROVE ListInv
  OBVIOUS
<1>1. ChainOf(list, elems, held, <<>>)
  BY DEF ListInit, ChainOf, EntriesOf
<1>2. Owned
  BY DEF ListInit, Owned, InList
<1> QED BY <1>1, <1>2 DEF ListInv

LEMMA ListStep == ListInv /\ [ListNext]_listVars => ListInv'
<1> SUFFICES ASSUME ListInv, [ListNext]_listVars PROVE ListInv'
  OBVIOUS
<1>1. CASE linked_list_init
  <2>1. ChainOf(list', elems', held', <<>>)
    <3>1. PICK w : ChainOf(list, elems, held, w)
      BY DEF ListInv
    <3>2. w = <<>>
      BY <1>1, <3>1, ChainFacts DEF linked_list_init
    <3>3. list' = {[head |-> Nil, tail |-> Nil]} /\ At(<<>>, 1) = Nil /\ At(<<>>, Len(<<>>)) = Nil
      BY <1>1 DEF linked_list_init, At
    <3>4. elems' = elems /\ held' = held
      BY <1>1 DEF linked_list_init
    <3> QED BY <3>1, <3>2, <3>3, <3>4 DEF ChainOf
  <2>2. Owned'
    BY <1>1 DEF ListInv, Owned, InList, linked_list_init, Silent
  <2> QED BY <2>1, <2>2 DEF ListInv
<1>2. ASSUME NEW d \in Data, NEW dealloc \in BOOLEAN, freed[d] = 0, d \notin InList, linked_list_add(d, dealloc)
      PROVE  ListInv'
  BY <1>2, ListAdds
<1>3. CASE linked_list_remove
  BY <1>3, ListRemoves
<1>4. CASE linked_list_flush
  BY <1>4, FlushKeeps DEF linked_list_flush
<1>5. CASE linked_list_destroy
  BY <1>5, FlushKeeps DEF linked_list_destroy
<1>6. ASSUME NEW match \in SUBSET Data, NEW wanted \in BOOLEAN, NEW rm \in BOOLEAN,
             linked_list_search(match, wanted, rm)
      PROVE  ListInv'
  BY <1>6, SearchKeeps
<1>7. CASE UNCHANGED listVars
  BY <1>7 DEF listVars, ListInv, Owned, InList
<1> QED BY <1>1, <1>2, <1>3, <1>4, <1>5, <1>6, <1>7 DEF ListNext

-----------------------------------------------------------------------------
(* The heap.                                                                *)

Place == Seq({"mLeft", "mRight"})

\* The nodes of a tree: it hangs together and every node has its data and count.
Shape(t) ==
  /\ t = [n \in DOMAIN t |-> t[n]]
  /\ DOMAIN t \subseteq Place /\ IsFiniteSet(DOMAIN t)
  /\ \A n \in DOMAIN t : Above(n) \subseteq DOMAIN t
  /\ \A n \in DOMAIN t : t[n] \in [data : Item, mSize : Int]

Ordered(t) == \A n \in DOMAIN t : \A k \in Kids(t, n) : ~outRanks(t[k].data, t[n].data)

\* What the subtree at n counts, with one that counts d more than it says.
Counts(t, n, at, d) == SizeOf(t, n) + (IF n = at THEN d ELSE 0)

Sized(t, at, d) ==
  \A n \in DOMAIN t : t[n].mSize = 1 + Counts(t, Left(n), at, d) + Counts(t, Right(n), at, d)

\* The nodes of D hold the items of s, each once.
HoldsOnce(t, D, s) ==
  /\ {t[n].data : n \in D} = s
  /\ \A n, m \in D : t[n].data = t[m].data => n = m

HeapInv ==
  /\ Shape(mTree) /\ Ordered(mTree) /\ Sized(mTree, Top, 0)
  /\ HoldsOnce(mTree, DOMAIN mTree, pushed) /\ pushed \subseteq Item
  /\ popped.got \subseteq Item /\ popped.got \subseteq popped.due /\ popped.due \subseteq Item
  /\ (popped.got = {} <=> popped.due = {})

\* Places: a node is the top, or on the left or right of one other.
LEMMA Sides ==
  ASSUME NEW n \in Place
  PROVE  /\ Left(n) \in Place /\ Right(n) \in Place
         /\ Len(Left(n)) = Len(n) + 1 /\ Len(Right(n)) = Len(n) + 1 /\ Len(n) \in Nat
         /\ Left(n) # Top /\ Right(n) # Top /\ Left(n) # n /\ Right(n) # n
         /\ \A m \in Place : /\ Left(n) # Right(m)
                             /\ (Left(n) = Left(m) => n = m) /\ (Right(n) = Right(m) => n = m)
<1>1. /\ Left(n) \in Place /\ Right(n) \in Place
      /\ Len(Left(n)) = Len(n) + 1 /\ Len(Right(n)) = Len(n) + 1 /\ Len(n) \in Nat
  BY DEF Place, Left, Right
<1>2. Left(n) # Top /\ Right(n) # Top /\ Left(n) # n /\ Right(n) # n
  BY <1>1 DEF Top
<1>3. ASSUME NEW m \in Place PROVE Left(n) # Right(m)
  <2>1. Left(n)[Len(n) + 1] = "mLeft" /\ Right(m)[Len(m) + 1] = "mRight"
    BY DEF Left, Right, Place
  <2>2. Len(Left(n)) = Len(n) + 1 /\ Len(Right(m)) = Len(m) + 1
    BY DEF Left, Right, Place
  <2> QED BY <2>1, <2>2
<1>4. ASSUME NEW m \in Place, NEW x \in {"mLeft", "mRight"}, Append(n, x) = Append(m, x) PROVE n = m
  <2>1. Len(n) = Len(m)
    <3>1. Len(Append(n, x)) = Len(n) + 1 /\ Len(Append(m, x)) = Len(m) + 1
      BY DEF Place
    <3> QED BY <1>4, <3>1 DEF Place
  <2>2. \A i \in 1..Len(n) : Append(n, x)[i] = n[i] /\ Append(m, x)[i] = m[i]
    BY <2>1 DEF Place
  <2>3. \A i \in 1..Len(n) : n[i] = m[i]
    BY <1>4, <2>2
  <2> QED BY <2>1, <2>3 DEF Place
<1>5. \A m \in Place : (Left(n) = Left(m) => n = m) /\ (Right(n) = Right(m) => n = m)
  BY <1>4 DEF Left, Right
<1> QED BY <1>1, <1>2, <1>3, <1>5

LEMMA UpOne ==
  ASSUME NEW n \in Place, n # Top
  PROVE  \E p \in Place : n = Left(p) \/ n = Right(p)
<1> DEFINE p == SubSeq(n, 1, Len(n) - 1)
<1>1. Len(n) \in Nat /\ Len(n) # 0
  BY DEF Place, Top
<1>2. p \in Place /\ Len(p) = Len(n) - 1
  <2>1. \A k \in 0..Len(n) : SubSeq(n, 1, k) \in Place /\ Len(SubSeq(n, 1, k)) = k
    BY DEF Place
  <2>2. Len(n) - 1 \in 0..Len(n)
    BY <1>1
  <2> HIDE DEF p
  <2> QED BY <2>1, <2>2 DEF p
<1>3. n[Len(n)] \in {"mLeft", "mRight"}
  BY <1>1 DEF Place
<1>4. n = Append(p, n[Len(n)])
  BY <1>1, <1>2 DEF Place
<1> QED BY <1>2, <1>3, <1>4 DEF Left, Right

LEMMA Higher ==
  /\ Above(Top) = {}
  /\ \A n \in Place : /\ Above(n) \subseteq Place /\ \A a \in Above(n) : Len(a) < Len(n)
                      /\ Above(Left(n)) = Above(n) \cup {n} /\ Above(Right(n)) = Above(n) \cup {n}
<1>1. Above(Top) = {}
  BY DEF Above, Top
<1>2. ASSUME NEW n \in Place
      PROVE  /\ Above(n) \subseteq Place /\ \A a \in Above(n) : Len(a) < Len(n)
             /\ \A x \in {"mLeft", "mRight"} : Above(Append(n, x)) = Above(n) \cup {n}
  <2>1. \A k \in 0..(Len(n) - 1) : SubSeq(n, 1, k) \in Place /\ Len(SubSeq(n, 1, k)) = k
    BY DEF Place
  <2>2. Above(n) \subseteq Place /\ \A a \in Above(n) : Len(a) < Len(n)
    BY <2>1 DEF Above, Place
  <2>3. ASSUME NEW x \in {"mLeft", "mRight"} PROVE Above(Append(n, x)) = Above(n) \cup {n}
    <3>1. Len(Append(n, x)) = Len(n) + 1 /\ Len(n) \in Nat
      BY DEF Place
    <3>2. ASSUME NEW k \in 0..Len(n) PROVE SubSeq(Append(n, x), 1, k) = SubSeq(n, 1, k)
      BY DEF Place
    <3>3. SubSeq(n, 1, Len(n)) = n
      BY DEF Place
    <3>4. Above(Append(n, x)) = {SubSeq(Append(n, x), 1, k) : k \in 0..Len(n)}
      BY <3>1 DEF Above
    <3>5. Above(Append(n, x)) = {SubSeq(n, 1, k) : k \in 0..Len(n)}
      BY <3>2, <3>4
    <3>6. \A k : k \in 0..Len(n) <=> k \in 0..(Len(n) - 1) \/ k = Len(n)
      BY <3>1
    <3> QED BY <3>3, <3>5, <3>6 DEF Above
  <2> QED BY <2>2, <2>3
<1> QED BY <1>1, <1>2 DEF Left, Right

LEMMA Below ==
  ASSUME NEW t, Shape(t), NEW p \in Place, Left(p) \in DOMAIN t \/ Right(p) \in DOMAIN t
  PROVE  p \in DOMAIN t
BY Higher DEF Shape

\* No way down is longer than the tree has nodes.
LEMMA Deep ==
  ASSUME NEW t, Shape(t), NEW n \in DOMAIN t
  PROVE  Len(n) < Cardinality(DOMAIN t)
<1>1. n \in Place /\ Len(n) \in Nat /\ IsFiniteSet(DOMAIN t) /\ Above(n) \subseteq DOMAIN t
  BY DEF Shape, Place
<1>2. Cardinality(DOMAIN t) \in Nat
  BY <1>1, FS_CardinalityType
<1> DEFINE way == [k \in 0..Len(n) |-> SubSeq(n, 1, k)]
<1>3. \A k \in 0..Len(n) : way[k] \in DOMAIN t /\ Len(way[k]) = k
  <2>1. \A k \in 0..Len(n) : Len(SubSeq(n, 1, k)) = k
    BY <1>1 DEF Place
  <2>2. SubSeq(n, 1, Len(n)) = n
    BY <1>1 DEF Place
  <2>3. \A k \in 0..Len(n) : k \in 0..(Len(n) - 1) \/ k = Len(n)
    BY <1>1
  <2> QED BY <1>1, <2>1, <2>2, <2>3 DEF Above
<1>4. way \in Injection(0..Len(n), DOMAIN t)
  <2>1. way \in [0..Len(n) -> DOMAIN t]
    BY <1>3
  <2>2. \A i, j \in 0..Len(n) : way[i] = way[j] => i = j
    BY <1>3
  <2> QED BY <2>1, <2>2 DEF Injection, IsInjective
<1>5. Cardinality(0..Len(n)) <= Cardinality(DOMAIN t)
  BY <1>1, <1>4, FS_Injection
<1>6. Cardinality(0..Len(n)) = Len(n) + 1
  <2>1. Cardinality(0..Len(n)) = IF 0 > Len(n) THEN 0 ELSE Len(n) - 0 + 1
    BY <1>1, FS_Interval
  <2> QED BY <1>1, <2>1
<1> QED BY <1>1, <1>2, <1>5, <1>6

LEMMA Ranked ==
  ASSUME NEW x \in Item, NEW y \in Item, NEW z \in Item
  PROVE  /\ ~outRanks(x, x) /\ (outRanks(x, y) => ~outRanks(y, x))
         /\ (~outRanks(x, y) /\ ~outRanks(y, z) => ~outRanks(x, z))
         /\ (outRanks(x, y) /\ ~outRanks(z, y) => ~outRanks(z, x))
<1>1. Rank[x] \in Int /\ Rank[y] \in Int /\ Rank[z] \in Int
  BY HeapAssumption
<1> QED BY <1>1 DEF outRanks

\* No node outranks one above it.
LEMMA NoneAbove ==
  ASSUME NEW t, Shape(t), Ordered(t)
  PROVE  \A n \in DOMAIN t : \A a \in Above(n) : ~outRanks(t[n].data, t[a].data)
<1> DEFINE S == {k \in Nat : \A n \in DOMAIN t : Len(n) = k => \A a \in Above(n) : ~outRanks(t[n].data, t[a].data)}
<1>1. \A n \in DOMAIN t : n \in Place /\ t[n].data \in Item /\ Above(n) \subseteq DOMAIN t
  BY DEF Shape
<1>2. 0 \in S
  <2>1. \A n \in DOMAIN t : Len(n) = 0 => n = Top
    BY <1>1 DEF Place, Top
  <2> QED BY <2>1, Higher
<1>3. ASSUME NEW k \in Nat, k \in S PROVE k + 1 \in S
  <2> SUFFICES ASSUME NEW n \in DOMAIN t, Len(n) = k + 1, NEW a \in Above(n)
               PROVE  ~outRanks(t[n].data, t[a].data)
    OBVIOUS
  <2>1. n # Top
    BY <1>3 DEF Top
  <2>2. PICK p \in Place : n = Left(p) \/ n = Right(p)
    BY <1>1, <2>1, UpOne
  <2>3. p \in DOMAIN t /\ Len(p) = k /\ Above(n) = Above(p) \cup {p}
    <3>1. p \in DOMAIN t
      BY <2>2, Below
    <3>2. Len(n) = Len(p) + 1 /\ Len(p) \in Nat
      BY <2>2, Sides
    <3> QED BY <2>2, <3>1, <3>2, Higher
  <2>4. ~outRanks(t[n].data, t[p].data)
    BY <2>2, <2>3 DEF Ordered, Kids
  <2>5. a # p => ~outRanks(t[p].data, t[a].data)
    BY <1>3, <2>3
  <2>6. a \in DOMAIN t /\ t[a].data \in Item /\ t[p].data \in Item /\ t[n].data \in Item
    BY <1>1, <2>3
  <2> QED BY <2>4, <2>5, <2>6, Ranked
<1>4. Nat \subseteq S
  <2> HIDE DEF S
  <2> QED BY <1>2, <1>3, Counting
<1>5. \A n \in DOMAIN t : Len(n) \in Nat
  BY <1>1 DEF Place
<1> QED BY <1>4, <1>5

\* A tree grows where there is no node, and only a leaf can go.
LEMMA Grown ==
  ASSUME NEW t, Shape(t), NEW at \in Place, at \notin DOMAIN t, Above(at) \subseteq DOMAIN t,
         NEW u, u = [n \in DOMAIN t \cup {at} |-> u[n]],
         \A n \in DOMAIN u : u[n] \in [data : Item, mSize : Int]
  PROVE  Shape(u)
<1>1. DOMAIN u = DOMAIN t \cup {at}
  OBVIOUS
<1>2. IsFiniteSet(DOMAIN u)
  BY <1>1, FS_AddElement DEF Shape
<1> QED BY <1>1, <1>2 DEF Shape

LEMMA Shrunk ==
  ASSUME NEW t, Shape(t), NEW at \in DOMAIN t, Kids(t, at) = {},
         NEW u, u = [n \in DOMAIN t \ {at} |-> u[n]],
         \A n \in DOMAIN u : u[n] \in [data : Item, mSize : Int]
  PROVE  Shape(u)
<1>1. DOMAIN u = DOMAIN t \ {at}
  OBVIOUS
<1>2. IsFiniteSet(DOMAIN u)
  BY <1>1, FS_RemoveElement DEF Shape
<1>3. ASSUME NEW n \in DOMAIN t, at \in Above(n) PROVE FALSE
  <2>1. PICK k \in 0..(Len(n) - 1) : at = SubSeq(n, 1, k)
    BY <1>3 DEF Above
  <2> DEFINE m == SubSeq(n, 1, k + 1)
  <2>2. n \in Place /\ Len(n) \in Nat /\ k + 1 \in 1..Len(n) /\ k \in Nat
    BY DEF Shape, Place
  <2>3. m = Append(at, n[k + 1]) /\ n[k + 1] \in {"mLeft", "mRight"}
    BY <2>1, <2>2 DEF Place
  <2>4. m \in DOMAIN t
    <3>1. CASE k + 1 = Len(n)
      <4>1. SubSeq(n, 1, Len(n)) = n
        BY <2>2 DEF Place
      <4> QED BY <3>1, <4>1
    <3>2. CASE k + 1 # Len(n)
      <4>1. m \in Above(n)
        BY <2>2, <3>2 DEF Above
      <4> QED BY <4>1 DEF Shape
    <3> QED BY <3>1, <3>2
  <2>5. m \in Kids(t, at)
    <3> HIDE DEF m
    <3> QED BY <2>3, <2>4 DEF Kids, Left, Right
  <2> QED BY <2>5
<1> QED BY <1>1, <1>2, <1>3 DEF Shape

\* Where push has come to: what it carries belongs below the nodes above, and
\* the node it will become is counted already.
Pushing(u, at, d, t, x, k) ==
  /\ DOMAIN u = DOMAIN t /\ Shape(u) /\ Ordered(u) /\ Sized(u, at, 1)
  /\ at \in Place /\ Above(at) \subseteq DOMAIN t /\ d \in Item
  /\ \A p \in DOMAIN t : at \in {Left(p), Right(p)} => ~outRanks(d, u[p].data)
  /\ \A n, m \in DOMAIN t : u[n].data = u[m].data => n = m
  /\ \A n \in DOMAIN t : u[n].data # d
  /\ {u[n].data : n \in DOMAIN t} \cup {d} = {t[n].data : n \in DOMAIN t} \cup {x}
  /\ at \in DOMAIN t => Len(at) = k

LEMMA TakerIs ==
  ASSUME NEW t, NEW n
  PROVE  Taker(t, n) \in {Left(n), Right(n)}
BY DEF Taker

LEMMA PushStep ==
  ASSUME NEW s, NEW t, NEW x, NEW k \in Nat, Pushing(s.tree, s.at, s.data, t, x, k)
  PROVE  Pushing(PushLevel(s).tree, PushLevel(s).at, PushLevel(s).data, t, x, k + 1)
<1>1. CASE s.at \notin DOMAIN t
  <2>1. PushLevel(s) = s
    BY <1>1 DEF PushLevel, Pushing
  <2> QED BY <1>1, <2>1 DEF Pushing
<1>2. CASE s.at \in DOMAIN t
  <2> DEFINE at == s.at
             old == s.tree
             h == old[at].data
             swap == outRanks(s.data, h)
             mine == IF swap THEN s.data ELSE h
             on == IF swap THEN h ELSE s.data
             new == [n \in DOMAIN t |-> IF n = at THEN [data |-> mine, mSize |-> old[at].mSize + 1] ELSE old[n]]
             to == Taker(old, at)
             r == PushLevel(s)
  <2>1. /\ DOMAIN old = DOMAIN t /\ Shape(old) /\ Ordered(old) /\ Sized(old, at, 1)
        /\ at \in Place /\ Above(at) \subseteq DOMAIN t /\ s.data \in Item /\ at \in DOMAIN t /\ Len(at) = k
        /\ old = [n \in DOMAIN t |-> old[n]] /\ DOMAIN t \subseteq Place
        /\ \A n \in DOMAIN t : old[n] \in [data : Item, mSize : Int]
    BY <1>2 DEF Pushing, Shape
  <2>2. r = [tree |-> new, at |-> to, data |-> on]
    <3>1. [old EXCEPT ![at] = [data |-> mine, mSize |-> old[at].mSize + 1]] = new
      BY <2>1
    <3>2. r = [tree |-> [old EXCEPT ![at] = [data |-> mine, mSize |-> old[at].mSize + 1]], at |-> to, data |-> on]
      BY <2>1 DEF PushLevel
    <3> QED BY <3>1, <3>2
  <2>3. to \in {Left(at), Right(at)}
    BY TakerIs
  <2>4. h \in Item /\ mine \in Item /\ on \in Item /\ {mine, on} = {s.data, h} /\ h # s.data
        /\ old[at].mSize \in Int
    BY <2>1 DEF Pushing
  <2>5. ~outRanks(on, mine) /\ (mine = h \/ outRanks(mine, h))
    BY <2>1, <2>4, Ranked
  <2>6. /\ \A n \in DOMAIN t : new[n].data = IF n = at THEN mine ELSE old[n].data
        /\ \A n \in DOMAIN t : new[n].mSize = IF n = at THEN old[at].mSize + 1 ELSE old[n].mSize
        /\ \A n \in DOMAIN t : new[n] \in [data : Item, mSize : Int]
        /\ DOMAIN new = DOMAIN t /\ new = [n \in DOMAIN t |-> new[n]]
    BY <2>1, <2>4
  <2> HIDE DEF mine, on, swap, new, to, r, h
  <2>7. Shape(new)
    BY <2>1, <2>6 DEF Shape
  <2>8. /\ Left(at) \in Place /\ Right(at) \in Place /\ Left(at) # at /\ Right(at) # at /\ Left(at) # Right(at)
        /\ Len(Left(at)) = Len(at) + 1 /\ Len(Right(at)) = Len(at) + 1
        /\ Above(Left(at)) = Above(at) \cup {at} /\ Above(Right(at)) = Above(at) \cup {at}
    <3>1. \A m \in Place : Left(at) # Right(m)
      BY <2>1, Sides
    <3> QED BY <2>1, <3>1, Sides, Higher
  <2>9. \A n \in DOMAIN t : /\ Left(n) # n /\ Right(n) # n
                            /\ (n # at => Left(n) \notin {Left(at), Right(at)} /\ Right(n) \notin {Left(at), Right(at)})
    <3> SUFFICES ASSUME NEW n \in DOMAIN t
                 PROVE  /\ Left(n) # n /\ Right(n) # n
                        /\ (n # at => Left(n) \notin {Left(at), Right(at)} /\ Right(n) \notin {Left(at), Right(at)})
      OBVIOUS
    <3>1. n \in Place
      BY <2>1
    <3>2. /\ Left(n) # n /\ Right(n) # n
          /\ \A m \in Place : Left(n) # Right(m) /\ (Left(n) = Left(m) => n = m) /\ (Right(n) = Right(m) => n = m)
      BY <3>1, Sides
    <3>3. \A m \in Place : Left(at) # Right(m)
      BY <2>1, Sides
    <3> QED BY <2>1, <3>1, <3>2, <3>3
  <2>10. Ordered(new)
    <3> SUFFICES ASSUME NEW n \in DOMAIN t, NEW c \in {Left(n), Right(n)}, c \in DOMAIN t
                 PROVE  ~outRanks(new[c].data, new[n].data)
      BY <2>6 DEF Ordered, Kids
    <3>1. ~outRanks(old[c].data, old[n].data) /\ old[c].data \in Item /\ old[n].data \in Item /\ c # n
      BY <2>1, <2>9 DEF Ordered, Kids
    <3>2. CASE n = at
      <4>1. ~outRanks(old[c].data, h)
        BY <3>1, <3>2 DEF h
      <4>2. ~outRanks(old[c].data, mine)
        BY <2>4, <2>5, <3>1, <4>1, Ranked
      <4> QED BY <2>6, <3>1, <3>2, <4>2
    <3>3. CASE c = at
      <4>1. ~outRanks(s.data, old[n].data)
        BY <2>1, <3>3 DEF Pushing
      <4>2. ~outRanks(h, old[n].data)
        BY <3>1, <3>3 DEF h
      <4>3. ~outRanks(mine, old[n].data)
        BY <2>4, <4>1, <4>2
      <4> QED BY <2>6, <3>1, <3>3, <4>3
    <3>4. CASE n # at /\ c # at
      BY <2>6, <3>1, <3>4
    <3> QED BY <3>2, <3>3, <3>4
  <2>11. Sized(new, to, 1)
    <3> SUFFICES ASSUME NEW n \in DOMAIN t
                 PROVE  new[n].mSize = 1 + Counts(new, Left(n), to, 1) + Counts(new, Right(n), to, 1)
      BY <2>6 DEF Sized
    <3>1. old[n].mSize = 1 + Counts(old, Left(n), at, 1) + Counts(old, Right(n), at, 1)
      BY <2>1 DEF Sized
    <3>2. \A c : SizeOf(old, c) \in Int /\ SizeOf(new, c) = SizeOf(old, c) + (IF c = at THEN 1 ELSE 0)
      BY <2>1, <2>4, <2>6 DEF SizeOf
    <3>3. \A c : Counts(new, c, to, 1) = Counts(old, c, at, 1) + (IF c = to THEN 1 ELSE 0)
      BY <3>2 DEF Counts
    <3>4. \A c : Counts(old, c, at, 1) \in Int
      BY <3>2 DEF Counts
    <3>5. CASE n = at
      <4>1. (Left(n) = to /\ Right(n) # to) \/ (Left(n) # to /\ Right(n) = to)
        BY <2>3, <2>8, <3>5
      <4>2. new[n].mSize = old[n].mSize + 1
        BY <2>6, <3>5
      <4> QED BY <3>1, <3>3, <3>4, <4>1, <4>2
    <3>6. CASE n # at
      <4>1. Left(n) # to /\ Right(n) # to
        BY <2>3, <2>9, <3>6
      <4>2. new[n].mSize = old[n].mSize
        BY <2>6, <3>6
      <4> QED BY <3>1, <3>3, <3>4, <4>1, <4>2
    <3> QED BY <3>5, <3>6
  <2>12. \A p \in DOMAIN t : to \in {Left(p), Right(p)} => ~outRanks(on, new[p].data)
    BY <2>3, <2>5, <2>6, <2>9
  <2>13. /\ \A n, m \in DOMAIN t : new[n].data = new[m].data => n = m
         /\ \A n \in DOMAIN t : new[n].data # on
         /\ {new[n].data : n \in DOMAIN t} \cup {on} = {t[n].data : n \in DOMAIN t} \cup {x}
    <3>1. /\ \A n, m \in DOMAIN t : old[n].data = old[m].data => n = m
          /\ \A n \in DOMAIN t : old[n].data # s.data
          /\ {old[n].data : n \in DOMAIN t} \cup {s.data} = {t[n].data : n \in DOMAIN t} \cup {x}
      BY DEF Pushing
    <3>2. (mine = h /\ on = s.data) \/ (mine = s.data /\ on = h)
      BY <2>4
    <3>3. h = old[at].data
      BY DEF h
    <3>4. {new[n].data : n \in DOMAIN t} \cup {on} = {old[n].data : n \in DOMAIN t} \cup {s.data}
      <4>1. /\ {new[n].data : n \in DOMAIN t} = {old[n].data : n \in DOMAIN t \ {at}} \cup {mine}
            /\ {old[n].data : n \in DOMAIN t} = {old[n].data : n \in DOMAIN t \ {at}} \cup {h}
        <5>1. at \in DOMAIN t /\ new[at].data = mine /\ old[at].data = h
          BY <2>1, <2>6, <3>3
        <5>2. \A n \in DOMAIN t \ {at} : new[n].data = old[n].data
          BY <2>6
        <5> HIDE DEF old, at
        <5> QED BY <5>1, <5>2
      <4> QED BY <3>2, <4>1
    <3>5. \A n, m \in DOMAIN t : new[n].data = new[m].data => n = m
      BY <2>1, <2>6, <3>1, <3>2, <3>3
    <3>6. \A n \in DOMAIN t : new[n].data # on
      BY <2>1, <2>4, <2>6, <3>1, <3>2, <3>3
    <3> QED BY <3>1, <3>4, <3>5, <3>6
  <2>14. to \in Place /\ Above(to) \subseteq DOMAIN t /\ Len(to) = k + 1
    BY <2>1, <2>3, <2>8
  <2>15. r.tree = new /\ r.at = to /\ r.data = on
    BY <2>2
  <2>16. Pushing(new, to, on, t, x, k + 1)
    BY <2>4, <2>6, <2>7, <2>10, <2>11, <2>12, <2>13, <2>14 DEF Pushing
  <2> QED BY <2>15, <2>16 DEF r
<1> QED BY <1>1, <1>2

\* The levels of a push, one after the other.
PushGoes(g, t, x, N) ==
  /\ g = [k \in 0..N |-> IF k = 0 THEN [tree |-> t, at |-> Top, data |-> x] ELSE PushLevel(g[k - 1])]
  /\ Pushed(t, x) = [n \in DOMAIN t \cup {g[N].at} |->
                        IF n = g[N].at THEN [data |-> g[N].data, mSize |-> 1] ELSE g[N].tree[n]]

LEMMA PushLevels ==
  ASSUME NEW t, NEW x, NEW N \in Nat, N = Cardinality(DOMAIN t)
  PROVE  \E g : PushGoes(g, t, x, N)
<1> DEFINE start == [tree |-> t, at |-> Top, data |-> x]
           Is(g, k) == g = [n \in 0..k |-> IF n = 0 THEN start ELSE PushLevel(g[n - 1])]
           S == {k \in Nat : \E g : Is(g, k)}
<1> HIDE DEF start
<1>1. 0 \in S
  <2>1. Is([n \in 0..0 |-> start], 0)
    OBVIOUS
  <2> QED BY <2>1
<1>2. ASSUME NEW k \in Nat, k \in S PROVE k + 1 \in S
  <2>1. PICK g : Is(g, k)
    BY <1>2
  <2> DEFINE h == [n \in 0..(k + 1) |-> IF n = k + 1 THEN PushLevel(g[k]) ELSE g[n]]
  <2>2. \A n \in 0..k : h[n] = g[n]
    OBVIOUS
  <2>3. ASSUME NEW n \in 0..(k + 1)
        PROVE  h[n] = IF n = 0 THEN start ELSE PushLevel(h[n - 1])
    <3>1. CASE n = k + 1
      <4>1. n # 0 /\ n - 1 = k /\ h[k] = g[k]
        BY <2>2, <3>1
      <4> QED BY <3>1, <4>1
    <3>2. CASE n # k + 1
      <4>1. n \in 0..k /\ (n # 0 => n - 1 \in 0..k)
        BY <3>2
      <4>2. h[n] = g[n] /\ (n # 0 => h[n - 1] = g[n - 1])
        BY <2>2, <4>1
      <4>3. g[n] = IF n = 0 THEN start ELSE PushLevel(g[n - 1])
        BY <2>1, <4>1
      <4> QED BY <4>2, <4>3
    <3> QED BY <3>1, <3>2
  <2>4. Is(h, k + 1)
    <3>1. h = [n \in 0..(k + 1) |-> h[n]]
      OBVIOUS
    <3> HIDE DEF h
    <3> QED BY <2>3, <3>1
  <2> HIDE DEF h
  <2>5. \E a : Is(a, k + 1)
    BY <2>4
  <2> QED BY <2>5
<1>3. PICK g : Is(g, N)
  <2> HIDE DEF S
  <2>1. N \in S
    BY <1>1, <1>2, Counting
  <2> QED BY <2>1 DEF S
<1> DEFINE after == CHOOSE a : Is(a, N)
<1>4. Is(after, N)
  BY <1>3
<1>5. Pushed(t, x) = [n \in DOMAIN t \cup {after[N].at} |->
                        IF n = after[N].at THEN [data |-> after[N].data, mSize |-> 1] ELSE after[N].tree[n]]
  BY DEF Pushed, start
<1>6. PushGoes(after, t, x, N)
  BY <1>4, <1>5 DEF start, PushGoes
<1> QED BY <1>6

\* An item that is pushed is in the heap, and the heap is as good as before.
LEMMA PushKeeps ==
  ASSUME NEW t, Shape(t), Ordered(t), Sized(t, Top, 0), NEW items, HoldsOnce(t, DOMAIN t, items),
         NEW x \in Item, x \notin items
  PROVE  /\ Shape(Pushed(t, x)) /\ Ordered(Pushed(t, x)) /\ Sized(Pushed(t, x), Top, 0)
         /\ HoldsOnce(Pushed(t, x), DOMAIN Pushed(t, x), items \cup {x})
<1> DEFINE new == Pushed(t, x)
<1>1. PICK N \in Nat : N = Cardinality(DOMAIN t)
  BY FS_CardinalityType DEF Shape
<1>l. PICK g : PushGoes(g, t, x, N)
  BY <1>1, PushLevels
<1>2. /\ g = [k \in 0..N |-> IF k = 0 THEN [tree |-> t, at |-> Top, data |-> x] ELSE PushLevel(g[k - 1])]
      /\ new = [n \in DOMAIN t \cup {g[N].at} |->
                  IF n = g[N].at THEN [data |-> g[N].data, mSize |-> 1] ELSE g[N].tree[n]]
  BY <1>l DEF PushGoes
<1> HIDE DEF new
<1>3. \A k \in 0..N : Pushing(g[k].tree, g[k].at, g[k].data, t, x, k)
  <2> DEFINE S == {k \in Nat : k \in 0..N => Pushing(g[k].tree, g[k].at, g[k].data, t, x, k)}
  <2>1. 0 \in S
    <3>1. g[0] = [tree |-> t, at |-> Top, data |-> x]
      BY <1>1, <1>2
    <3>2. g[0].tree = t /\ g[0].at = Top /\ g[0].data = x
      BY <3>1
    <3>3. Pushing(t, Top, x, t, x, 0)
      <4>1. Top \in Place /\ Len(Top) = 0 /\ Above(Top) = {}
        BY Higher DEF Top, Place
      <4>2. \A n \in DOMAIN t : n \in Place /\ Left(n) # Top /\ Right(n) # Top
        BY Sides DEF Shape
      <4>3. Sized(t, Top, 1)
        <5>1. \A n \in DOMAIN t : /\ Counts(t, Left(n), Top, 1) = Counts(t, Left(n), Top, 0)
                                  /\ Counts(t, Right(n), Top, 1) = Counts(t, Right(n), Top, 0)
          BY <4>2 DEF Counts
        <5> QED BY <5>1 DEF Sized
      <4> QED BY <4>1, <4>2, <4>3 DEF Pushing, HoldsOnce
    <3> QED BY <3>2, <3>3
  <2>2. ASSUME NEW k \in Nat, k \in S PROVE k + 1 \in S
    <3> SUFFICES ASSUME k + 1 \in 0..N
                 PROVE  Pushing(g[k + 1].tree, g[k + 1].at, g[k + 1].data, t, x, k + 1)
      OBVIOUS
    <3>1. g[k + 1] = PushLevel(g[k])
      <4>1. (k + 1) - 1 = k /\ k + 1 # 0
        OBVIOUS
      <4> QED BY <1>2, <4>1
    <3>2. Pushing(g[k].tree, g[k].at, g[k].data, t, x, k)
      BY <1>1, <2>2
    <3> QED BY <3>1, <3>2, PushStep
  <2>3. Nat \subseteq S
    <3> HIDE DEF S
    <3> QED BY <2>1, <2>2, Counting
  <2> QED BY <2>3
<1> DEFINE old == g[N].tree
           at  == g[N].at
           d   == g[N].data
<1>4. Pushing(old, at, d, t, x, N)
  BY <1>1, <1>3
<1>5. new = [n \in DOMAIN t \cup {at} |-> IF n = at THEN [data |-> d, mSize |-> 1] ELSE old[n]]
  BY <1>2
<1> HIDE DEF old, at, d
<1>6. /\ DOMAIN old = DOMAIN t /\ Shape(old) /\ Ordered(old) /\ Sized(old, at, 1)
      /\ at \in Place /\ Above(at) \subseteq DOMAIN t /\ d \in Item
      /\ \A n \in DOMAIN t : n \in Place /\ old[n] \in [data : Item, mSize : Int]
  BY <1>4 DEF Pushing, Shape
<1>7. at \notin DOMAIN t
  <2>1. at \in DOMAIN t => Len(at) = N
    BY <1>4 DEF Pushing
  <2>2. at \in DOMAIN t => Len(at) < N
    BY <1>1, Deep
  <2> QED BY <1>1, <2>1, <2>2
<1>8. /\ \A n \in DOMAIN t : new[n] = old[n]
      /\ new[at] = [data |-> d, mSize |-> 1] /\ DOMAIN new = DOMAIN t \cup {at}
      /\ new = [n \in DOMAIN t \cup {at} |-> new[n]]
      /\ \A n \in DOMAIN new : new[n] \in [data : Item, mSize : Int]
  BY <1>5, <1>6, <1>7
<1>9. Shape(new)
  BY <1>6, <1>7, <1>8, Grown
<1>10. \A n \in Place : n = at \/ (n \in DOMAIN t /\ at \notin {Left(n), Right(n)}) => Left(n) # at /\ Right(n) # at
  BY Sides
<1>11. \A n \in Place : n \notin DOMAIN t => Left(n) \notin DOMAIN t /\ Right(n) \notin DOMAIN t
  BY Below
<1>12. Ordered(new)
  <2> SUFFICES ASSUME NEW n \in DOMAIN new, NEW c \in {Left(n), Right(n)}, c \in DOMAIN new
               PROVE  ~outRanks(new[c].data, new[n].data)
    BY DEF Ordered, Kids
  <2>1. n # at
    BY <1>6, <1>7, <1>8, <1>10, <1>11
  <2>2. n \in DOMAIN t
    BY <1>8, <2>1
  <2>3. CASE c = at
    BY <1>4, <1>8, <2>2, <2>3 DEF Pushing
  <2>4. CASE c # at
    <3>1. c \in DOMAIN t /\ c \in Kids(old, n)
      BY <1>6, <1>8, <2>4 DEF Kids
    <3> QED BY <1>6, <1>8, <2>2, <3>1 DEF Ordered
  <2> QED BY <2>3, <2>4
<1>13. Sized(new, Top, 0)
  <2> SUFFICES ASSUME NEW n \in DOMAIN new
               PROVE  new[n].mSize = 1 + Counts(new, Left(n), Top, 0) + Counts(new, Right(n), Top, 0)
    BY DEF Sized
  <2>1. \A c : SizeOf(old, c) \in Int /\ SizeOf(new, c) = IF c = at THEN 1 ELSE SizeOf(old, c)
    BY <1>6, <1>7, <1>8 DEF SizeOf
  <2>2. SizeOf(old, at) = 0
    BY <1>6, <1>7 DEF SizeOf
  <2>3. \A c : Counts(new, c, Top, 0) = SizeOf(new, c) /\ SizeOf(new, c) = Counts(old, c, at, 1)
    BY <2>1, <2>2 DEF Counts
  <2>4. CASE n = at
    <3>1. SizeOf(new, Left(n)) = 0 /\ SizeOf(new, Right(n)) = 0
      BY <1>6, <1>7, <1>10, <1>11, <2>1, <2>4 DEF SizeOf
    <3>2. new[n].mSize = 1
      BY <1>8, <2>4
    <3>3. Counts(new, Left(n), Top, 0) = 0 /\ Counts(new, Right(n), Top, 0) = 0
      BY <2>3, <3>1
    <3> QED BY <3>2, <3>3
  <2>5. CASE n # at
    <3>1. n \in DOMAIN old /\ new[n].mSize = old[n].mSize
      BY <1>6, <1>8, <2>5
    <3>2. old[n].mSize = 1 + Counts(old, Left(n), at, 1) + Counts(old, Right(n), at, 1)
      BY <1>6, <3>1 DEF Sized
    <3>3. /\ Counts(new, Left(n), Top, 0) = Counts(old, Left(n), at, 1)
          /\ Counts(new, Right(n), Top, 0) = Counts(old, Right(n), at, 1)
      BY <2>3
    <3> QED BY <3>1, <3>2, <3>3
  <2> QED BY <2>4, <2>5
<1>14. HoldsOnce(new, DOMAIN new, items \cup {x})
  <2>1. /\ \A n, m \in DOMAIN t : old[n].data = old[m].data => n = m
        /\ \A n \in DOMAIN t : old[n].data # d
        /\ {old[n].data : n \in DOMAIN t} \cup {d} = {t[n].data : n \in DOMAIN t} \cup {x}
    BY <1>4 DEF Pushing
  <2>2. {t[n].data : n \in DOMAIN t} = items
    BY DEF HoldsOnce
  <2>3. {new[n].data : n \in DOMAIN new} = {old[n].data : n \in DOMAIN t} \cup {d}
    <3>1. new[at].data = d /\ \A n \in DOMAIN t : new[n].data = old[n].data
      BY <1>8
    <3>2. {new[n].data : n \in DOMAIN new} = {new[n].data : n \in DOMAIN t} \cup {new[at].data}
      BY <1>8
    <3>3. {new[n].data : n \in DOMAIN t} = {old[n].data : n \in DOMAIN t}
      BY <3>1
    <3> QED BY <3>1, <3>2, <3>3
  <2>4. \A n, m \in DOMAIN new : new[n].data = new[m].data => n = m
    BY <1>7, <1>8, <2>1
  <2> QED BY <2>1, <2>2, <2>3, <2>4 DEF HoldsOnce
<1> QED BY <1>9, <1>12, <1>13, <1>14 DEF new

\* Where pop has come to: the node that is losing its data.  The nodes above count
\* one less already, and the others hold what is left.
Popping(u, at, D, left, k) ==
  /\ DOMAIN u = D /\ Shape(u) /\ Ordered(u) /\ Sized(u, at, -1) /\ at \in D
  /\ HoldsOnce(u, D \ {at}, left)
  /\ Kids(u, at) = {} \/ Len(at) >= k

LEMMA SubTopIs ==
  ASSUME NEW t, Shape(t), NEW n \in DOMAIN t, Kids(t, n) # {}
  PROVE  /\ SubTop(t, n) \in Kids(t, n)
         /\ \A c \in Kids(t, n) : ~outRanks(t[c].data, t[SubTop(t, n)].data)
<1>1. \A c \in Kids(t, n) : t[c].data \in Item
  BY DEF Kids, Shape
<1>2. CASE Kids(t, n) # {Left(n), Right(n)}
  <2>1. SubTop(t, n) = CHOOSE k \in Kids(t, n) : TRUE
    BY <1>2 DEF SubTop
  <2>2. SubTop(t, n) \in Kids(t, n)
    BY <2>1
  <2>3. \A c \in Kids(t, n) : c = SubTop(t, n)
    BY <1>2, <2>2 DEF Kids
  <2>4. ~outRanks(t[SubTop(t, n)].data, t[SubTop(t, n)].data)
    BY <1>1, <2>2, Ranked
  <2> QED BY <2>2, <2>3, <2>4
<1>3. CASE Kids(t, n) = {Left(n), Right(n)}
  <2>1. t[Left(n)].data \in Item /\ t[Right(n)].data \in Item
    BY <1>1, <1>3
  <2>2. SubTop(t, n) = IF outRanks(t[Left(n)].data, t[Right(n)].data) THEN Left(n) ELSE Right(n)
    BY <1>3 DEF SubTop
  <2>3. /\ ~outRanks(t[Left(n)].data, t[Left(n)].data) /\ ~outRanks(t[Right(n)].data, t[Right(n)].data)
        /\ (outRanks(t[Left(n)].data, t[Right(n)].data) => ~outRanks(t[Right(n)].data, t[Left(n)].data))
    BY <2>1, Ranked
  <2> QED BY <1>3, <2>2, <2>3
<1> QED BY <1>2, <1>3

LEMMA PopStep ==
  ASSUME NEW s, NEW D, NEW left, NEW k \in Nat, Popping(s.tree, s.at, D, left, k)
  PROVE  Popping(PopLevel(s).tree, PopLevel(s).at, D, left, k + 1)
<1>1. CASE Kids(s.tree, s.at) = {}
  <2>1. PopLevel(s) = s
    BY <1>1 DEF PopLevel
  <2> QED BY <1>1, <2>1 DEF Popping
<1>2. CASE Kids(s.tree, s.at) # {}
  <2> DEFINE at == s.at
             old == s.tree
             to == SubTop(old, at)
             up == old[to].data
             new == [n \in D |-> IF n = at THEN [data |-> up, mSize |-> old[at].mSize - 1] ELSE old[n]]
             r == PopLevel(s)
  <2>1. /\ DOMAIN old = D /\ Shape(old) /\ Ordered(old) /\ Sized(old, at, -1) /\ at \in D
        /\ old = [n \in D |-> old[n]] /\ D \subseteq Place /\ Len(at) >= k
        /\ \A n \in D : old[n] \in [data : Item, mSize : Int]
    BY <1>2 DEF Popping, Shape
  <2>2. r = [tree |-> new, at |-> to]
    <3>1. [old EXCEPT ![at] = [data |-> up, mSize |-> @.mSize - 1]] = new
      BY <2>1
    <3>2. r = [tree |-> [old EXCEPT ![at] = [data |-> up, mSize |-> @.mSize - 1]], at |-> to]
      BY <1>2 DEF PopLevel
    <3> QED BY <3>1, <3>2
  <2>3. /\ to \in {Left(at), Right(at)} /\ to \in D
        /\ \A c \in Kids(old, at) : ~outRanks(old[c].data, up)
    <3>1. to \in Kids(old, at) /\ \A c \in Kids(old, at) : ~outRanks(old[c].data, up)
      BY <1>2, <2>1, SubTopIs
    <3> HIDE DEF to, up
    <3> QED BY <2>1, <3>1 DEF Kids
  <2>4. up \in Item /\ old[at].mSize \in Int /\ old[at].data \in Item
    <3> HIDE DEF to
    <3> QED BY <2>1, <2>3
  <2>5. /\ \A n \in D : new[n].data = IF n = at THEN up ELSE old[n].data
        /\ \A n \in D : new[n].mSize = IF n = at THEN old[at].mSize - 1 ELSE old[n].mSize
        /\ \A n \in D : new[n] \in [data : Item, mSize : Int]
        /\ DOMAIN new = D /\ new = [n \in D |-> new[n]]
    <3> HIDE DEF to, up
    <3> QED BY <2>1, <2>4
  <2>u. up = old[to].data
    OBVIOUS
  <2> HIDE DEF up, new, to, r
  <2>6. Shape(new)
    BY <2>1, <2>5 DEF Shape
  <2>7. /\ Left(at) # at /\ Right(at) # at /\ Left(at) # Right(at)
        /\ Len(Left(at)) = Len(at) + 1 /\ Len(Right(at)) = Len(at) + 1 /\ Len(at) \in Nat
    <3>1. \A m \in Place : Left(at) # Right(m)
      BY <2>1, Sides
    <3> QED BY <2>1, <3>1, Sides
  <2>8. \A n \in D : /\ Left(n) # n /\ Right(n) # n
                     /\ (n # at => Left(n) \notin {Left(at), Right(at)} /\ Right(n) \notin {Left(at), Right(at)})
    <3> SUFFICES ASSUME NEW n \in D
                 PROVE  /\ Left(n) # n /\ Right(n) # n
                        /\ (n # at => Left(n) \notin {Left(at), Right(at)} /\ Right(n) \notin {Left(at), Right(at)})
      OBVIOUS
    <3>1. n \in Place
      BY <2>1
    <3>2. /\ Left(n) # n /\ Right(n) # n
          /\ \A m \in Place : Left(n) # Right(m) /\ (Left(n) = Left(m) => n = m) /\ (Right(n) = Right(m) => n = m)
      BY <3>1, Sides
    <3>3. \A m \in Place : Left(at) # Right(m)
      BY <2>1, Sides
    <3> QED BY <2>1, <3>1, <3>2, <3>3
  <2>9. Ordered(new)
    <3> SUFFICES ASSUME NEW n \in D, NEW c \in {Left(n), Right(n)}, c \in D
                 PROVE  ~outRanks(new[c].data, new[n].data)
      BY <2>5 DEF Ordered, Kids
    <3>1. /\ ~outRanks(old[c].data, old[n].data) /\ old[c].data \in Item /\ old[n].data \in Item /\ c # n
          /\ c \in Kids(old, n)
      BY <2>1, <2>8 DEF Ordered, Kids
    <3>2. CASE n = at
      BY <2>3, <2>5, <3>1, <3>2
    <3>3. CASE c = at
      <4>1. ~outRanks(up, old[at].data)
        BY <2>1, <2>3, <2>u DEF Ordered, Kids
      <4>2. ~outRanks(up, old[n].data)
        BY <2>4, <3>1, <3>3, <4>1, Ranked
      <4> QED BY <2>5, <3>1, <3>3, <4>2
    <3>4. CASE n # at /\ c # at
      BY <2>5, <3>1, <3>4
    <3> QED BY <3>2, <3>3, <3>4
  <2>10. Sized(new, to, -1)
    <3> SUFFICES ASSUME NEW n \in D
                 PROVE  new[n].mSize = 1 + Counts(new, Left(n), to, -1) + Counts(new, Right(n), to, -1)
      BY <2>5 DEF Sized
    <3>1. old[n].mSize = 1 + Counts(old, Left(n), at, -1) + Counts(old, Right(n), at, -1)
      BY <2>1 DEF Sized
    <3>2. \A c : SizeOf(old, c) \in Int /\ SizeOf(new, c) = SizeOf(old, c) - (IF c = at THEN 1 ELSE 0)
      BY <2>1, <2>4, <2>5 DEF SizeOf
    <3>3. \A c : Counts(new, c, to, -1) = Counts(old, c, at, -1) - (IF c = to THEN 1 ELSE 0)
      BY <3>2 DEF Counts
    <3>4. \A c : Counts(old, c, at, -1) \in Int
      BY <3>2 DEF Counts
    <3>5. CASE n = at
      <4>1. (Left(n) = to /\ Right(n) # to) \/ (Left(n) # to /\ Right(n) = to)
        BY <2>3, <2>7, <3>5
      <4>2. new[n].mSize = old[n].mSize - 1
        BY <2>5, <3>5
      <4> QED BY <3>1, <3>3, <3>4, <4>1, <4>2
    <3>6. CASE n # at
      <4>1. Left(n) # to /\ Right(n) # to
        BY <2>3, <2>8, <3>6
      <4>2. new[n].mSize = old[n].mSize
        BY <2>5, <3>6
      <4> QED BY <3>1, <3>3, <3>4, <4>1, <4>2
    <3> QED BY <3>5, <3>6
  <2>11. HoldsOnce(new, D \ {to}, left)
    <3>1. /\ {old[n].data : n \in D \ {at}} = left
          /\ \A n, m \in D \ {at} : old[n].data = old[m].data => n = m
      BY DEF Popping, HoldsOnce
    <3>2. to # at
      BY <2>3, <2>7
    <3>3. \A n, m \in D \ {to} : new[n].data = new[m].data => n = m
      BY <2>3, <2>5, <2>u, <3>1, <3>2
    <3>4. ASSUME NEW n \in D \ {to} PROVE new[n].data \in left
      BY <2>3, <2>5, <2>u, <3>1, <3>2, <3>4
    <3>5. ASSUME NEW n \in D \ {at} PROVE \E m \in D \ {to} : new[m].data = old[n].data
      <4>1. CASE n = to
        BY <2>1, <2>5, <2>u, <3>2, <4>1
      <4>2. CASE n # to
        BY <2>5, <4>2
      <4> QED BY <4>1, <4>2
    <3>6. {new[n].data : n \in D \ {to}} = left
      BY <3>1, <3>4, <3>5
    <3> QED BY <3>3, <3>6 DEF HoldsOnce
  <2>12. Len(to) >= k + 1
    BY <2>1, <2>3, <2>7
  <2>13. r.tree = new /\ r.at = to
    BY <2>2
  <2>14. Popping(new, to, D, left, k + 1)
    BY <2>3, <2>5, <2>6, <2>9, <2>10, <2>11, <2>12 DEF Popping
  <2> QED BY <2>13, <2>14 DEF r
<1> QED BY <1>1, <1>2

\* The levels of a pop, one after the other.
PopGoes(g, t, at, N) ==
  /\ g = [k \in 0..N |-> IF k = 0 THEN [tree |-> t, at |-> at] ELSE PopLevel(g[k - 1])]
  /\ Popped(t, at) = [m \in DOMAIN t \ {g[N].at} |-> g[N].tree[m]]

LEMMA PopLevels ==
  ASSUME NEW t, NEW at, NEW N \in Nat, N = Cardinality(DOMAIN t)
  PROVE  \E g : PopGoes(g, t, at, N)
<1> DEFINE start == [tree |-> t, at |-> at]
           Is(g, k) == g = [n \in 0..k |-> IF n = 0 THEN start ELSE PopLevel(g[n - 1])]
           S == {k \in Nat : \E g : Is(g, k)}
<1> HIDE DEF start
<1>1. 0 \in S
  <2>1. Is([n \in 0..0 |-> start], 0)
    OBVIOUS
  <2> QED BY <2>1
<1>2. ASSUME NEW k \in Nat, k \in S PROVE k + 1 \in S
  <2>1. PICK g : Is(g, k)
    BY <1>2
  <2> DEFINE h == [n \in 0..(k + 1) |-> IF n = k + 1 THEN PopLevel(g[k]) ELSE g[n]]
  <2>2. \A n \in 0..k : h[n] = g[n]
    OBVIOUS
  <2>3. ASSUME NEW n \in 0..(k + 1)
        PROVE  h[n] = IF n = 0 THEN start ELSE PopLevel(h[n - 1])
    <3>1. CASE n = k + 1
      <4>1. n # 0 /\ n - 1 = k /\ h[k] = g[k]
        BY <2>2, <3>1
      <4> QED BY <3>1, <4>1
    <3>2. CASE n # k + 1
      <4>1. n \in 0..k /\ (n # 0 => n - 1 \in 0..k)
        BY <3>2
      <4>2. h[n] = g[n] /\ (n # 0 => h[n - 1] = g[n - 1])
        BY <2>2, <4>1
      <4>3. g[n] = IF n = 0 THEN start ELSE PopLevel(g[n - 1])
        BY <2>1, <4>1
      <4> QED BY <4>2, <4>3
    <3> QED BY <3>1, <3>2
  <2>4. Is(h, k + 1)
    <3>1. h = [n \in 0..(k + 1) |-> h[n]]
      OBVIOUS
    <3> HIDE DEF h
    <3> QED BY <2>3, <3>1
  <2> HIDE DEF h
  <2>5. \E a : Is(a, k + 1)
    BY <2>4
  <2> QED BY <2>5
<1>3. PICK g : Is(g, N)
  <2> HIDE DEF S
  <2>1. N \in S
    BY <1>1, <1>2, Counting
  <2> QED BY <2>1 DEF S
<1> DEFINE after == CHOOSE a : Is(a, N)
<1>4. Is(after, N)
  BY <1>3
<1>5. Popped(t, at) = [m \in DOMAIN t \ {after[N].at} |-> after[N].tree[m]]
  BY DEF Popped, start
<1>6. PopGoes(after, t, at, N)
  BY <1>4, <1>5 DEF start, PopGoes
<1> QED BY <1>6

\* The data of a node goes, and the heap is as good as before.
LEMMA PopKeeps ==
  ASSUME NEW t, Shape(t), Ordered(t), NEW at \in DOMAIN t, Sized(t, at, -1),
         NEW left, HoldsOnce(t, DOMAIN t \ {at}, left)
  PROVE  /\ Shape(Popped(t, at)) /\ Ordered(Popped(t, at)) /\ Sized(Popped(t, at), Top, 0)
         /\ HoldsOnce(Popped(t, at), DOMAIN Popped(t, at), left)
<1> DEFINE new == Popped(t, at)
<1>1. PICK N \in Nat : N = Cardinality(DOMAIN t)
  BY FS_CardinalityType DEF Shape
<1>l. PICK g : PopGoes(g, t, at, N)
  BY <1>1, PopLevels
<1>2. /\ g = [k \in 0..N |-> IF k = 0 THEN [tree |-> t, at |-> at] ELSE PopLevel(g[k - 1])]
      /\ new = [m \in DOMAIN t \ {g[N].at} |-> g[N].tree[m]]
  BY <1>l DEF PopGoes
<1> HIDE DEF new
<1>3. \A k \in 0..N : Popping(g[k].tree, g[k].at, DOMAIN t, left, k)
  <2> DEFINE S == {k \in Nat : k \in 0..N => Popping(g[k].tree, g[k].at, DOMAIN t, left, k)}
  <2>1. 0 \in S
    <3>1. g[0] = [tree |-> t, at |-> at]
      BY <1>1, <1>2
    <3>2. g[0].tree = t /\ g[0].at = at
      BY <3>1
    <3>3. Popping(t, at, DOMAIN t, left, 0)
      BY DEF Popping, Shape, Place
    <3> QED BY <3>2, <3>3
  <2>2. ASSUME NEW k \in Nat, k \in S PROVE k + 1 \in S
    <3> SUFFICES ASSUME k + 1 \in 0..N
                 PROVE  Popping(g[k + 1].tree, g[k + 1].at, DOMAIN t, left, k + 1)
      OBVIOUS
    <3>1. g[k + 1] = PopLevel(g[k])
      <4>1. (k + 1) - 1 = k /\ k + 1 # 0
        OBVIOUS
      <4> QED BY <1>2, <4>1
    <3>2. Popping(g[k].tree, g[k].at, DOMAIN t, left, k)
      BY <1>1, <2>2
    <3> QED BY <3>1, <3>2, PopStep
  <2>3. Nat \subseteq S
    <3> HIDE DEF S
    <3> QED BY <2>1, <2>2, Counting
  <2> QED BY <2>3
<1> DEFINE old == g[N].tree
           leaf == g[N].at
<1>4. Popping(old, leaf, DOMAIN t, left, N)
  BY <1>1, <1>3
<1>5. new = [m \in DOMAIN t \ {leaf} |-> old[m]]
  BY <1>2
<1> HIDE DEF old, leaf
<1>6. /\ DOMAIN old = DOMAIN t /\ Shape(old) /\ Ordered(old) /\ Sized(old, leaf, -1) /\ leaf \in DOMAIN t
      /\ HoldsOnce(old, DOMAIN t \ {leaf}, left)
      /\ \A n \in DOMAIN t : n \in Place /\ old[n] \in [data : Item, mSize : Int]
  BY <1>4 DEF Popping, Shape
<1>7. Kids(old, leaf) = {}
  <2>1. Kids(old, leaf) = {} \/ Len(leaf) >= N
    BY <1>4 DEF Popping
  <2>2. Len(leaf) < N /\ Len(leaf) \in Nat
    BY <1>1, <1>6, Deep, Sides
  <2> QED BY <1>1, <2>1, <2>2
<1>8. /\ \A n \in DOMAIN new : new[n] = old[n] /\ n \in DOMAIN old /\ n # leaf
      /\ DOMAIN new = DOMAIN old \ {leaf} /\ new = [n \in DOMAIN old \ {leaf} |-> new[n]]
      /\ \A n \in DOMAIN new : new[n] \in [data : Item, mSize : Int]
  BY <1>5, <1>6
<1>9. Shape(new)
  BY <1>6, <1>7, <1>8, Shrunk
<1>10. Ordered(new)
  BY <1>6, <1>8 DEF Ordered, Kids
<1>11. Sized(new, Top, 0)
  <2>1. old[leaf].mSize = 1
    <3>1. old[leaf].mSize = 1 + Counts(old, Left(leaf), leaf, -1) + Counts(old, Right(leaf), leaf, -1)
      BY <1>6 DEF Sized
    <3>2. Left(leaf) # leaf /\ Right(leaf) # leaf
      BY <1>6, Sides
    <3>3. Left(leaf) \notin DOMAIN old /\ Right(leaf) \notin DOMAIN old
      BY <1>7 DEF Kids
    <3>4. Counts(old, Left(leaf), leaf, -1) = 0 /\ Counts(old, Right(leaf), leaf, -1) = 0
      BY <3>2, <3>3 DEF Counts, SizeOf
    <3> QED BY <3>1, <3>4
  <2>2. \A c : Counts(new, c, Top, 0) = Counts(old, c, leaf, -1)
    <3>1. \A c : SizeOf(new, c) = IF c = leaf THEN 0 ELSE SizeOf(old, c)
      BY <1>8 DEF SizeOf
    <3>2. \A c : SizeOf(old, c) \in Int /\ SizeOf(new, c) \in Int
      BY <1>6, <1>8 DEF SizeOf
    <3>3. SizeOf(old, leaf) = 1
      BY <1>6, <2>1 DEF SizeOf
    <3> QED BY <3>1, <3>2, <3>3 DEF Counts
  <2>3. ASSUME NEW n \in DOMAIN new
        PROVE  new[n].mSize = 1 + Counts(new, Left(n), Top, 0) + Counts(new, Right(n), Top, 0)
    <3>1. n \in DOMAIN old /\ new[n].mSize = old[n].mSize
      BY <1>8
    <3>2. old[n].mSize = 1 + Counts(old, Left(n), leaf, -1) + Counts(old, Right(n), leaf, -1)
      BY <1>6, <3>1 DEF Sized
    <3>3. /\ Counts(new, Left(n), Top, 0) = Counts(old, Left(n), leaf, -1)
          /\ Counts(new, Right(n), Top, 0) = Counts(old, Right(n), leaf, -1)
      BY <2>2
    <3> QED BY <3>1, <3>2, <3>3
  <2> QED BY <2>3 DEF Sized
<1>12. HoldsOnce(new, DOMAIN new, left)
  <2>1. /\ {old[n].data : n \in DOMAIN new} = left
        /\ \A n, m \in DOMAIN new : old[n].data = old[m].data => n = m
    BY <1>6, <1>8 DEF HoldsOnce
  <2>2. {new[n].data : n \in DOMAIN new} = {old[n].data : n \in DOMAIN new}
    BY <1>8
  <2> QED BY <1>8, <2>1, <2>2 DEF HoldsOnce
<1> QED BY <1>9, <1>10, <1>11, <1>12 DEF new

\* The way to a node leaves each node above it on one side.
LEMMA OneWay ==
  ASSUME NEW n \in Place, NEW m \in Place
  PROVE  /\ (Left(m) \in Above(n) \cup {n} \/ Right(m) \in Above(n) \cup {n}) <=> m \in Above(n)
         /\ ~(Left(m) \in Above(n) \cup {n} /\ Right(m) \in Above(n) \cup {n})
<1>1. Len(n) \in Nat /\ Len(m) \in Nat
  BY DEF Place
<1>2. Above(n) \cup {n} = {SubSeq(n, 1, k) : k \in 0..Len(n)}
  <2>1. SubSeq(n, 1, Len(n)) = n
    BY DEF Place
  <2>2. \A k : k \in 0..Len(n) <=> k \in 0..(Len(n) - 1) \/ k = Len(n)
    BY <1>1
  <2> QED BY <2>1, <2>2 DEF Above
<1>3. ASSUME NEW c \in {Left(m), Right(m)}, c \in Above(n) \cup {n}
      PROVE  m \in Above(n) /\ c = SubSeq(n, 1, Len(m) + 1)
  <2>1. PICK k \in 0..Len(n) : c = SubSeq(n, 1, k)
    BY <1>2, <1>3
  <2>2. Len(c) = Len(m) + 1
    BY <1>3, Sides
  <2>3. Len(c) = k
    BY <2>1 DEF Place
  <2>4. m \in Above(c)
    BY <1>3, Higher
  <2>5. Above(c) = {SubSeq(c, 1, j) : j \in 0..(k - 1)}
    BY <2>3 DEF Above
  <2>6. PICK j \in 0..(k - 1) : m = SubSeq(c, 1, j)
    BY <2>4, <2>5
  <2>7. m = SubSeq(n, 1, j)
    BY <2>1, <2>6 DEF Place
  <2>8. j \in 0..(Len(n) - 1)
    BY <1>1, <2>1, <2>6
  <2> QED BY <2>1, <2>2, <2>3, <2>7, <2>8 DEF Above
<1>4. ASSUME m \in Above(n) PROVE \E c \in {Left(m), Right(m)} : c \in Above(n) \cup {n}
  <2>1. PICK k \in 0..(Len(n) - 1) : m = SubSeq(n, 1, k)
    BY <1>4 DEF Above
  <2>2. k + 1 \in 0..Len(n) /\ k + 1 \in 1..Len(n)
    BY <1>1
  <2>3. n[k + 1] \in {"mLeft", "mRight"} /\ SubSeq(n, 1, k + 1) = Append(m, n[k + 1])
    BY <2>1, <2>2 DEF Place
  <2>4. SubSeq(n, 1, k + 1) \in Above(n) \cup {n}
    BY <1>2, <2>2
  <2> QED BY <2>3, <2>4 DEF Left, Right
<1>5. Left(m) # Right(m)
  BY Sides
<1> QED BY <1>3, <1>4, <1>5

\* With no data in two nodes and none outranked from below, remove meets what is there.
LEMMA MetIs ==
  ASSUME NEW t, Shape(t), Ordered(t), NEW x
  PROVE  Met(t, x) = {n \in DOMAIN t : t[n].data = x}
BY NoneAbove DEF Met

LEMMA TakeKeeps ==
  ASSUME NEW t, Shape(t), Ordered(t), Sized(t, Top, 0), NEW items, HoldsOnce(t, DOMAIN t, items), NEW x
  PROVE  LET u == Removed(t, x) IN
         /\ Shape(u) /\ Ordered(u) /\ Sized(u, Top, 0) /\ HoldsOnce(u, DOMAIN u, items \ {x})
<1>1. Met(t, x) = {n \in DOMAIN t : t[n].data = x}
  BY MetIs
<1>2. CASE Met(t, x) = {}
  <2>1. Removed(t, x) = t
    BY <1>2 DEF Removed
  <2>2. x \notin items
    BY <1>1, <1>2 DEF HoldsOnce
  <2>3. items \ {x} = items
    BY <2>2
  <2> QED BY <2>1, <2>3
<1>3. CASE Met(t, x) # {}
  <2> DEFINE at == CHOOSE m \in Met(t, x) : TRUE
             less == [m \in DOMAIN t |-> IF m \in Above(at) THEN [t[m] EXCEPT !.mSize = @ - 1] ELSE t[m]]
  <2>1. at \in DOMAIN t /\ t[at].data = x
    BY <1>1, <1>3
  <2>2. Removed(t, x) = Popped(less, at)
    BY <1>3 DEF Removed
  <2> HIDE DEF at
  <2>3. /\ \A n \in DOMAIN t : n \in Place /\ t[n] \in [data : Item, mSize : Int]
        /\ at \in Place /\ IsFiniteSet(DOMAIN t) /\ Above(at) \subseteq DOMAIN t
    BY <2>1 DEF Shape
  <2>4. /\ \A n \in DOMAIN t : less[n].data = t[n].data
        /\ \A n \in DOMAIN t : less[n].mSize = t[n].mSize - (IF n \in Above(at) THEN 1 ELSE 0)
        /\ \A n \in DOMAIN t : less[n] \in [data : Item, mSize : Int]
        /\ DOMAIN less = DOMAIN t /\ less = [n \in DOMAIN t |-> less[n]]
    BY <2>3
  <2> HIDE DEF less
  <2>5. Shape(less)
    BY <2>4 DEF Shape
  <2>6. Ordered(less)
    BY <2>4 DEF Ordered, Kids
  <2>7. Sized(less, at, -1)
    <3>1. ASSUME NEW n \in DOMAIN t
          PROVE  less[n].mSize = 1 + Counts(less, Left(n), at, -1) + Counts(less, Right(n), at, -1)
      <4>1. t[n].mSize = 1 + Counts(t, Left(n), Top, 0) + Counts(t, Right(n), Top, 0)
        BY DEF Sized
      <4>2. \A c : /\ Counts(t, c, Top, 0) = SizeOf(t, c) /\ SizeOf(t, c) \in Int
                   /\ SizeOf(less, c) = SizeOf(t, c) - (IF c \in Above(at) THEN 1 ELSE 0)
        BY <2>3, <2>4 DEF SizeOf, Counts
      <4>3. at \notin Above(at)
        <5>1. \A a \in Above(at) : Len(a) < Len(at)
          BY <2>3, Higher
        <5>2. Len(at) \in Nat
          BY <2>3 DEF Place
        <5> QED BY <5>1, <5>2
      <4>4. \A c : Counts(less, c, at, -1) = SizeOf(t, c) - (IF c \in Above(at) \cup {at} THEN 1 ELSE 0)
        BY <4>2, <4>3 DEF Counts
      <4>5. /\ (Left(n) \in Above(at) \cup {at} \/ Right(n) \in Above(at) \cup {at}) <=> n \in Above(at)
            /\ ~(Left(n) \in Above(at) \cup {at} /\ Right(n) \in Above(at) \cup {at})
        BY <2>3, OneWay
      <4>6. less[n].mSize = t[n].mSize - (IF n \in Above(at) THEN 1 ELSE 0)
        BY <2>4
      <4>7. t[n].mSize = 1 + SizeOf(t, Left(n)) + SizeOf(t, Right(n))
        BY <4>1, <4>2
      <4>8. SizeOf(t, Left(n)) \in Int /\ SizeOf(t, Right(n)) \in Int
        BY <4>2
      <4>9. /\ Counts(less, Left(n), at, -1) = SizeOf(t, Left(n)) - (IF Left(n) \in Above(at) \cup {at} THEN 1 ELSE 0)
            /\ Counts(less, Right(n), at, -1) = SizeOf(t, Right(n)) - (IF Right(n) \in Above(at) \cup {at} THEN 1 ELSE 0)
        BY <4>4
      <4> QED BY <4>5, <4>6, <4>7, <4>8, <4>9
    <3> QED BY <2>4, <3>1 DEF Sized
  <2>8. HoldsOnce(less, DOMAIN less \ {at}, items \ {x})
    <3>1. /\ {t[n].data : n \in DOMAIN t} = items
          /\ \A n, m \in DOMAIN t : t[n].data = t[m].data => n = m
      BY DEF HoldsOnce
    <3>2. {t[n].data : n \in DOMAIN t \ {at}} = items \ {x}
      BY <2>1, <3>1
    <3>3. {less[n].data : n \in DOMAIN t \ {at}} = {t[n].data : n \in DOMAIN t \ {at}}
      BY <2>4
    <3> QED BY <2>4, <3>1, <3>2, <3>3 DEF HoldsOnce
  <2>9. /\ Shape(Popped(less, at)) /\ Ordered(Popped(less, at)) /\ Sized(Popped(less, at), Top, 0)
        /\ HoldsOnce(Popped(less, at), DOMAIN Popped(less, at), items \ {x})
    <3>1. at \in DOMAIN less
      BY <2>1, <2>4
    <3> QED BY <2>5, <2>6, <2>7, <2>8, <3>1, PopKeeps
  <2> QED BY <2>2, <2>9 DEF less
<1> QED BY <1>2, <1>3

\* What is at the top is most urgent.
LEMMA TopIs ==
  ASSUME NEW t, Shape(t), Ordered(t), NEW items, HoldsOnce(t, DOMAIN t, items), t # <<>>
  PROVE  Top \in DOMAIN t /\ t[Top].data \in Item /\ t[Top].data \in MostUrgent(items)
<1>1. DOMAIN t # {}
  <2>1. t = [n \in DOMAIN t |-> t[n]]
    BY DEF Shape
  <2>2. DOMAIN t = {} => t = <<>>
    BY <2>1
  <2> QED BY <2>2
<1>2. \A n \in Place : n # Top => Top \in Above(n)
  <2>1. ASSUME NEW n \in Place, n # Top PROVE Top \in Above(n)
    <3>1. Len(n) \in Nat /\ Len(n) # 0
      BY <2>1 DEF Place, Top
    <3>2. 0 \in 0..(Len(n) - 1) /\ SubSeq(n, 1, 0) = Top
      BY <3>1 DEF Top, Place
    <3> QED BY <3>2 DEF Above
  <2> QED BY <2>1
<1>3. Top \in DOMAIN t
  BY <1>1, <1>2 DEF Shape
<1>4. t[Top].data \in Item
  BY <1>3 DEF Shape
<1>5. \A n \in DOMAIN t : ~outRanks(t[n].data, t[Top].data)
  <2>1. ~outRanks(t[Top].data, t[Top].data)
    BY <1>4, Ranked
  <2>2. \A n \in DOMAIN t : n # Top => Top \in Above(n)
    BY <1>2 DEF Shape
  <2> QED BY <2>1, <2>2, NoneAbove
<1>6. t[Top].data \in items /\ \A y \in items : \E n \in DOMAIN t : y = t[n].data
  BY <1>3 DEF HoldsOnce
<1> QED BY <1>3, <1>4, <1>5, <1>6 DEF MostUrgent

LEMMA HeapMeans == HeapInv => HeapKept /\ HeapTypeOK
<1> SUFFICES ASSUME HeapInv PROVE HeapKept /\ HeapTypeOK
  OBVIOUS
<1>1. \A n \in DOMAIN mTree : \A k \in Kids(mTree, n) : ~outRanks(mTree[k].data, mTree[n].data)
  BY DEF HeapInv, Ordered
<1>2. \A n \in DOMAIN mTree :
        mTree[n].mSize = 1 + SizeOf(mTree, Left(n)) + SizeOf(mTree, Right(n))
  <2>1. \A c : SizeOf(mTree, c) \in Int
    BY DEF HeapInv, Shape, SizeOf
  <2>2. \A c : Counts(mTree, c, Top, 0) = SizeOf(mTree, c)
    BY <2>1 DEF Counts
  <2> QED BY <2>2 DEF HeapInv, Sized
<1>3. {mTree[n].data : n \in DOMAIN mTree} = pushed
  BY DEF HeapInv, HoldsOnce
<1>4. Cardinality(DOMAIN mTree) = Cardinality(pushed)
  <2> DEFINE f == [n \in DOMAIN mTree |-> mTree[n].data]
  <2>1. f \in [DOMAIN mTree -> pushed]
    BY <1>3
  <2>2. \A n, m \in DOMAIN mTree : f[n] = f[m] => n = m
    BY DEF HeapInv, HoldsOnce
  <2>3. \A y \in pushed : \E n \in DOMAIN mTree : f[n] = y
    BY <1>3
  <2>4. f \in Bijection(DOMAIN mTree, pushed)
    BY <2>1, <2>2, <2>3 DEF Bijection, Injection, Surjection, IsInjective
  <2>5. ExistsBijection(DOMAIN mTree, pushed) /\ IsFiniteSet(DOMAIN mTree)
    BY <2>4 DEF ExistsBijection, HeapInv, Shape
  <2> QED BY <2>5, FS_Bijection
<1>5. HeapTypeOK
  BY DEF HeapTypeOK, HeapInv, Shape, Place
<1> QED BY <1>1, <1>2, <1>3, <1>4, <1>5 DEF HeapInv, HeapKept

LEMMA HeapBegins == HeapInit => HeapInv
<1> SUFFICES ASSUME HeapInit PROVE HeapInv
  OBVIOUS
<1>1. mTree = <<>> /\ DOMAIN mTree = {} /\ mTree = [n \in DOMAIN mTree |-> mTree[n]]
  BY DEF HeapInit
<1>2. IsFiniteSet(DOMAIN mTree)
  BY <1>1, FS_EmptySet
<1> QED BY <1>1, <1>2 DEF HeapInit, HeapInv, Shape, Ordered, Sized, HoldsOnce

LEMMA HeapStep == HeapInv /\ [HeapNext]_heapVars => HeapInv'
<1> SUFFICES ASSUME HeapInv, [HeapNext]_heapVars PROVE HeapInv'
  OBVIOUS
<1>1. /\ Shape(mTree) /\ Ordered(mTree) /\ Sized(mTree, Top, 0)
      /\ HoldsOnce(mTree, DOMAIN mTree, pushed) /\ pushed \subseteq Item
  BY DEF HeapInv
<1>2. ASSUME NEW x \in Item \ pushed, push(x) PROVE HeapInv'
  <2>1. /\ mTree' = Pushed(mTree, x) /\ pushed' = pushed \cup {x} /\ popped' = [got |-> {}, due |-> {}]
    BY <1>2 DEF push
  <2>2. /\ Shape(mTree') /\ Ordered(mTree') /\ Sized(mTree', Top, 0)
        /\ HoldsOnce(mTree', DOMAIN mTree', pushed')
    BY <1>1, <2>1, PushKeeps
  <2>3. pushed' \subseteq Item /\ popped'.got = {} /\ popped'.due = {}
    BY <1>1, <2>1
  <2> QED BY <2>2, <2>3 DEF HeapInv
<1>3. CASE pop
  <2>1. /\ mTree # <<>> /\ mTree' = Popped(mTree, Top) /\ pushed' = pushed \ {mTree[Top].data}
        /\ popped' = [got |-> {mTree[Top].data}, due |-> MostUrgent(pushed)]
    BY <1>3 DEF pop
  <2>2. Top \in DOMAIN mTree /\ mTree[Top].data \in Item /\ mTree[Top].data \in MostUrgent(pushed)
    BY <1>1, <2>1, TopIs
  <2>3. Sized(mTree, Top, -1)
    <3>1. \A n \in DOMAIN mTree : Left(n) # Top /\ Right(n) # Top
      BY <1>1, Sides DEF Shape
    <3>2. \A n \in DOMAIN mTree : /\ Counts(mTree, Left(n), Top, -1) = Counts(mTree, Left(n), Top, 0)
                                  /\ Counts(mTree, Right(n), Top, -1) = Counts(mTree, Right(n), Top, 0)
      BY <3>1 DEF Counts
    <3> QED BY <1>1, <3>2 DEF Sized
  <2>4. HoldsOnce(mTree, DOMAIN mTree \ {Top}, pushed')
    <3>1. /\ {mTree[n].data : n \in DOMAIN mTree} = pushed
          /\ \A n, m \in DOMAIN mTree : mTree[n].data = mTree[m].data => n = m
      BY <1>1 DEF HoldsOnce
    <3>2. {mTree[n].data : n \in DOMAIN mTree \ {Top}} = pushed \ {mTree[Top].data}
      BY <2>2, <3>1
    <3> QED BY <2>1, <3>1, <3>2 DEF HoldsOnce
  <2>5. /\ Shape(mTree') /\ Ordered(mTree') /\ Sized(mTree', Top, 0)
        /\ HoldsOnce(mTree', DOMAIN mTree', pushed')
    BY <1>1, <2>1, <2>2, <2>3, <2>4, PopKeeps
  <2>6. MostUrgent(pushed) \subseteq Item
    BY <1>1 DEF MostUrgent
  <2> QED BY <1>1, <2>1, <2>2, <2>5, <2>6 DEF HeapInv
<1>4. ASSUME NEW x \in Item, remove(x) PROVE HeapInv'
  <2>1. /\ mTree' = Removed(mTree, x) /\ pushed' = pushed \ {x}
        /\ popped' = [got |-> {mTree[n].data : n \in Met(mTree, x)}, due |-> {x} \cap pushed]
    BY <1>4 DEF remove
  <2>2. /\ Shape(mTree') /\ Ordered(mTree') /\ Sized(mTree', Top, 0)
        /\ HoldsOnce(mTree', DOMAIN mTree', pushed')
    BY <1>1, <2>1, TakeKeeps
  <2>3. Met(mTree, x) = {n \in DOMAIN mTree : mTree[n].data = x}
    BY <1>1, MetIs
  <2>4. {mTree[n].data : n \in Met(mTree, x)} = {x} \cap pushed
    BY <1>1, <2>3 DEF HoldsOnce
  <2> QED BY <1>1, <2>1, <2>2, <2>4 DEF HeapInv
<1>5. CASE UNCHANGED heapVars
  BY <1>5 DEF heapVars, HeapInv
<1> QED BY <1>2, <1>3, <1>4, <1>5 DEF HeapNext

(* The containers under the queues and the timers, for any memory, any     *)
(* objects and any ranks: the list holds along next and along prev what    *)
(* was put in and not taken out, leaks nothing, gives each call the object *)
(* it should and frees none twice; the heap is ordered and counted and     *)
(* pop and remove return what they should.                                 *)
THEOREM StructuresSafe == StructuresSpec => [](ListTypeOK /\ HeapTypeOK /\ StructuresKept)
<1>1. StructuresInit => ListInv /\ HeapInv
  BY ListBegins, HeapBegins DEF StructuresInit
<1>2. ListInv /\ HeapInv /\ [StructuresNext]_<<listVars, heapVars>> => (ListInv /\ HeapInv)'
  <2>1. ASSUME ListInv, HeapInv, [StructuresNext]_<<listVars, heapVars>>
        PROVE  [ListNext]_listVars /\ [HeapNext]_heapVars
    BY <2>1 DEF StructuresNext
  <2> QED BY <2>1, ListStep, HeapStep
<1>3. ListInv /\ HeapInv => ListTypeOK /\ HeapTypeOK /\ StructuresKept
  BY ChainMeans, HeapMeans DEF StructuresKept
<1> QED BY <1>1, <1>2, <1>3, PTL DEF StructuresSpec

-----------------------------------------------------------------------------
(* NMEA.                                                                    *)

\* The first n of a set are n of them, or all, and they come first.
LEMMA FirstOnes ==
  ASSUME NEW b \in Nat, NEW S \in SUBSET (1..b), NEW n \in Nat
  PROVE  /\ FirstOf(S, n) \subseteq S /\ IsFiniteSet(S) /\ IsFiniteSet(FirstOf(S, n))
         /\ \A i \in FirstOf(S, n) : \A j \in S \ FirstOf(S, n) : i < j
         /\ Cardinality(FirstOf(S, n)) = IF Cardinality(S) <= n THEN Cardinality(S) ELSE n
<1> DEFINE F == FirstOf(S, n)
           r(i) == {j \in S : j < i}
<1>1. IsFiniteSet(S) /\ \A T \in SUBSET S : IsFiniteSet(T) /\ Cardinality(T) \in Nat /\ Cardinality(T) <= Cardinality(S)
  <2>1. IsFiniteSet(1..b)
    BY FS_Interval
  <2>2. IsFiniteSet(S)
    BY <2>1, FS_Subset
  <2> QED BY <2>2, FS_Subset, FS_CardinalityType
<1> \A i \in S : i \in Nat /\ i <= b
  OBVIOUS
<1>2. F \subseteq S /\ \A i \in S : i \in F <=> Cardinality(r(i)) < n
  BY DEF FirstOf
<1> HIDE DEF F
<1>3. ASSUME NEW i \in F, NEW j \in S \ F PROVE i < j
  <2> SUFFICES ASSUME ~(i < j) PROVE FALSE
    OBVIOUS
  <2>1. r(j) \subseteq r(i) /\ r(i) \subseteq S /\ r(j) \subseteq S
    <3>1. i \in Nat /\ j \in Nat /\ j <= i
      BY <1>2
    <3>2. \A k \in Nat : k < j => k < i
      BY <3>1
    <3> QED BY <3>2
  <2>2. IsFiniteSet(r(i)) /\ Cardinality(r(i)) \in Nat /\ Cardinality(r(j)) \in Nat
    BY <1>1, <2>1
  <2>3. Cardinality(r(j)) <= Cardinality(r(i))
    BY <2>1, <2>2, FS_Subset
  <2>4. Cardinality(r(i)) < n /\ ~(Cardinality(r(j)) < n)
    BY <1>2
  <2> HIDE DEF r
  <2> QED BY <2>2, <2>3, <2>4
<1>4. IsFiniteSet(F) /\ Cardinality(F) \in Nat /\ Cardinality(S) \in Nat /\ Cardinality(F) <= Cardinality(S)
  BY <1>1, <1>2
<1>5. Cardinality(F) <= n
  <2>1. CASE F = {}
    BY <2>1, FS_EmptySet
  <2>2. CASE F # {}
    <3>1. PICK m \in F : \A i \in F : i <= m
      <4>1. F \subseteq Nat /\ \A i \in F : i <= b
        BY <1>2
      <4> QED BY <2>2, <4>1, GreatestOne
    <3>2. F \ {m} \subseteq r(m) /\ r(m) \subseteq S
      BY <1>2, <3>1
    <3>3. Cardinality(F \ {m}) = Cardinality(F) - 1
      BY <1>4, <3>1, FS_RemoveElement
    <3>4. IsFiniteSet(r(m)) /\ Cardinality(r(m)) \in Nat
      BY <1>1, <3>2
    <3>5. Cardinality(F \ {m}) <= Cardinality(r(m))
      BY <3>2, <3>4, FS_Subset
    <3>6. Cardinality(r(m)) < n
      BY <1>2, <3>1
    <3> HIDE DEF r
    <3> QED BY <1>4, <3>3, <3>4, <3>5, <3>6
  <2> QED BY <2>1, <2>2
<1>6. F = S \/ ~(Cardinality(F) < n)
  <2> SUFFICES ASSUME F # S, Cardinality(F) < n PROVE FALSE
    OBVIOUS
  <2>1. S \ F # {} /\ S \ F \subseteq Nat
    BY <1>2
  <2>2. PICK m \in S \ F : \A j \in S \ F : ~(j < m)
    BY <2>1, LeastOne
  <2>3. r(m) = F
    BY <1>2, <1>3, <2>2
  <2> QED BY <1>2, <2>2, <2>3
<1>7. F = S => Cardinality(F) = Cardinality(S)
  OBVIOUS
<1> QED BY <1>1, <1>2, <1>3, <1>4, <1>5, <1>6, <1>7 DEF F

\* A sentence takes the next four of the satellites, or the rest, and the one
\* after it begins where it ends.
Rest(sats, system, k) == {i \in Of(sats, system) : i >= k}

LEMMA PageTakes ==
  ASSUME NEW sats \in Seq({"GPS", "GLONASS", "other"}), NEW system, NEW k \in Nat
  PROVE  /\ Page(sats, system, k) \subseteq Rest(sats, system, k)
         /\ PageEnd(sats, system, k) \in Nat
         /\ Rest(sats, system, PageEnd(sats, system, k)) = Rest(sats, system, k) \ Page(sats, system, k)
         /\ \A i \in Page(sats, system, k) : i < PageEnd(sats, system, k)
         /\ IsFiniteSet(Rest(sats, system, k)) /\ IsFiniteSet(Page(sats, system, k))
         /\ Cardinality(Page(sats, system, k)) =
              IF Cardinality(Rest(sats, system, k)) <= 4 THEN Cardinality(Rest(sats, system, k)) ELSE 4
<1> DEFINE mine == Of(sats, system)
           S == Rest(sats, system, k)
           F == Page(sats, system, k)
           e == PageEnd(sats, system, k)
           b == Len(sats)
<1>1. b \in Nat /\ \A i \in mine : i \in Nat /\ i <= b
  BY DEF Of
<1>2. S \in SUBSET (1..b) /\ S = {i \in mine : i >= k}
  BY DEF Of, Rest
<1>3. F = FirstOf(S, 4)
  BY DEF Page, Rest
<1> HIDE DEF F
<1>4. /\ F \subseteq S /\ IsFiniteSet(S) /\ IsFiniteSet(F)
      /\ \A i \in F : \A j \in S \ F : i < j
      /\ Cardinality(F) = IF Cardinality(S) <= 4 THEN Cardinality(S) ELSE 4
  <2> HIDE DEF S
  <2>1. S \in SUBSET (1..b) /\ 4 \in Nat
    BY <1>2
  <2>2. F = FirstOf(S, 4)
    BY <1>3
  <2> HIDE DEF b
  <2>3. /\ FirstOf(S, 4) \subseteq S /\ IsFiniteSet(S) /\ IsFiniteSet(FirstOf(S, 4))
        /\ \A i \in FirstOf(S, 4) : \A j \in S \ FirstOf(S, 4) : i < j
        /\ Cardinality(FirstOf(S, 4)) = IF Cardinality(S) <= 4 THEN Cardinality(S) ELSE 4
    BY <1>1, <2>1, FirstOnes
  <2> QED BY <2>2, <2>3
<1>5. Cardinality(S) \in Nat
  BY <1>4, FS_CardinalityType
<1> HIDE DEF S
<1>6. e \in Nat /\ \A i \in mine : i >= e <=> i \in S \ F
  <2>1. CASE Cardinality(F) < 4
    <3>1. e = b + 1
      BY <2>1 DEF PageEnd, F
    <3>2. Cardinality(F) = Cardinality(S)
      BY <1>4, <1>5, <2>1
    <3>3. F = S
      BY <1>4, <3>2, FS_Subset
    <3> QED BY <1>1, <3>1, <3>3
  <2>2. CASE ~(Cardinality(F) < 4)
    <3>1. F # {}
      BY <1>4, <2>2, FS_EmptySet
    <3>2. F \subseteq Nat /\ \A i \in F : i \in mine /\ i <= b
      BY <1>1, <1>2, <1>4
    <3>3. PICK m \in F : \A j \in F : j <= m
      BY <1>1, <3>1, <3>2, GreatestOne
    <3> DEFINE top == CHOOSE i \in F : \A j \in F : j <= i
    <3>4. e = 1 + top
      BY <2>2 DEF PageEnd, F
    <3>5. top \in F /\ \A j \in F : j <= top
      BY <3>3
    <3> HIDE DEF top
    <3>6. top \in Nat /\ top >= k
      BY <1>2, <1>4, <3>2, <3>5
    <3>7. ASSUME NEW i \in mine, i >= e PROVE i \in S \ F
      <4>1. i \in Nat /\ i > top
        BY <1>1, <3>4, <3>6, <3>7
      <4>2. i \in S
        BY <1>2, <3>6, <4>1
      <4>3. i \notin F
        BY <3>5, <3>6, <4>1
      <4> QED BY <4>2, <4>3
    <3>8. ASSUME NEW i \in mine, i \in S \ F PROVE i >= e
      <4>1. top < i
        BY <1>4, <3>5, <3>8
      <4> QED BY <1>1, <3>4, <3>6, <4>1
    <3> QED BY <3>4, <3>6, <3>7, <3>8
  <2> QED BY <2>1, <2>2
<1>7. Rest(sats, system, e) = S \ F
  <2>1. S \subseteq mine
    BY <1>2
  <2> QED BY <1>6, <2>1 DEF Rest
<1>8. \A i \in F : i < e
  <2>1. \A i \in F : i \in mine /\ i \in Nat /\ ~(i >= e)
    BY <1>1, <1>2, <1>4, <1>6
  <2> QED BY <1>6, <2>1
<1> QED BY <1>4, <1>6, <1>7, <1>8 DEF F, S

\* Where the sentences of a system begin.
Starts(sats, system, total, g) ==
  /\ g \in [1..total -> Nat] /\ g[1] = 1
  /\ \A n \in 1..total : n # 1 => g[n] = PageEnd(sats, system, g[n - 1])

\* The sentences of a system: as many as its satellites fill, each beginning where
\* the one before it ended.
Sentence(sats, system, total, n, k) ==
  [kind |-> system, total |-> total, number |-> n, count |-> Cardinality(Of(sats, system)),
   svs |-> Page(sats, system, k)]

LEMMA CountUp ==
  ASSUME NEW c \in Nat
  PROVE  /\ sentenceCount(c) \in Nat /\ c <= 4 * sentenceCount(c) /\ 4 * sentenceCount(c) < c + 4
BY DEF sentenceCount

LEMMA SvNumbers ==
  ASSUME NEW sats \in Seq({"GPS", "GLONASS", "other"}), NEW system, NEW c \in Nat \ {0}, c = Cardinality(Of(sats, system))
  PROVE  \E g : /\ Starts(sats, system, sentenceCount(c), g)
                /\ Gsv(sats, system) = [n \in 1..sentenceCount(c) |->
                                           Sentence(sats, system, sentenceCount(c), n, g[n])]
<1> DEFINE total == sentenceCount(c)
           step == [n \in 1..(total - 1) |-> [k \in Nat |-> PageEnd(sats, system, k)]]
           Is(f) == f = [n \in 1..total |-> IF n = 1 THEN 1 ELSE PageEnd(sats, system, f[n - 1])]
<1>1. total \in Nat /\ total - 1 \in Nat
  <2>1. total \in Nat /\ c <= 4 * total /\ c \in Nat /\ c # 0
    BY CountUp
  <2> HIDE DEF total
  <2> QED BY <2>1
<1> HIDE DEF total
<1>2. \A n \in 1..(total - 1) : \A k \in Nat : step[n][k] \in Nat
  BY PageTakes
<1>3. PICK g \in [0..(total - 1) -> Nat] : g[0] = 1 /\ \A n \in 1..(total - 1) : g[n] = step[n][g[n - 1]]
  <2>1. 1 \in Nat
    OBVIOUS
  <2> DEFINE N == total - 1
  <2>2. N \in Nat /\ \A n \in 1..N : \A k \in Nat : step[n][k] \in Nat
    BY <1>1, <1>2
  <2> HIDE DEF step, N
  <2>3. Iteration(Nat, 1, N, step) # {}
    BY <2>1, <2>2, Iterates
  <2> QED BY <2>3 DEF N, Iteration
<1> DEFINE h == [n \in 1..total |-> g[n - 1]]
<1>4. h \in [1..total -> Nat] /\ h[1] = 1
  BY <1>1, <1>3
<1>5. ASSUME NEW n \in 1..total, n # 1 PROVE h[n] = PageEnd(sats, system, h[n - 1])
  <2>1. n - 1 \in 1..(total - 1) /\ n - 1 \in 1..total /\ n - 2 \in 0..(total - 1) /\ (n - 1) - 1 = n - 2
    BY <1>1, <1>5
  <2>2. h[n] = g[n - 1] /\ h[n - 1] = g[n - 2]
    BY <2>1
  <2>3. g[n - 1] = step[n - 1][g[n - 2]] /\ g[n - 2] \in Nat
    BY <1>3, <2>1
  <2> QED BY <2>1, <2>2, <2>3
<1> DEFINE svNumber == CHOOSE f : Is(f)
<1>6. Is(h)
  <2>1. h = [n \in 1..total |-> h[n]]
    OBVIOUS
  <2> HIDE DEF h
  <2> QED BY <1>4, <1>5, <2>1
<1>7. Is(svNumber)
  <2> HIDE DEF h
  <2> QED BY <1>6
<1>8. Gsv(sats, system) = [n \in 1..total |-> Sentence(sats, system, total, n, svNumber[n])]
  BY DEF Gsv, Sentence, total
<1> HIDE DEF svNumber
<1>9. svNumber = h
  <2> DEFINE T == {n \in Nat : n \in 1..total => svNumber[n] = h[n]}
  <2>1. 0 \in T
    OBVIOUS
  <2>2. ASSUME NEW n \in Nat, n \in T PROVE n + 1 \in T
    <3> SUFFICES ASSUME n + 1 \in 1..total PROVE svNumber[n + 1] = h[n + 1]
      OBVIOUS
    <3>1. svNumber[n + 1] = IF n + 1 = 1 THEN 1 ELSE PageEnd(sats, system, svNumber[(n + 1) - 1])
      BY <1>7
    <3>2. CASE n = 0
      BY <1>4, <3>1, <3>2
    <3>3. CASE n # 0
      <4>1. n \in 1..total /\ (n + 1) - 1 = n /\ n + 1 # 1
        BY <1>1, <3>3
      <4> HIDE DEF h
      <4> QED BY <1>5, <2>2, <3>1, <4>1
    <3> QED BY <3>2, <3>3
  <2> HIDE DEF T
  <2>3. \A n \in 1..total : n \in T
    BY <2>1, <2>2, Counting
  <2>4. \A n \in 1..total : svNumber[n] = h[n]
    BY <2>3 DEF T
  <2>5. DOMAIN svNumber = 1..total /\ svNumber = [n \in 1..total |-> svNumber[n]]
    BY <1>7
  <2>6. h = [n \in 1..total |-> h[n]]
    OBVIOUS
  <2> HIDE DEF h
  <2> QED BY <2>4, <2>5, <2>6
<1> HIDE DEF h
<1> QED BY <1>4, <1>5, <1>8, <1>9 DEF total, Starts

\* The sentences from the first to the one before n have taken four satellites each.
Paged(sats, system, total, g) ==
  \A n \in 1..total :
    /\ IsFiniteSet(Rest(sats, system, g[n]))
    /\ Cardinality(Rest(sats, system, g[n])) = Cardinality(Of(sats, system)) - 4 * (n - 1)
    /\ \A i \in Of(sats, system) :
         i \in Rest(sats, system, g[n]) <=> \A m \in 1..(n - 1) : i \notin Page(sats, system, g[m])
    /\ \A m \in 1..(n - 1) : \A i \in Page(sats, system, g[m]) : i < g[n]

LEMMA FourEach ==
  ASSUME NEW sats \in Seq({"GPS", "GLONASS", "other"}), NEW system, NEW total \in Nat, NEW g,
         Starts(sats, system, total, g), 4 * total < Cardinality(Of(sats, system)) + 4
  PROVE  Paged(sats, system, total, g)
<1> DEFINE mine == Of(sats, system)
           c == Cardinality(mine)
           R(n) == Rest(sats, system, g[n])
           P(n) == Page(sats, system, g[n])
           J(n) == /\ IsFiniteSet(R(n)) /\ Cardinality(R(n)) = c - 4 * (n - 1)
                   /\ \A i \in mine : i \in R(n) <=> \A m \in 1..(n - 1) : i \notin P(m)
                   /\ \A m \in 1..(n - 1) : \A i \in P(m) : i < g[n]
           T == {k \in Nat : k + 1 \in 1..total => J(k + 1)}
<1> g \in [1..total -> Nat] /\ g[1] = 1 /\ \A n \in 1..total : n # 1 => g[n] = PageEnd(sats, system, g[n - 1])
  BY DEF Starts
<1>1. /\ \A i \in mine : i \in Nat /\ i >= 1
      /\ \A n \in 1..total : R(n) \subseteq mine
  BY DEF Of, Rest
<1>2. IsFiniteSet(mine) /\ c \in Nat
  <2>1. Len(sats) \in Nat /\ mine \in SUBSET (1..Len(sats))
    BY DEF Of
  <2>2. IsFiniteSet(mine)
    <3>1. IsFiniteSet(1..Len(sats))
      BY <2>1, FS_Interval
    <3> QED BY <2>1, <3>1, FS_Subset
  <2> QED BY <2>2, FS_CardinalityType
<1>3. \A n \in 1..total :
        /\ P(n) \subseteq R(n) /\ IsFiniteSet(P(n))
        /\ n + 1 \in 1..total => R(n + 1) = R(n) \ P(n) /\ \A i \in P(n) : i < g[n + 1]
        /\ \A i \in P(n) : i \in mine /\ i >= g[n]
        /\ Cardinality(P(n)) = IF Cardinality(R(n)) <= 4 THEN Cardinality(R(n)) ELSE 4
  <2> SUFFICES ASSUME NEW n \in 1..total
               PROVE  /\ P(n) \subseteq R(n) /\ IsFiniteSet(P(n))
                      /\ n + 1 \in 1..total => R(n + 1) = R(n) \ P(n) /\ \A i \in P(n) : i < g[n + 1]
                      /\ \A i \in P(n) : i \in mine /\ i >= g[n]
                      /\ Cardinality(P(n)) = IF Cardinality(R(n)) <= 4 THEN Cardinality(R(n)) ELSE 4
    OBVIOUS
  <2>1. g[n] \in Nat /\ (n + 1 \in 1..total => g[n + 1] = PageEnd(sats, system, g[n]))
    BY 1 + 1 = 2
  <2>2. \A i \in R(n) : i \in mine /\ i >= g[n]
    BY DEF Rest
  <2> QED BY <2>1, <2>2, PageTakes
<1> HIDE DEF mine, R, P
<1>4. 0 \in T
  <2> SUFFICES ASSUME 1 \in 1..total PROVE J(1)
    OBVIOUS
  <2>1. R(1) = mine
    BY <1>1 DEF R, Rest, mine
  <2> QED BY <1>2, <2>1
<1>5. ASSUME NEW k \in Nat, k \in T PROVE k + 1 \in T
  <2> PICK n \in Nat : n = k + 1
    OBVIOUS
  <2> SUFFICES ASSUME n + 1 \in 1..total PROVE J(n + 1)
    OBVIOUS
  <2>1. n \in 1..total /\ n \in Nat /\ 4 * n < c /\ (n + 1) - 1 = n
    BY <1>2 DEF mine
  <2>2. J(n)
    BY <1>5, <2>1
  <2>3. Cardinality(P(n)) = 4
    BY <1>2, <1>3, <2>1, <2>2
  <2>4. R(n + 1) = R(n) \ P(n) /\ P(n) \subseteq R(n) /\ IsFiniteSet(P(n)) /\ \A i \in P(n) : i < g[n + 1] /\ i >= g[n]
    BY <1>3, <2>1
  <2>5. IsFiniteSet(R(n + 1)) /\ Cardinality(R(n + 1)) = c - 4 * n
    <3>1. IsFiniteSet(R(n) \ P(n)) /\ Cardinality(R(n) \ P(n)) = Cardinality(R(n)) - Cardinality(R(n) \cap P(n))
      BY <2>2, FS_Difference
    <3>2. R(n) \cap P(n) = P(n)
      BY <2>4
    <3>3. IsFiniteSet(R(n + 1)) /\ Cardinality(R(n + 1)) = Cardinality(R(n)) - Cardinality(P(n))
      BY <2>4, <3>1, <3>2
    <3>4. (c - 4 * (n - 1)) - 4 = c - 4 * n
      BY <1>2
    <3>5. Cardinality(R(n)) = c - 4 * (n - 1)
      BY <2>2
    <3> QED BY <2>3, <3>3, <3>4, <3>5
  <2>6. \A m \in 1..n : m \in 1..(n - 1) \/ m = n
    BY <2>1
  <2>7. \A m \in 1..(n - 1) : m \in 1..n
    BY <2>1
  <2>8. \A i \in mine : i \in R(n + 1) <=> \A m \in 1..n : i \notin P(m)
    BY <2>1, <2>2, <2>4, <2>6, <2>7
  <2>9. ASSUME NEW m \in 1..n, NEW i \in P(m) PROVE i < g[n + 1]
    <3>1. CASE m = n
      BY <2>4, <3>1
    <3>2. CASE m # n
      <4>1. i < g[n] /\ m \in 1..total
        BY <2>1, <2>2, <2>6, <3>2
      <4>2. PICK j \in P(n) : TRUE
        <5>1. P(n) # {}
          <6> HIDE DEF J, T
          <6>1. IsFiniteSet(P(n)) /\ Cardinality(P(n)) # 0
            BY <2>3, <2>4
          <6> QED BY <6>1, FS_EmptySet
        <5> QED BY <5>1
      <4>3. j < g[n + 1] /\ j >= g[n] /\ j \in Nat /\ i \in Nat /\ g[n] \in Nat /\ g[n + 1] \in Nat
        BY <1>1, <1>3, <2>1, <2>4, <4>1
      <4> QED BY <4>1, <4>3
    <3> QED BY <3>1, <3>2
  <2> QED BY <2>1, <2>5, <2>8, <2>9
<1> HIDE DEF T
<1>6. \A k \in Nat : k \in T
  BY <1>4, <1>5, Counting
<1>7. ASSUME NEW n \in 1..total PROVE J(n)
  <2>1. n - 1 \in T /\ (n - 1) + 1 = n
    BY <1>6
  <2> QED BY <2>1 DEF T
<1> QED BY <1>7 DEF mine, R, P, Paged

\* What a satellite report says of a system.
Complete(sats, system, s) ==
  LET mine == Of(sats, system)
  IN /\ DOMAIN s = 1..Len(s) /\ Len(s) \in Nat /\ Len(s) > 0
     /\ UNION {s[n].svs : n \in 1..Len(s)} = mine
     /\ \A n, m \in 1..Len(s) : n < m => \A i \in s[n].svs, j \in s[m].svs : i < j
     /\ \A n \in 1..Len(s) :
          /\ s[n].kind = system /\ s[n].number = n /\ s[n].total = Len(s) /\ s[n].count = Cardinality(mine)
          /\ Cardinality(s[n].svs) \in (IF mine = {} THEN {0} ELSE 1..4)

LEMMA GsvIs ==
  ASSUME NEW sats \in Seq({"GPS", "GLONASS", "other"}), NEW system
  PROVE  Complete(sats, system, Gsv(sats, system))
<1> DEFINE mine == Of(sats, system)
           c == Cardinality(mine)
           total == sentenceCount(c)
<1>1. IsFiniteSet(mine) /\ c \in Nat /\ (c = 0 <=> mine = {})
  <2>1. Len(sats) \in Nat /\ mine \in SUBSET (1..Len(sats))
    BY DEF Of
  <2>2. IsFiniteSet(mine)
    <3>1. IsFiniteSet(1..Len(sats))
      BY <2>1, FS_Interval
    <3> QED BY <2>1, <3>1, FS_Subset
  <2> QED BY <2>2, FS_CardinalityType, FS_EmptySet
<1>2. CASE c = 0
  <2> DEFINE one == [kind |-> system, total |-> 1, number |-> 1, count |-> 0, svs |-> {}]
  <2>1. Gsv(sats, system) = <<one>>
    BY <1>2 DEF Gsv
  <2>2. DOMAIN <<one>> = 1..1 /\ Len(<<one>>) = 1 /\ <<one>>[1] = one
    OBVIOUS
  <2>3. one.svs = {} /\ one.kind = system /\ one.number = 1 /\ one.total = 1 /\ one.count = c
    BY <1>2
  <2> DEFINE s == <<one>>
  <2>4. UNION {s[n].svs : n \in 1..1} = mine
    BY <1>1, <1>2, <2>2, <2>3
  <2>5. \A n \in 1..1 : n = 1
    OBVIOUS
  <2>6. Cardinality(one.svs) = 0
    BY <2>3, FS_EmptySet
  <2>9. DOMAIN s = 1..1 /\ Len(s) = 1 /\ s[1] = one
    BY <2>2
  <2> HIDE DEF one, s
  <2>7. \A n, m \in 1..1 : ~(n < m)
    BY <2>5
  <2>8. ASSUME NEW n \in 1..1
        PROVE  /\ s[n].kind = system /\ s[n].number = n /\ s[n].total = 1 /\ s[n].count = c
               /\ Cardinality(s[n].svs) = 0
    <3>1. n = 1
      BY <2>5
    <3> QED BY <2>3, <2>6, <2>9, <3>1
  <2>10. mine = {}
    BY <1>1, <1>2
  <2> HIDE DEF mine
  <2> QED BY <2>1, <2>4, <2>7, <2>8, <2>9, <2>10 DEF s, Complete, mine
<1>3. CASE c # 0
  <2>1. PICK g : /\ Starts(sats, system, total, g)
                 /\ Gsv(sats, system) = [n \in 1..total |-> Sentence(sats, system, total, n, g[n])]
    <3>1. c \in Nat \ {0}
      BY <1>1, <1>3
    <3> QED BY <3>1, SvNumbers
  <2>2. total \in Nat /\ c <= 4 * total /\ 4 * total < c + 4 /\ total > 0
    <3>1. total \in Nat /\ c <= 4 * total /\ 4 * total < c + 4
      BY <1>1, CountUp
    <3> HIDE DEF total, c
    <3> QED BY <1>1, <1>3, <3>1
  <2> DEFINE R(n) == Rest(sats, system, g[n])
             P(n) == Page(sats, system, g[n])
             s == Gsv(sats, system)
  <2>3. \A n \in 1..total :
          /\ IsFiniteSet(R(n)) /\ Cardinality(R(n)) = c - 4 * (n - 1)
          /\ \A i \in mine : i \in R(n) <=> \A m \in 1..(n - 1) : i \notin P(m)
          /\ \A m \in 1..(n - 1) : \A i \in P(m) : i < g[n]
    <3>1. Paged(sats, system, total, g)
      BY <2>1, <2>2, FourEach
    <3> QED BY <3>1 DEF Paged
  <2>4. ASSUME NEW n \in 1..total
        PROVE  /\ P(n) \subseteq R(n) /\ R(n) \subseteq mine /\ IsFiniteSet(P(n))
               /\ Cardinality(P(n)) = IF Cardinality(R(n)) <= 4 THEN Cardinality(R(n)) ELSE 4
               /\ \A i \in P(n) : i \in Nat /\ i >= g[n] /\ g[n] \in Nat
    <3>1. g[n] \in Nat
      BY <2>1 DEF Starts
    <3>2. \A i \in R(n) : i \in mine /\ i \in Nat /\ i >= g[n]
      BY DEF Rest, Of
    <3> QED BY <3>1, <3>2, PageTakes
  <2>5. \A n \in 1..total : s[n] = Sentence(sats, system, total, n, g[n])
    BY <2>1
  <2>6. DOMAIN s = 1..total /\ Len(s) = total
    <3> HIDE DEF total
    <3> QED BY <2>1, <2>2
  <2>7. \A n \in 1..total : /\ s[n].svs = P(n) /\ s[n].kind = system /\ s[n].number = n
                            /\ s[n].total = total /\ s[n].count = c
    <3> HIDE DEF s
    <3> SUFFICES ASSUME NEW n \in 1..total
                 PROVE  /\ s[n].svs = P(n) /\ s[n].kind = system /\ s[n].number = n
                        /\ s[n].total = total /\ s[n].count = c
      OBVIOUS
    <3>1. s[n] = Sentence(sats, system, total, n, g[n])
      BY <2>5
    <3> HIDE DEF total
    <3> QED BY <3>1 DEF Sentence
  <2> HIDE DEF total, c, mine, R, P, s
  <2>8. UNION {s[n].svs : n \in 1..total} = mine
    <3>1. \A n \in 1..total : s[n].svs \subseteq mine
      BY <2>4, <2>7
    <3>2. ASSUME NEW i \in mine PROVE \E n \in 1..total : i \in P(n)
      <4>1. total \in 1..total
        BY <2>2
      <4>2. Cardinality(R(total)) <= 4
        BY <1>1, <2>2, <2>3, <4>1
      <4>3. P(total) = R(total)
        <5>1. Cardinality(P(total)) = Cardinality(R(total))
          BY <2>4, <4>1, <4>2
        <5>2. IsFiniteSet(R(total)) /\ P(total) \in SUBSET R(total)
          BY <2>3, <2>4, <4>1
        <5> QED BY <5>1, <5>2, FS_Subset
      <4>4. \A m \in 1..(total - 1) : m \in 1..total
        BY <2>2
      <4> QED BY <2>3, <4>1, <4>3, <4>4
    <3> QED BY <2>7, <3>1, <3>2
  <2>9. ASSUME NEW n \in 1..total, NEW m \in 1..total, n < m, NEW i \in s[n].svs, NEW j \in s[m].svs
        PROVE  i < j
    <3>1. n \in 1..(m - 1)
      BY <2>2, <2>9
    <3>2. i \in P(n) /\ j \in P(m)
      BY <2>7, <2>9
    <3>3. i < g[m] /\ i \in Nat /\ j \in Nat /\ j >= g[m] /\ g[m] \in Nat
      BY <2>3, <2>4, <3>1, <3>2
    <3> QED BY <3>3
  <2>10. ASSUME NEW n \in 1..total PROVE Cardinality(s[n].svs) \in 1..4
    <3>1. Cardinality(R(n)) = c - 4 * (n - 1) /\ n \in Nat /\ n <= total
      BY <2>2, <2>3
    <3>2. Cardinality(R(n)) \in Nat /\ Cardinality(R(n)) >= 1
      BY <1>1, <2>2, <3>1
    <3> QED BY <2>4, <2>7, <3>2
  <2>11. mine # {}
    BY <1>1, <1>3
  <2> QED BY <2>2, <2>6, <2>7, <2>8, <2>9, <2>10, <2>11 DEF Complete, mine, s, c
<1> QED BY <1>2, <1>3

\* The property of one system's sentences, and the same where its sentences are
\* those of a report, behind the first d.
SystemWhole(s, sats, system) ==
  LET gsv  == {n \in DOMAIN s : s[n].kind = system}
      mine == Of(sats, system)
  IN  gsv # {} =>
        /\ UNION {s[n].svs : n \in gsv} = mine
        /\ \A n, m \in gsv : n < m => \A i \in s[n].svs, j \in s[m].svs : i < j
        /\ \A n \in gsv :
             /\ s[n].number = Cardinality({m \in gsv : m <= n})
             /\ s[n].total = Cardinality(gsv) /\ s[n].count = Cardinality(mine)
             /\ Cardinality(s[n].svs) \in (IF mine = {} THEN {0} ELSE 1..4)

LEMMA BehindOther ==
  ASSUME NEW sats, NEW system, NEW t, NEW s, NEW d \in Nat, Complete(sats, system, t),
         {n \in DOMAIN s : s[n].kind = system} = (d + 1)..(d + Len(t)),
         \A n \in 1..Len(t) : s[d + n] = t[n]
  PROVE  SystemWhole(s, sats, system)
<1> DEFINE mine == Of(sats, system)
           gsv == {n \in DOMAIN s : s[n].kind = system}
           k == Len(t)
<1>1. /\ k \in Nat /\ UNION {t[n].svs : n \in 1..k} = mine
      /\ \A n, m \in 1..k : n < m => \A i \in t[n].svs, j \in t[m].svs : i < j
      /\ \A n \in 1..k : /\ t[n].number = n /\ t[n].total = k /\ t[n].count = Cardinality(mine)
                         /\ Cardinality(t[n].svs) \in (IF mine = {} THEN {0} ELSE 1..4)
  BY DEF Complete
<1>2. gsv = (d + 1)..(d + k)
  OBVIOUS
<1> DEFINE upTo(n) == {m \in gsv : m <= n}
<1> HIDE DEF k, gsv, mine
<1>3. ASSUME NEW n \in gsv
      PROVE  n - d \in 1..k /\ s[n] = t[n - d] /\ n \in Nat
  <2>1. n \in Nat /\ n - d \in 1..k /\ d + (n - d) = n
    BY <1>1, <1>2
  <2> QED BY <2>1 DEF k
<1>4. \A i \in 1..k : d + i \in gsv /\ s[d + i] = t[i]
  BY <1>1, <1>2 DEF k
<1>5. UNION {s[n].svs : n \in gsv} = mine
  <2>1. \A n \in gsv : s[n].svs \subseteq mine
    BY <1>1, <1>3
  <2>2. ASSUME NEW i \in mine PROVE \E n \in gsv : i \in s[n].svs
    <3>1. PICK n \in 1..k : i \in t[n].svs
      BY <1>1
    <3> QED BY <1>4, <3>1
  <2> QED BY <2>1, <2>2
<1>6. ASSUME NEW n \in gsv, NEW m \in gsv, n < m, NEW i \in s[n].svs, NEW j \in s[m].svs PROVE i < j
  <2>1. n - d < m - d
    BY <1>3, <1>6
  <2> QED BY <1>1, <1>3, <2>1
<1>7. Cardinality(gsv) = k
  <2>1. Cardinality((d + 1)..(d + k)) = IF d + 1 > d + k THEN 0 ELSE (d + k) - (d + 1) + 1
    BY <1>1, FS_Interval
  <2> QED BY <1>1, <1>2, <2>1
<1>8. ASSUME NEW n \in gsv PROVE Cardinality(upTo(n)) = n - d
  <2>1. n \in Nat /\ n - d \in 1..k
    BY <1>3
  <2>2. upTo(n) = (d + 1)..n
    BY <1>1, <1>2, <2>1
  <2> HIDE DEF upTo
  <2>3. Cardinality((d + 1)..n) = IF d + 1 > n THEN 0 ELSE n - (d + 1) + 1
    BY <2>1, FS_Interval
  <2> QED BY <1>1, <2>1, <2>2, <2>3
<1> HIDE DEF upTo
<1>9. ASSUME NEW n \in gsv
      PROVE  /\ s[n].number = Cardinality(upTo(n)) /\ s[n].total = Cardinality(gsv)
             /\ s[n].count = Cardinality(mine)
             /\ Cardinality(s[n].svs) \in (IF mine = {} THEN {0} ELSE 1..4)
  BY <1>1, <1>3, <1>7, <1>8
<1> QED BY <1>5, <1>6, <1>9 DEF SystemWhole, gsv, mine, upTo

LEMMA BothSystems ==
  ASSUME NEW sats \in Seq({"GPS", "GLONASS", "other"}), NEW system \in {"GPS", "GLONASS"}
  PROVE  SystemWhole(Gsv(sats, "GPS") \o Gsv(sats, "GLONASS"), sats, system)
<1> DEFINE a == Gsv(sats, "GPS")
           b == Gsv(sats, "GLONASS")
           s == a \o b
<1>1. Complete(sats, "GPS", a) /\ Complete(sats, "GLONASS", b)
  BY GsvIs
<1> HIDE DEF a, b
<1>2. /\ Len(a) \in Nat /\ DOMAIN a = 1..Len(a) /\ \A n \in 1..Len(a) : a[n].kind = "GPS"
      /\ Len(b) \in Nat /\ DOMAIN b = 1..Len(b) /\ \A n \in 1..Len(b) : b[n].kind = "GLONASS"
  BY <1>1 DEF Complete
<1>3. /\ DOMAIN s = 1..(Len(a) + Len(b))
      /\ \A n \in 1..(Len(a) + Len(b)) : s[n] = IF n <= Len(a) THEN a[n] ELSE b[n - Len(a)]
  BY <1>2
<1> HIDE DEF s
<1>4. \A n \in 1..Len(a) : n \in DOMAIN s /\ s[n] = a[n]
  BY <1>2, <1>3
<1>5. \A n \in 1..Len(b) : Len(a) + n \in DOMAIN s /\ s[Len(a) + n] = b[n]
  BY <1>2, <1>3
<1>6. \A n \in DOMAIN s : n \in 1..Len(a) \/ (n - Len(a) \in 1..Len(b) /\ n = Len(a) + (n - Len(a)) /\ n > Len(a))
  BY <1>2, <1>3
<1>7. {n \in DOMAIN s : s[n].kind = "GPS"} = (0 + 1)..(0 + Len(a))
  BY <1>2, <1>4, <1>5, <1>6
<1>8. {n \in DOMAIN s : s[n].kind = "GLONASS"} = (Len(a) + 1)..(Len(a) + Len(b))
  <2>1. \A n \in (Len(a) + 1)..(Len(a) + Len(b)) : n \in DOMAIN s /\ n \notin 1..Len(a)
    BY <1>2, <1>3
  <2>2. \A n \in DOMAIN s : n > Len(a) => n \in (Len(a) + 1)..(Len(a) + Len(b))
    BY <1>2, <1>3
  <2>3. \A n \in DOMAIN s : n \notin 1..Len(a) => s[n].kind = "GLONASS"
    BY <1>2, <1>5, <1>6
  <2>4. \A n \in DOMAIN s : n \in 1..Len(a) => s[n].kind # "GLONASS"
    BY <1>2, <1>4
  <2> QED BY <1>6, <2>1, <2>2, <2>3, <2>4
<1>9. CASE system = "GPS"
  <2>1. \A n \in 1..Len(a) : s[0 + n] = a[n]
    BY <1>2, <1>4
  <2> QED BY <1>1, <1>7, <1>9, <2>1, BehindOther, 0 \in Nat DEF s, a, b
<1>10. CASE system = "GLONASS"
  BY <1>1, <1>2, <1>5, <1>8, <1>10, BehindOther DEF s, a, b
<1> QED BY <1>9, <1>10

NmeaInv ==
  /\ NmeaTypeOK /\ reports \in Nat /\ svReport.number \in 0..reports
  /\ svReport.mask \in Masks \cup {{}}
  /\ SentencesWhole

\* A satellite report is paged completely, each of its systems, and what it leaves
\* to the position reports is used once.
THEOREM SentencesAreWhole == NmeaSpec => [](NmeaTypeOK /\ SentencesWhole)
<1>1. NmeaInit => NmeaInv
  BY DEF NmeaInit, NmeaInv, NmeaTypeOK, SentencesWhole, GsvComplete, CachesOnce
<1>2. NmeaInv /\ [NmeaNext]_nmeaVars => NmeaInv'
  <2> SUFFICES ASSUME NmeaInv, [NmeaNext]_nmeaVars PROVE NmeaInv'
    OBVIOUS
  <2>1. CASE LocEngReportSv
    <3>1. PICK sats \in Lists, mask \in Masks, hasDop \in BOOLEAN :
            generate_sv(sats, mask, hasDop) /\ reports' = reports + 1 /\ inSession' = inSession
      BY <2>1 DEF LocEngReportSv
    <3>2. GsvComplete'
      <4>1. sats \in Seq({"GPS", "GLONASS", "other"})
        BY NmeaAssumption
      <4>2. sentences' = Gsv(sats, "GPS") \o Gsv(sats, "GLONASS") /\ svReport'.list = sats
        BY <3>1 DEF generate_sv
      <4>3. \A system \in {"GPS", "GLONASS"} : SystemWhole(sentences', svReport'.list, system)
        BY <4>1, <4>2, BothSystems
      <4> QED BY <4>3 DEF GsvComplete, SystemWhole
    <3> QED BY <3>1, <3>2 DEF NmeaInv, NmeaTypeOK, SentencesWhole, CachesOnce, generate_sv, cacheForFix
  <2>2. CASE LocEngReportPosition
    <3>1. PICK generate_nmea, hasDop, badTime, latLong, standalone \in BOOLEAN :
            /\ \/ generate_pos(generate_nmea, hasDop, badTime, Quality(latLong, standalone))
               \/ sentences' = <<>> /\ UNCHANGED <<sv_used_mask, dop, spent>>
            /\ reports' = reports + 1 /\ inSession' \in {"none", "SINGLE", "PERIODIC"}
            /\ svReport' = svReport
      <4>1. PICK failed, accepted, hasDop, badTime, latLong, standalone \in BOOLEAN :
              LET reported == failed \/ accepted
                  ends     == reported /\ inSession = "SINGLE"
              IN  /\ inSession' = IF ends THEN "none" ELSE inSession
                  /\ IF inSession' # "none" THEN generate_pos(reported /\ ~failed, hasDop, badTime,
                                                            Quality(latLong, standalone))
                     ELSE sentences' = <<>> /\ UNCHANGED <<sv_used_mask, dop, spent>>
        BY <2>2 DEF LocEngReportPosition
      <4>2. reports' = reports + 1 /\ svReport' = svReport
        BY <2>2 DEF LocEngReportPosition
      <4>3. inSession' \in {"none", "SINGLE", "PERIODIC"}
        BY <4>1 DEF NmeaInv, NmeaTypeOK
      <4>4. CASE inSession' # "none"
        <5>1. generate_pos((failed \/ accepted) /\ ~failed, hasDop, badTime, Quality(latLong, standalone))
          BY <4>1, <4>4
        <5>2. ((failed \/ accepted) /\ ~failed) \in BOOLEAN
          OBVIOUS
        <5> QED BY <4>2, <4>3, <5>1, <5>2
      <4>5. CASE inSession' = "none"
        BY <4>1, <4>2, <4>3, <4>5
      <4> QED BY <4>4, <4>5
    <3>2. \A n \in DOMAIN sentences' : sentences'[n].kind \notin {"GPS", "GLONASS"}
      <4>1. CASE sentences' = <<>>
        BY <4>1
      <4>2. CASE sentences' = <<Gsa(hasDop), Vtg(Quality(latLong, standalone)), Rmc(Quality(latLong, standalone)),
                                Gga(Quality(latLong, standalone))>>
        BY <4>2 DEF Gsa, Vtg, Rmc, Gga
      <4>3. CASE sentences' = Blank
        BY <4>3 DEF Blank, Vtg, Rmc
      <4> QED BY <3>1, <4>1, <4>2, <4>3 DEF generate_pos
    <3>3. GsvComplete'
      <4>1. \A system \in {"GPS", "GLONASS"} : {n \in DOMAIN sentences' : sentences'[n].kind = system} = {}
        BY <3>2
      <4> QED BY <4>1 DEF GsvComplete
    <3>4. /\ \/ UNCHANGED <<sv_used_mask, dop, spent>>
             \/ dop' = 0 /\ UNCHANGED sv_used_mask /\ spent' = spent \cup {"dop"}
             \/ dop' = 0 /\ sv_used_mask' = {} /\ spent' = spent \cup {"dop", "mask"}
          /\ svReport' = svReport
      BY <3>1 DEF generate_pos
    <3>5. CachesOnce'
      BY <3>4 DEF NmeaInv, SentencesWhole, CachesOnce
    <3>6. NmeaTypeOK' /\ reports' \in Nat /\ svReport'.number \in 0..reports'
      <4>1. reports \in Nat /\ reports' = reports + 1 /\ dop \in 0..reports /\ svReport.number \in 0..reports
        BY <3>1 DEF NmeaInv, NmeaTypeOK
      <4>2. reports' \in Nat /\ 0 \in 0..reports' /\ \A n \in 0..reports : n \in 0..reports'
        BY <4>1
      <4>3. dop' \in 0..reports' /\ svReport'.number \in 0..reports'
        BY <3>4, <4>1, <4>2
      <4>4. sv_used_mask' \in Masks \cup {{}} /\ spent' \subseteq {"mask", "dop"}
        BY <3>4 DEF NmeaInv, NmeaTypeOK
      <4> QED BY <3>1, <4>2, <4>3, <4>4 DEF NmeaTypeOK
    <3> QED BY <3>3, <3>4, <3>5, <3>6 DEF NmeaInv, SentencesWhole
  <2>3. CASE UNCHANGED nmeaVars
    <3>1. GsvComplete'
      <4>1. \A system \in {"GPS", "GLONASS"} : SystemWhole(sentences, svReport.list, system)
        BY DEF NmeaInv, SentencesWhole, GsvComplete, SystemWhole
      <4>2. \A system \in {"GPS", "GLONASS"} : SystemWhole(sentences', svReport'.list, system)
        BY <2>3, <4>1 DEF nmeaVars
      <4> QED BY <4>2 DEF GsvComplete, SystemWhole
    <3> QED BY <2>3, <3>1 DEF nmeaVars, NmeaInv, NmeaTypeOK, SentencesWhole, CachesOnce
  <2> QED BY <2>1, <2>2, <2>3 DEF NmeaNext
<1>3. NmeaInv => NmeaTypeOK /\ SentencesWhole
  BY DEF NmeaInv
<1> QED BY <1>1, <1>2, <1>3, PTL DEF NmeaSpec

-----------------------------------------------------------------------------
(* The device tree table tool.                                              *)

\* The boards, in the order of the bootloader, and the entries of the list.
Board == Nat \X Nat \X Nat \X Nat
Chip  == [board : Board, master : FileName, dtb_size : Nat]

\* The trees that are written, and those whose boards were accepted.
Block  == [file : FileName, tree : Tree, at : Nat, size : Nat]
Accept == [file : FileName, tree : Tree]

LEMMA BoardOrder ==
  ASSUME NEW b \in Board, NEW c \in Board
  PROVE  Before(b, c) <=> \/ b[1] < c[1]
                          \/ b[1] = c[1] /\ b[2] < c[2]
                          \/ b[1] = c[1] /\ b[2] = c[2] /\ b[3] < c[3]
                          \/ b[1] = c[1] /\ b[2] = c[2] /\ b[3] = c[3] /\ b[4] < c[4]
<1> DEFINE Differs(i) == b[i] < c[i] /\ \A j \in 1..(i - 1) : b[j] = c[j]
<1>1. Before(b, c) <=> Differs(1) \/ Differs(2) \/ Differs(3) \/ Differs(4)
  <2>1. 1..4 = {1, 2, 3, 4}
    OBVIOUS
  <2> QED BY <2>1 DEF Before
<1>2. Differs(1) <=> b[1] < c[1]
  OBVIOUS
<1>3. Differs(2) <=> b[1] = c[1] /\ b[2] < c[2]
  <2>1. 1..(2 - 1) = {1}
    OBVIOUS
  <2> QED BY <2>1
<1>4. Differs(3) <=> b[1] = c[1] /\ b[2] = c[2] /\ b[3] < c[3]
  <2>1. 1..(3 - 1) = {1, 2}
    OBVIOUS
  <2> QED BY <2>1
<1>5. Differs(4) <=> b[1] = c[1] /\ b[2] = c[2] /\ b[3] = c[3] /\ b[4] < c[4]
  <2>1. 1..(4 - 1) = {1, 2, 3}
    OBVIOUS
  <2> QED BY <2>1
<1> HIDE DEF Differs
<1> QED BY <1>1, <1>2, <1>3, <1>4, <1>5

LEMMA BoardsOrdered ==
  ASSUME NEW b \in Board, NEW c \in Board
  PROVE  /\ ~Before(b, b) /\ (b # c => Before(b, c) \/ Before(c, b))
         /\ \A d \in Board : Before(b, c) /\ Before(c, d) => Before(b, d)
<1>1. \A d \in Board : d[1] \in Nat /\ d[2] \in Nat /\ d[3] \in Nat /\ d[4] \in Nat
  BY DEF Board
<1>2. ~Before(b, b)
  BY <1>1, BoardOrder
<1>3. ASSUME b # c PROVE Before(b, c) \/ Before(c, b)
  <2>1. b[1] # c[1] \/ b[2] # c[2] \/ b[3] # c[3] \/ b[4] # c[4]
    BY <1>3 DEF Board
  <2> QED BY <1>1, <2>1, BoardOrder
<1>4. ASSUME NEW d \in Board, Before(b, c), Before(c, d) PROVE Before(b, d)
  BY <1>1, <1>4, BoardOrder
<1> QED BY <1>2, <1>3, <1>4

\* s is l with c at its place h.
With(l, h, c, s) ==
  /\ s \in Seq(Chip) /\ Len(s) = Len(l) + 1 /\ DOMAIN s = 1..(Len(l) + 1)
  /\ \A i \in 1..(Len(l) + 1) : s[i] = IF i < h THEN l[i] ELSE IF i = h THEN c ELSE l[i - 1]

LEMMA Inserted ==
  ASSUME NEW l \in Seq(Chip), NEW c \in Chip, NEW h \in 1..(Len(l) + 1)
  PROVE  With(l, h, c, InsertAt(l, h, c))
<1> DEFINE a == SubSeq(l, 1, h - 1)
           b == SubSeq(l, h, Len(l))
<1>1. a \in Seq(Chip) /\ Len(a) = h - 1 /\ \A i \in 1..(h - 1) : a[i] = l[i]
  OBVIOUS
<1>2. b \in Seq(Chip) /\ Len(b) = Len(l) + 1 - h /\ \A i \in 1..(Len(l) + 1 - h) : b[i] = l[(h + i) - 1]
  OBVIOUS
<1>3. InsertAt(l, h, c) = (a \o <<c>>) \o b
  BY DEF InsertAt
<1> HIDE DEF a, b
<1> DEFINE d == a \o <<c>>
<1>4. d \in Seq(Chip) /\ Len(d) = h /\ \A i \in 1..h : d[i] = IF i < h THEN l[i] ELSE c
  BY <1>1
<1> HIDE DEF d
<1>5. /\ d \o b \in Seq(Chip) /\ Len(d \o b) = Len(l) + 1
      /\ \A i \in 1..(Len(l) + 1) : (d \o b)[i] = IF i <= h THEN d[i] ELSE b[i - h]
  <2>1. d \in Seq(Chip) /\ b \in Seq(Chip) /\ Len(d) = h /\ Len(b) = Len(l) + 1 - h
    BY <1>2, <1>4
  <2>2. d \o b \in Seq(Chip)
    BY <2>1
  <2>3. Len(d \o b) = Len(d) + Len(b)
    BY <2>1
  <2>4. \A i \in 1..(Len(d) + Len(b)) : (d \o b)[i] = IF i <= Len(d) THEN d[i] ELSE b[i - Len(d)]
    BY <2>1
  <2>5. h + (Len(l) + 1 - h) = Len(l) + 1
    OBVIOUS
  <2> QED BY <2>1, <2>2, <2>3, <2>4, <2>5
<1>6. \A i \in 1..(Len(l) + 1) : i > h => b[i - h] = l[i - 1]
  <2> SUFFICES ASSUME NEW i \in 1..(Len(l) + 1), i > h PROVE b[i - h] = l[i - 1]
    OBVIOUS
  <2>1. i - h \in 1..(Len(l) + 1 - h) /\ (h + (i - h)) - 1 = i - 1
    OBVIOUS
  <2> QED BY <1>2, <2>1
<1> QED BY <1>3, <1>4, <1>5, <1>6 DEF d, With

\* Each board once, in order.
Sorted(l) == l \in Seq(Chip) /\ \A i, j \in DOMAIN l : i < j => Before(l[i].board, l[j].board)

\* What was in the list stays as it is, and only a new entry c is added.
AllThere(l, s)    == \A i \in DOMAIN l : \E j \in DOMAIN s : s[j] = l[i]
Within(s, l, c) == \A j \in DOMAIN s : s[j] = c \/ \E i \in DOMAIN l : s[j] = l[i]
Listed(s, b)  == \E j \in DOMAIN s : s[j].board = b

LEMMA ChipAdded ==
  ASSUME NEW l, Sorted(l), NEW c \in Chip
  PROVE  /\ Sorted(chip_add(l, c)) /\ AllThere(l, chip_add(l, c)) /\ Within(chip_add(l, c), l, c)
         /\ Listed(chip_add(l, c), c.board)
<1> DEFINE s == chip_add(l, c)
           at == {i \in DOMAIN l : Before(c.board, l[i].board)}
           here == IF at = {} THEN Len(l) + 1 ELSE CHOOSE i \in at : \A j \in at : i <= j
<1>1. l \in Seq(Chip) /\ Len(l) \in Nat /\ DOMAIN l = 1..Len(l)
  BY DEF Sorted
<1>2. CASE \E i \in DOMAIN l : l[i].board = c.board
  <2>1. s = l
    BY <1>2 DEF chip_add
  <2> QED BY <1>2, <2>1 DEF AllThere, Within, Listed
<1>3. CASE ~\E i \in DOMAIN l : l[i].board = c.board
  <2>1. s = InsertAt(l, here, c)
    BY <1>3 DEF chip_add
  <2>2. /\ here \in 1..(Len(l) + 1)
        /\ \A i \in DOMAIN l : (i < here => i \notin at) /\ (i = here => i \in at)
    <3>1. CASE at = {}
      BY <1>1, <3>1
    <3>2. CASE at # {}
      <4>1. at \subseteq Nat
        BY <1>1
      <4>2. PICK x \in at : \A y \in at : ~(y < x)
        <5> HIDE DEF at
        <5> QED BY <3>2, <4>1, LeastOne
      <4>3. \A y \in at : x <= y
        BY <4>1, <4>2
      <4> DEFINE p == CHOOSE i \in at : \A j \in at : i <= j
      <4>4. p \in at /\ \A j \in at : p <= j
        BY <4>3
      <4>5. here = p
        BY <3>2
      <4> HIDE DEF p, here
      <4>6. \A i \in DOMAIN l : i < p => ~(p <= i)
        BY <1>1, <4>4
      <4> QED BY <1>1, <4>4, <4>5, <4>6
    <3> QED BY <3>1, <3>2
  <2> HIDE DEF here, s
  <2>12. With(l, here, c, s)
    BY <1>1, <2>1, <2>2, Inserted
  <2>3. /\ s \in Seq(Chip) /\ Len(s) = Len(l) + 1 /\ DOMAIN s = 1..(Len(l) + 1)
        /\ \A i \in 1..(Len(l) + 1) :
             s[i] = IF i < here THEN l[i] ELSE IF i = here THEN c ELSE l[i - 1]
    BY <2>12 DEF With
  <2>4. \A i \in DOMAIN l : l[i].board \in Board /\ c.board \in Board /\ l[i].board # c.board
    <3>1. \A x \in Chip : x.board \in Board
      BY DEF Chip
    <3>2. \A i \in DOMAIN l : l[i] \in Chip
      BY <1>1
    <3> QED BY <1>3, <3>1, <3>2
  <2>5. \A i, j \in DOMAIN l : i < j => Before(l[i].board, l[j].board)
    BY DEF Sorted
  <2>6. \A i \in DOMAIN l : i < here => Before(l[i].board, c.board)
    BY <2>2, <2>4, BoardsOrdered
  <2>7. \A i \in DOMAIN l : i >= here => Before(c.board, l[i].board)
    <3> SUFFICES ASSUME NEW i \in DOMAIN l, i >= here PROVE Before(c.board, l[i].board)
      OBVIOUS
    <3>1. here \in DOMAIN l /\ Before(c.board, l[here].board)
      BY <1>1, <2>2
    <3>2. CASE i = here
      BY <3>1, <3>2
    <3>3. CASE i # here
      <4>1. Before(l[here].board, l[i].board)
        BY <1>1, <2>2, <2>5, <3>1, <3>3
      <4> QED BY <2>4, <3>1, <4>1, BoardsOrdered
    <3> QED BY <3>2, <3>3
  <2>8. ASSUME NEW i \in DOMAIN s, NEW j \in DOMAIN s, i < j PROVE Before(s[i].board, s[j].board)
    <3>1. CASE i < here /\ j < here
      BY <1>1, <2>2, <2>3, <2>5, <2>8, <3>1
    <3>2. CASE i < here /\ j = here
      BY <1>1, <2>2, <2>3, <2>6, <2>8, <3>2
    <3>3. CASE i < here /\ j > here
      <4>1. i \in DOMAIN l /\ j - 1 \in DOMAIN l /\ i < j - 1 /\ s[i] = l[i] /\ s[j] = l[j - 1]
        BY <1>1, <2>2, <2>3, <2>8, <3>3
      <4> QED BY <2>5, <4>1
    <3>4. CASE i = here
      <4>1. j - 1 \in DOMAIN l /\ j - 1 >= here /\ s[i] = c /\ s[j] = l[j - 1]
        BY <1>1, <2>2, <2>3, <2>8, <3>4
      <4> QED BY <2>7, <4>1
    <3>5. CASE i > here
      <4>1. i - 1 \in DOMAIN l /\ j - 1 \in DOMAIN l /\ i - 1 < j - 1 /\ s[i] = l[i - 1] /\ s[j] = l[j - 1]
        BY <1>1, <2>2, <2>3, <2>8, <3>5
      <4> QED BY <2>5, <4>1
    <3> QED BY <1>1, <2>2, <2>3, <3>1, <3>2, <3>3, <3>4, <3>5
  <2>9. AllThere(l, s)
    <3> SUFFICES ASSUME NEW i \in DOMAIN l PROVE \E j \in DOMAIN s : s[j] = l[i]
      BY DEF AllThere
    <3>1. CASE i < here
      BY <1>1, <2>2, <2>3, <3>1
    <3>2. CASE i >= here
      <4>1. i + 1 \in DOMAIN s /\ s[i + 1] = l[(i + 1) - 1] /\ (i + 1) - 1 = i
        BY <1>1, <2>2, <2>3, <3>2
      <4> QED BY <4>1
    <3> QED BY <1>1, <2>2, <3>1, <3>2
  <2>10. Within(s, l, c)
    <3> SUFFICES ASSUME NEW j \in DOMAIN s PROVE s[j] = c \/ \E i \in DOMAIN l : s[j] = l[i]
      BY DEF Within
    <3>1. CASE j < here
      BY <1>1, <2>2, <2>3, <3>1
    <3>2. CASE j > here
      <4>1. j - 1 \in DOMAIN l /\ s[j] = l[j - 1]
        BY <1>1, <2>2, <2>3, <3>2
      <4> QED BY <4>1
    <3> QED BY <1>1, <2>2, <2>3, <3>1, <3>2
  <2>11. here \in DOMAIN s /\ s[here] = c
    BY <1>1, <2>2, <2>3
  <2> QED BY <2>3, <2>8, <2>9, <2>10, <2>11 DEF Sorted, Listed, s
<1> QED BY <1>2, <1>3

\* s is l with boards of the file f, whose trees take z bytes.
Extended(l, s, f, z) ==
  /\ Sorted(s) /\ AllThere(l, s)
  /\ \A j \in DOMAIN s : (s[j].master = f /\ s[j].dtb_size = z) \/ \E i \in DOMAIN l : s[j] = l[i]

LEMMA OneMore ==
  ASSUME NEW l, NEW s, NEW f \in FileName, NEW z \in Nat, NEW b \in Board, Extended(l, s, f, z),
         NEW c, c = [board |-> b, master |-> f, dtb_size |-> z]
  PROVE  /\ Extended(l, chip_add(s, c), f, z) /\ Listed(chip_add(s, c), b)
         /\ \A d : Listed(s, d) => Listed(chip_add(s, c), d)
<1>1. c \in Chip /\ c.board = b /\ c.master = f /\ c.dtb_size = z
  BY DEF Chip
<1> DEFINE t == chip_add(s, c)
<1>2. Sorted(s) /\ AllThere(l, s)
  BY DEF Extended
<1>3. Sorted(t) /\ AllThere(s, t) /\ Within(t, s, c) /\ Listed(t, c.board)
  BY <1>1, <1>2, ChipAdded
<1> HIDE DEF t
<1>4. AllThere(l, t)
  BY <1>2, <1>3 DEF AllThere
<1>5. \A j \in DOMAIN t : (t[j].master = f /\ t[j].dtb_size = z) \/ \E i \in DOMAIN l : t[j] = l[i]
  BY <1>1, <1>3 DEF Within, Extended
<1>6. \A d : Listed(s, d) => Listed(t, d)
  BY <1>3 DEF AllThere, Listed
<1> QED BY <1>1, <1>3, <1>4, <1>5, <1>6 DEF Extended, t

LEMMA RestAdded ==
  ASSUME NEW l, NEW l0, NEW f \in FileName, NEW z \in Nat, z = RoundUp(dir[f].size), Extended(l, l0, f, z),
         NEW boards \in Seq(Board)
  PROVE  /\ Extended(l, addRest(l0, boards, f), f, z)
         /\ \A n \in 1..Len(boards) : Listed(addRest(l0, boards, f), boards[n])
         /\ \A d : Listed(l0, d) => Listed(addRest(l0, boards, f), d)
<1> DEFINE entry(n) == [board |-> boards[n], master |-> f, dtb_size |-> z]
           N == Len(boards)
           X == {s \in Seq(Chip) : Extended(l, s, f, z)}
           step == [n \in 1..N |-> [s \in X |-> chip_add(s, entry(n))]]
           Is(g) == g = [n \in 0..N |-> IF n = 0 THEN l0 ELSE chip_add(g[n - 1], entry(n))]
           added == CHOOSE g : Is(g)
<1>1. addRest(l0, boards, f) = added[N]
  BY DEF addRest
<1>2. N \in Nat /\ l0 \in X /\ \A s \in X : Extended(l, s, f, z)
  BY DEF Extended, Sorted
<1>3. ASSUME NEW s \in X, NEW n \in 1..N
      PROVE  /\ chip_add(s, entry(n)) \in X /\ Listed(chip_add(s, entry(n)), boards[n])
             /\ \A d : Listed(s, d) => Listed(chip_add(s, entry(n)), d)
  <2> PICK c : c = entry(n)
    OBVIOUS
  <2>1. boards[n] \in Board
    OBVIOUS
  <2>2. /\ Extended(l, chip_add(s, c), f, z) /\ Listed(chip_add(s, c), boards[n])
        /\ \A d : Listed(s, d) => Listed(chip_add(s, c), d)
    BY <1>2, <2>1, OneMore
  <2> QED BY <2>2 DEF Extended, Sorted
<1>4. \E g : Is(g)
  <2>1. \A n \in 1..N : \A s \in X : step[n][s] \in X
    BY <1>3
  <2> HIDE DEF step, X, N
  <2>2. Iteration(X, l0, N, step) # {}
    BY <1>2, <2>1, Iterates
  <2>3. PICK g \in [0..N -> X] : g[0] = l0 /\ \A n \in 1..N : g[n] = step[n][g[n - 1]]
    BY <2>2 DEF Iteration
  <2>4. ASSUME NEW n \in 0..N PROVE g[n] = IF n = 0 THEN l0 ELSE chip_add(g[n - 1], entry(n))
    <3>1. CASE n = 0
      BY <2>3, <3>1
    <3>2. CASE n # 0
      <4>1. n \in 1..N /\ n - 1 \in 0..N
        BY <1>2, <3>2
      <4>2. g[n - 1] \in X /\ g[n] = step[n][g[n - 1]]
        BY <2>3, <4>1
      <4> HIDE DEF entry
      <4> QED BY <3>2, <4>1, <4>2 DEF step
    <3> QED BY <3>1, <3>2
  <2>5. g = [n \in 0..N |-> g[n]]
    BY <2>3
  <2> HIDE DEF entry
  <2> QED BY <2>4, <2>5
<1>5. Is(added)
  BY <1>4
<1> HIDE DEF added, X, entry, N
<1> DEFINE T == {k \in Nat : k <= N => /\ added[k] \in X /\ (\A m \in 1..k : Listed(added[k], boards[m]))
                                       /\ \A d : Listed(l0, d) => Listed(added[k], d)}
<1>6. 0 \in T
  <2>1. added[0] = l0
    BY <1>2, <1>5
  <2> QED BY <1>2, <2>1
<1>7. ASSUME NEW k \in Nat, k \in T PROVE k + 1 \in T
  <2> PICK n \in Nat : n = k + 1
    OBVIOUS
  <2> SUFFICES ASSUME n <= N
               PROVE  /\ added[n] \in X /\ (\A m \in 1..n : Listed(added[n], boards[m]))
                      /\ \A d : Listed(l0, d) => Listed(added[n], d)
    OBVIOUS
  <2>1. n \in 0..N /\ n # 0 /\ n - 1 = k /\ n \in 1..N /\ k <= N
    BY <1>2
  <2>2. added[n] = chip_add(added[k], entry(n))
    BY <1>5, <2>1
  <2>3. /\ added[k] \in X /\ (\A m \in 1..k : Listed(added[k], boards[m]))
        /\ \A d : Listed(l0, d) => Listed(added[k], d)
    BY <1>7, <2>1
  <2>4. /\ added[n] \in X /\ Listed(added[n], boards[n])
        /\ \A d : Listed(added[k], d) => Listed(added[n], d)
    BY <1>3, <2>1, <2>2, <2>3
  <2>5. \A m \in 1..n : m = n \/ m \in 1..k
    OBVIOUS
  <2> QED BY <2>3, <2>4, <2>5
<1> HIDE DEF T
<1>8. N \in T
  BY <1>2, <1>6, <1>7, Counting
<1> QED BY <1>1, <1>2, <1>8 DEF T, N

LEMMA LinkedIs ==
  ASSUME NEW S, NEW s \in Seq(S)
  PROVE  Linked(s) \in Seq(S)
<1>1. CASE s = <<>>
  BY <1>1 DEF Linked
<1>2. CASE s # <<>>
  <2>1. Head(s) \in S /\ Tail(s) \in Seq(S)
    BY <1>2
  <2> DEFINE t == Tail(s)
             r == Reverse(t)
  <2>2. Len(t) \in Nat /\ \A i \in 1..Len(t) : t[i] \in S
    BY <2>1
  <2> HIDE DEF t
  <2>3. r = [i \in 1..Len(t) |-> t[(Len(t) - i) + 1]]
    BY DEF Reverse
  <2>4. \A i \in 1..Len(t) : t[(Len(t) - i) + 1] \in S
    BY <2>2
  <2>5. r \in Seq(S)
    BY <2>2, <2>3, <2>4
  <2>6. Linked(s) = <<Head(s)>> \o r
    BY <1>2 DEF Linked, t
  <2> HIDE DEF r
  <2> QED BY <2>1, <2>5, <2>6
<1> QED BY <1>1, <1>2

LEMMA CrossIs ==
  ASSUME NEW ids \in Seq(Nat \X Nat), NEW boards \in Seq(Nat \X Nat)
  PROVE  Cross(ids, boards) \in Seq(Board)
<1> DEFINE n == Len(ids)
           m == Len(boards)
           id(i) == ids[((i - 1) \div m) + 1]
           b(i)  == boards[((i - 1) % m) + 1]
<1>1. n \in Nat /\ m \in Nat /\ n * m \in Nat
  OBVIOUS
<1>2. Cross(ids, boards) = [i \in 1..(n * m) |-> <<id(i)[1], b(i)[1], b(i)[2], id(i)[2]>>]
  BY DEF Cross
<1>3. ASSUME NEW i \in 1..(n * m) PROVE <<id(i)[1], b(i)[1], b(i)[2], id(i)[2]>> \in Board
  <2>1. i - 1 \in Nat /\ i - 1 < n * m /\ m # 0
    <3>1. i \in Nat /\ i - 1 \in Nat /\ i - 1 < n * m
      BY <1>1
    <3>2. ASSUME m = 0 PROVE FALSE
      <4>1. n * m = 0
        BY <1>1, <3>2
      <4> QED BY <3>1, <4>1
    <3> QED BY <3>1, <3>2
  <2> HIDE DEF n, m
  <2>2. (i - 1) \div m \in Nat /\ (i - 1) \div m < n /\ (i - 1) % m \in Nat /\ (i - 1) % m < m
    <3> PICK x \in Nat : x = i - 1
      BY <2>1
    <3>1. x \in Nat /\ x < n * m /\ n \in Nat /\ m \in Nat /\ m > 0
      BY <1>1, <2>1
    <3>2. x \div m \in Nat /\ x \div m < n
      BY <3>1, Quotient
    <3>3. x % m \in Nat /\ x % m < m
      BY <3>1
    <3> QED BY <3>2, <3>3
  <2>3. ((i - 1) \div m) + 1 \in 1..n /\ ((i - 1) % m) + 1 \in 1..m
    BY <1>1, <2>2
  <2>4. id(i) \in Nat \X Nat /\ b(i) \in Nat \X Nat
    <3>1. \A S : \A s \in Seq(S) : \A k \in 1..Len(s) : s[k] \in S
      OBVIOUS
    <3>2. (\A k \in 1..n : ids[k] \in Nat \X Nat) /\ \A k \in 1..m : boards[k] \in Nat \X Nat
      BY <3>1, Zenon DEF n, m
    <3> QED BY <2>3, <3>2
  <2> HIDE DEF id, b
  <2> QED BY <2>4 DEF Board
<1> HIDE DEF id, b, n, m
<1> QED BY <1>1, <1>2, <1>3

LEMMA TreeBoards ==
  ASSUME NEW tree \in Tree
  PROVE  getChipInfo(tree) \in Seq(Board)
<1>1. CASE tree.board = <<>>
  <2> DEFINE s == [i \in DOMAIN tree.msm |-> <<tree.msm[i][1], tree.msm[i][2], 0, tree.msm[i][3]>>]
  <2>1. tree.msm \in Seq(Nat \X Nat \X Nat)
    BY <1>1, DtbAssumption
  <2>2. Len(tree.msm) \in Nat /\ DOMAIN tree.msm = 1..Len(tree.msm)
        /\ \A i \in DOMAIN tree.msm : tree.msm[i] \in Nat \X Nat \X Nat
    BY <2>1
  <2>3. \A i \in DOMAIN tree.msm : <<tree.msm[i][1], tree.msm[i][2], 0, tree.msm[i][3]>> \in Board
    <3> SUFFICES ASSUME NEW x \in Nat \X Nat \X Nat PROVE <<x[1], x[2], 0, x[3]>> \in Board
      BY <2>2
    <3> QED BY DEF Board
  <2>4. s \in Seq(Board)
    BY <2>2, <2>3
  <2>5. getChipInfo(tree) = Linked(s)
    BY <1>1 DEF getChipInfo, GetVersionInfo
  <2> HIDE DEF s
  <2> QED BY <2>4, <2>5, LinkedIs
<1>2. CASE tree.board # <<>>
  <2>1. tree.msm \in Seq(Nat \X Nat) /\ tree.board \in Seq(Nat \X Nat)
    BY <1>2, DtbAssumption
  <2>2. Linked(tree.msm) \in Seq(Nat \X Nat) /\ Linked(tree.board) \in Seq(Nat \X Nat)
    BY <2>1, LinkedIs
  <2>3. Cross(Linked(tree.msm), Linked(tree.board)) \in Seq(Board)
    BY <2>2, CrossIs
  <2>4. getChipInfo(tree) = Linked(Cross(Linked(tree.msm), Linked(tree.board)))
    BY <1>2 DEF getChipInfo, GetVersionInfo
  <2> QED BY <2>3, <2>4, LinkedIs
<1> QED BY <1>1, <1>2

\* Whole pages.
LEMMA Pages ==
  ASSUME NEW n \in Nat
  PROVE  RoundUp(n) \in Nat /\ n < RoundUp(n) /\ RoundUp(n) % page_size = 0
<1> DEFINE p == page_size
           q == n \div p
           r == n % p
<1>1. p \in Nat /\ p > 0
  BY DtbAssumption
<1> HIDE DEF p
<1>2. q \in Int /\ r \in Nat /\ r < p /\ n = p * q + r
  BY <1>1, Z3
<1>3. RoundUp(n) = n + (p - r)
  BY DEF RoundUp, p
<1> HIDE DEF q, r
<1>4. RoundUp(n) = p * (q + 1)
  BY <1>1, <1>2, <1>3, Z3
<1>5. (p * (q + 1)) % p = 0
  BY <1>1, <1>2, Z3
<1> QED BY <1>1, <1>2, <1>3, <1>4, <1>5 DEF p

LEMMA PagesAdd ==
  ASSUME NEW a \in Nat, NEW b \in Nat, a % page_size = 0, b % page_size = 0
  PROVE  (a + b) % page_size = 0
<1> DEFINE p == page_size
           q == a \div p
           r == b \div p
<1>1. p \in Nat /\ p > 0
  BY DtbAssumption
<1>2. a % p = 0 /\ b % p = 0
  OBVIOUS
<1> HIDE DEF p
<1>3. q \in Int /\ r \in Int /\ a = p * q /\ b = p * r
  BY <1>1, <1>2, Z3
<1> HIDE DEF q, r
<1>4. a + b = p * (q + r)
  BY <1>1, <1>3, Z3
<1>5. (p * (q + r)) % p = 0
  BY <1>1, <1>3, Z3
<1> QED BY <1>4, <1>5 DEF p

\* What the table says after each board.
Laid(table, lay) ==
  /\ lay \in [0..Len(table) -> [offset : [FileName -> Nat], expected : Nat]]
  /\ lay[0] = NoPlace(table)
  /\ \A n \in 1..Len(table) :
       lay[n] = IF lay[n - 1].offset[table[n].master] # 0 THEN lay[n - 1]
                ELSE NewPlace(lay[n - 1], table[n])

LEMMA LayoutIs ==
  ASSUME NEW table \in Seq(Chip)
  PROVE  Laid(table, Layout(table))
<1> DEFINE N == Len(table)
           X == [offset : [FileName -> Nat], expected : Nat]
           Then(l, n) == IF l.offset[table[n].master] # 0 THEN l ELSE NewPlace(l, table[n])
           step == [n \in 1..N |-> [l \in X |-> Then(l, n)]]
           Is(g) == g = [n \in 0..N |-> IF n = 0 THEN NoPlace(table) ELSE Then(g[n - 1], n)]
           laid == CHOOSE g : Is(g)
<1>1. Layout(table) = laid
  BY DEF Layout
<1>2. N \in Nat /\ NoPlace(table) \in X
  <2>1. Header(Len(table)) \in Nat
    BY DEF Header
  <2>2. RoundUp(Header(Len(table))) \in Nat
    BY <2>1, Pages
  <2> QED BY <2>2 DEF NoPlace
<1>3. ASSUME NEW l \in X, NEW n \in 1..N PROVE Then(l, n) \in X
  <2>1. table[n] \in Chip
    OBVIOUS
  <2>2. table[n].master \in FileName /\ table[n].dtb_size \in Nat
    BY <2>1 DEF Chip
  <2> QED BY <2>2 DEF NewPlace
<1> HIDE DEF Then, X, N
<1>4. PICK h \in [0..N -> X] : h[0] = NoPlace(table) /\ \A n \in 1..N : h[n] = step[n][h[n - 1]]
  <2>1. \A n \in 1..N : \A l \in X : step[n][l] \in X
    BY <1>3
  <2> HIDE DEF step
  <2>2. Iteration(X, NoPlace(table), N, step) # {}
    BY <1>2, <2>1, Iterates
  <2> QED BY <2>2 DEF Iteration
<1>5. \A n \in 1..N : h[n] = Then(h[n - 1], n)
  <2> SUFFICES ASSUME NEW n \in 1..N PROVE h[n] = Then(h[n - 1], n)
    OBVIOUS
  <2>1. n - 1 \in 0..N
    BY <1>2
  <2>2. h[n - 1] \in X /\ h[n] = step[n][h[n - 1]]
    BY <1>4, <2>1
  <2> QED BY <2>2
<1> HIDE DEF step
<1>6. Is(h)
  <2>1. \A n \in 0..N : h[n] = IF n = 0 THEN NoPlace(table) ELSE Then(h[n - 1], n)
    <3>1. \A n \in 0..N : n = 0 \/ n \in 1..N
      BY <1>2
    <3> QED BY <1>4, <1>5, <3>1
  <2>2. h = [n \in 0..N |-> h[n]]
    BY <1>4
  <2> QED BY <2>1, <2>2
<1>7. Is(laid)
  BY <1>6
<1> HIDE DEF laid
<1>8. DOMAIN laid = 0..N /\ laid[0] = NoPlace(table) /\ \A n \in 1..N : laid[n] = Then(laid[n - 1], n)
  <2>1. 0 \in 0..N /\ \A n \in 1..N : n \in 0..N /\ n # 0
    BY <1>2
  <2> QED BY <1>7, <2>1
<1> HIDE DEF Is
<1>9. \A n \in 0..N : laid[n] \in X
  <2> DEFINE T == {k \in Nat : k <= N => laid[k] \in X}
  <2>1. 0 \in T
    BY <1>2, <1>8
  <2>2. ASSUME NEW k \in Nat, k \in T PROVE k + 1 \in T
    <3> PICK n \in Nat : n = k + 1
      OBVIOUS
    <3> SUFFICES ASSUME n <= N PROVE laid[n] \in X
      OBVIOUS
    <3>1. n \in 1..N /\ n - 1 = k /\ k <= N
      BY <1>2
    <3> QED BY <1>3, <1>8, <2>2, <3>1
  <2> HIDE DEF T
  <2>3. \A n \in 0..N : n \in T
    BY <1>2, <2>1, <2>2, Counting
  <2> QED BY <1>2, <2>3 DEF T
<1>10. laid \in [0..N -> X]
  <2>1. laid = [n \in 0..N |-> laid[n]]
    BY <1>7 DEF Is
  <2> QED BY <1>9, <2>1
<1> QED BY <1>1, <1>8, <1>10 DEF Laid, N, X, Then

\* The files met among the first n boards.
MetFiles(table, n) == {table[i].master : i \in 1..n}

\* Every board with whole pages, each file's the same.
WholePages(table) ==
  /\ table \in Seq(Chip)
  /\ \A i \in DOMAIN table : table[i].dtb_size % page_size = 0
  /\ \A i, j \in DOMAIN table : table[i].master = table[j].master => table[i].dtb_size = table[j].dtb_size

\* The table after n boards has a place for the files met, on a page.
Placed(table, lay, n) ==
  /\ lay[n].expected \in Nat /\ lay[n].expected > 0 /\ lay[n].expected % page_size = 0
  /\ lay[n].offset \in [FileName -> Nat]
  /\ \A f \in FileName : lay[n].offset[f] # 0 <=> f \in MetFiles(table, n)

LEMMA NextPlace ==
  ASSUME NEW table, WholePages(table), NEW lay, Laid(table, lay), NEW n \in 1..Len(table), Placed(table, lay, n - 1)
  PROVE  /\ Placed(table, lay, n) /\ MetFiles(table, n) = MetFiles(table, n - 1) \cup {table[n].master}
         /\ table[n].master \in MetFiles(table, n - 1) => lay[n] = lay[n - 1]
         /\ table[n].master \notin MetFiles(table, n - 1) =>
              /\ lay[n].offset[table[n].master] = lay[n - 1].expected
              /\ lay[n].expected = lay[n - 1].expected + table[n].dtb_size
         /\ \A f \in MetFiles(table, n - 1) : lay[n].offset[f] = lay[n - 1].offset[f]
<1> DEFINE l == lay[n - 1]
           c == table[n]
<1>1. c \in Chip /\ n - 1 \in Nat /\ n - 1 \in 0..Len(table) /\ n \in DOMAIN table
  BY DEF WholePages
<1>2. c.master \in FileName /\ c.dtb_size \in Nat /\ c.dtb_size % page_size = 0
  BY <1>1 DEF WholePages, Chip
<1>3. MetFiles(table, n) = MetFiles(table, n - 1) \cup {c.master}
  <2>1. \A i \in 1..n : i = n \/ i \in 1..(n - 1)
    BY <1>1
  <2>2. n \in 1..n /\ \A i \in 1..(n - 1) : i \in 1..n
    BY <1>1
  <2> QED BY <2>1, <2>2 DEF MetFiles
<1>4. /\ l.expected \in Nat /\ l.expected > 0 /\ l.expected % page_size = 0
      /\ l.offset \in [FileName -> Nat]
      /\ \A f \in FileName : l.offset[f] # 0 <=> f \in MetFiles(table, n - 1)
  BY DEF Placed
<1>5. lay[n] = IF l.offset[c.master] # 0 THEN l ELSE NewPlace(l, c)
  BY DEF Laid
<1>6. CASE c.master \in MetFiles(table, n - 1)
  <2>1. lay[n] = l /\ MetFiles(table, n) = MetFiles(table, n - 1)
    BY <1>2, <1>3, <1>4, <1>5, <1>6
  <2> QED BY <1>3, <1>4, <1>6, <2>1 DEF Placed
<1>7. CASE c.master \notin MetFiles(table, n - 1)
  <2>1. lay[n] = NewPlace(l, c)
    BY <1>2, <1>4, <1>5, <1>7
  <2> HIDE DEF c, l
  <2>2. lay[n].offset = [l.offset EXCEPT ![c.master] = l.expected] /\ lay[n].expected = l.expected + c.dtb_size
    BY <2>1 DEF NewPlace
  <2>3. (l.expected + c.dtb_size) % page_size = 0 /\ l.expected + c.dtb_size > 0 /\ l.expected + c.dtb_size \in Nat
    <3> PICK a \in Nat, b \in Nat : a = l.expected /\ b = c.dtb_size
      BY <1>2, <1>4
    <3>1. a % page_size = 0 /\ b % page_size = 0 /\ a > 0
      BY <1>2, <1>4
    <3>2. (a + b) % page_size = 0
      BY <3>1, PagesAdd
    <3> QED BY <3>1, <3>2
  <2>4. lay[n].offset \in [FileName -> Nat] /\ lay[n].offset[c.master] = l.expected
    BY <1>2, <1>4, <2>2
  <2>5. \A f \in FileName : f # c.master => lay[n].offset[f] = l.offset[f]
    BY <1>4, <2>2
  <2>6. Placed(table, lay, n)
    BY <1>2, <1>3, <1>4, <2>2, <2>3, <2>4, <2>5 DEF Placed
  <2>7. \A f \in MetFiles(table, n - 1) : f \in FileName
    <3>1. \A i \in 1..(n - 1) : table[i] \in Chip
      BY <1>1 DEF WholePages
    <3> QED BY <3>1 DEF MetFiles, Chip
  <2>8. \A f \in MetFiles(table, n - 1) : lay[n].offset[f] = l.offset[f]
    BY <1>7, <2>5, <2>7
  <2> QED BY <1>3, <1>7, <2>2, <2>4, <2>6, <2>8 DEF c, l
<1> QED BY <1>6, <1>7

\* A file keeps the place it is given, and the table grows with new files only.
Tabled(table, lay, n) ==
  /\ Placed(table, lay, n)
  /\ \A k \in 0..n :
       /\ \A f \in MetFiles(table, k) : f \in MetFiles(table, n) /\ lay[n].offset[f] = lay[k].offset[f]
       /\ MetFiles(table, n) \subseteq MetFiles(table, k) => lay[n] = lay[k]

LEMMA LayoutTable ==
  ASSUME NEW table, WholePages(table), NEW lay, Laid(table, lay)
  PROVE  \A n \in 0..Len(table) : Tabled(table, lay, n)
<1> DEFINE T == {n \in Nat : n <= Len(table) => Tabled(table, lay, n)}
<1>1. Len(table) \in Nat /\ table \in Seq(Chip)
  BY DEF WholePages
<1>2. 0 \in T
  <2>1. MetFiles(table, 0) = {}
    BY DEF MetFiles
  <2>2. lay[0].offset = [f \in FileName |-> 0] /\ lay[0].expected = RoundUp(Header(Len(table)))
    BY DEF Laid, NoPlace
  <2>3. Header(Len(table)) \in Nat
    BY <1>1 DEF Header
  <2>4. RoundUp(Header(Len(table))) \in Nat /\ Header(Len(table)) < RoundUp(Header(Len(table)))
        /\ RoundUp(Header(Len(table))) % page_size = 0
    BY <2>3, Pages
  <2>5. Placed(table, lay, 0)
    BY <2>1, <2>2, <2>3, <2>4 DEF Placed
  <2>6. \A k \in 0..0 : k = 0
    OBVIOUS
  <2> QED BY <2>5, <2>6 DEF Tabled
<1>3. ASSUME NEW m \in Nat, m \in T PROVE m + 1 \in T
  <2> PICK n \in Nat : n = m + 1
    OBVIOUS
  <2> SUFFICES ASSUME n <= Len(table) PROVE Tabled(table, lay, n)
    OBVIOUS
  <2>1. n \in 1..Len(table) /\ n - 1 = m /\ m <= Len(table)
    BY <1>1
  <2>2. Tabled(table, lay, m)
    BY <1>3, <2>1
  <2>3. /\ Placed(table, lay, n) /\ MetFiles(table, n) = MetFiles(table, m) \cup {table[n].master}
        /\ table[n].master \in MetFiles(table, m) => lay[n] = lay[m]
        /\ \A f \in MetFiles(table, m) : lay[n].offset[f] = lay[m].offset[f]
    <3>1. Placed(table, lay, n - 1)
      BY <2>1, <2>2 DEF Tabled
    <3> QED BY <2>1, <3>1, NextPlace
  <2>4. ASSUME NEW k \in 0..n
        PROVE  /\ \A f \in MetFiles(table, k) : f \in MetFiles(table, n) /\ lay[n].offset[f] = lay[k].offset[f]
               /\ MetFiles(table, n) \subseteq MetFiles(table, k) => lay[n] = lay[k]
    <3>1. CASE k = n
      BY <3>1
    <3>2. CASE k # n
      <4>1. k \in 0..m
        BY <2>1, <3>2
      <4>2. /\ \A f \in MetFiles(table, k) : f \in MetFiles(table, m) /\ lay[m].offset[f] = lay[k].offset[f]
            /\ MetFiles(table, m) \subseteq MetFiles(table, k) => lay[m] = lay[k]
        BY <2>2, <4>1 DEF Tabled
      <4>3. ASSUME MetFiles(table, n) \subseteq MetFiles(table, k) PROVE lay[n] = lay[k]
        BY <2>3, <4>2, <4>3
      <4> QED BY <2>3, <4>2, <4>3
    <3> QED BY <3>1, <3>2
  <2> QED BY <2>3, <2>4 DEF Tabled
<1> HIDE DEF T
<1>4. \A n \in 0..Len(table) : n \in T
  BY <1>1, <1>2, <1>3, Counting
<1> QED BY <1>1, <1>4 DEF T

\* The tree of a board is in the image, where the table says.
Copied(c, places, copies, end) ==
  \E b \in 1..Len(copies) :
    /\ copies[b].file = c.master /\ copies[b].at = places[c.master]
    /\ copies[b].at % page_size = 0 /\ copies[b].size < c.dtb_size
    /\ copies[b].at + c.dtb_size = IF b = Len(copies) THEN end ELSE copies[b + 1].at

FilesOf(copies) == {copies[i].file : i \in DOMAIN copies}

\* The trees written are those of the first k boards, and end where the next one
\* has its place.
Writing(table, places, all, copies, end) ==
  LET lay == Layout(table)
  IN /\ places = lay[Len(table)].offset /\ all = lay[Len(table)].expected
     /\ copies \in Seq(Block)
     /\ \E k \in 0..Len(table) : FilesOf(copies) = MetFiles(table, k) /\ end = lay[k].expected
     /\ \A i \in DOMAIN table : table[i].master \in FilesOf(copies) => Copied(table[i], places, copies, end)

LEMMA NoneCopied ==
  ASSUME NEW table, WholePages(table), NEW lay, lay = Layout(table)
  PROVE  Writing(table, lay[Len(table)].offset, lay[Len(table)].expected, <<>>, RoundUp(Header(Len(table))))
<1>1. table \in Seq(Chip) /\ 0 \in 0..Len(table)
  BY DEF WholePages
<1>2. lay[0].expected = RoundUp(Header(Len(table)))
  <2>1. Laid(table, lay)
    BY <1>1, LayoutIs
  <2> QED BY <2>1 DEF Laid, NoPlace
<1>3. FilesOf(<<>>) = {} /\ MetFiles(table, 0) = {}
  BY DEF FilesOf, MetFiles
<1>4. \A S : <<>> \in Seq(S)
  OBVIOUS
<1>5. <<>> \in Seq(Block)
  BY <1>4
<1>6. \A i \in DOMAIN table : table[i].master \notin FilesOf(<<>>)
  BY <1>3
<1> QED BY <1>1, <1>2, <1>3, <1>5, <1>6 DEF Writing

LEMMA CopyNext ==
  ASSUME NEW table, WholePages(table), NEW places, NEW all, NEW copies, NEW end, Writing(table, places, all, copies, end),
         NEW i \in DOMAIN table, table[i].master \notin FilesOf(copies),
         \A j \in DOMAIN table : j < i => table[j].master \in FilesOf(copies),
         NEW z \in Nat, z < table[i].dtb_size, NEW t \in Tree,
         NEW block, block = [file |-> table[i].master, tree |-> t, at |-> end, size |-> z]
  PROVE  Writing(table, places, all, Append(copies, block), end + table[i].dtb_size)
<1> DEFINE lay == Layout(table)
           N == Len(table)
           new == Append(copies, block)
           f == table[i].master
           to == end + table[i].dtb_size
<1>1. /\ places = lay[N].offset /\ all = lay[N].expected
      /\ copies \in Seq(Block)
      /\ \A j \in DOMAIN table : table[j].master \in FilesOf(copies) => Copied(table[j], places, copies, end)
  BY DEF Writing
<1>2. PICK k \in 0..N : FilesOf(copies) = MetFiles(table, k) /\ end = lay[k].expected
  BY DEF Writing
<1>3. table \in Seq(Chip) /\ N \in Nat /\ DOMAIN table = 1..N /\ table[i] \in Chip
  BY DEF WholePages
<1>4. Laid(table, lay)
  BY <1>3, LayoutIs
<1>5. \A n \in 0..N : Tabled(table, lay, n)
  BY <1>4, LayoutTable
<1>6. f \in FileName /\ table[i].dtb_size \in Nat
  BY <1>3 DEF Chip
<1> HIDE DEF lay, N, f, new, to
<1>7. k <= i - 1 /\ i - 1 \in 0..N /\ k \in 0..(i - 1) /\ i \in 1..N /\ i \in 0..N
  <2>1. ASSUME i <= k PROVE FALSE
    <3>1. i \in 1..k
      BY <1>3, <2>1
    <3>2. f \in MetFiles(table, k)
      BY <3>1 DEF MetFiles, f
    <3> QED BY <1>2, <3>2 DEF f
  <2> QED BY <1>2, <1>3, <2>1
<1>8. MetFiles(table, i - 1) \subseteq MetFiles(table, k)
  <2>1. \A j \in 1..(i - 1) : table[j].master \in FilesOf(copies)
    BY <1>3
  <2> QED BY <1>2, <2>1 DEF MetFiles
<1>9. lay[i - 1] = lay[k] /\ MetFiles(table, i - 1) = MetFiles(table, k)
  BY <1>5, <1>7, <1>8 DEF Tabled
<1>10. Placed(table, lay, i - 1)
  BY <1>5, <1>7 DEF Tabled
<1>11. end \in Nat /\ end % page_size = 0
  BY <1>2, <1>9, <1>10 DEF Placed
<1>12. /\ MetFiles(table, i) = MetFiles(table, k) \cup {f}
       /\ lay[i].offset[f] = end /\ lay[i].expected = to
  <2>1. f \notin MetFiles(table, i - 1)
    BY <1>2, <1>9 DEF f
  <2> QED BY <1>2, <1>4, <1>7, <1>9, <1>10, <2>1, NextPlace DEF f, to
<1>13. places[f] = end
  <2>1. Tabled(table, lay, N) /\ i \in 0..N /\ N \in 0..N
    BY <1>3, <1>5, <1>7
  <2>2. f \in MetFiles(table, i)
    BY <1>12
  <2> QED BY <1>1, <1>12, <2>1, <2>2 DEF Tabled
<1>14. block \in Block /\ block.file = f /\ block.at = end /\ block.size = z
  BY <1>6, <1>11 DEF f, Block
<1>15. /\ new \in Seq(Block)
       /\ Len(copies) \in Nat /\ Len(new) = Len(copies) + 1 /\ DOMAIN new = 1..(Len(copies) + 1)
       /\ DOMAIN copies = 1..Len(copies)
       /\ new[Len(copies) + 1] = block /\ \A b \in 1..Len(copies) : new[b] = copies[b]
  BY <1>1, <1>14 DEF new
<1>16. FilesOf(new) = FilesOf(copies) \cup {f}
  <2> PICK n \in Nat : n = Len(copies)
    BY <1>15
  <2>1. /\ DOMAIN new = 1..(n + 1) /\ DOMAIN copies = 1..n
        /\ new[n + 1].file = f /\ \A b \in 1..n : new[b] = copies[b]
    BY <1>14, <1>15
  <2>2. n + 1 \in 1..(n + 1) /\ (\A b \in 1..n : b \in 1..(n + 1))
        /\ \A b \in 1..(n + 1) : b = n + 1 \/ b \in 1..n
    OBVIOUS
  <2>3. \A b \in DOMAIN copies : b \in DOMAIN new /\ new[b].file = copies[b].file
    BY <2>1, <2>2
  <2>4. \A b \in DOMAIN new : new[b].file = f \/ \E c \in DOMAIN copies : new[b].file = copies[c].file
    BY <2>1, <2>2
  <2>5. n + 1 \in DOMAIN new
    BY <2>1, <2>2
  <2> QED BY <2>1, <2>3, <2>4, <2>5 DEF FilesOf
<1>17. ASSUME NEW j \in DOMAIN table, table[j].master \in FilesOf(new)
       PROVE  Copied(table[j], places, new, to)
  <2>1. CASE table[j].master = f
    <3>1. table[j].dtb_size = table[i].dtb_size
      BY <2>1 DEF WholePages, f
    <3>2. z < table[j].dtb_size /\ end + table[j].dtb_size = to
      BY <3>1 DEF to
    <3> DEFINE b == Len(copies) + 1
    <3>3. b \in 1..Len(new) /\ b = Len(new) /\ new[b] = block
      BY <1>15
    <3> QED BY <1>11, <1>13, <1>14, <2>1, <3>2, <3>3 DEF Copied
  <2>2. CASE table[j].master # f
    <3>1. Copied(table[j], places, copies, end)
      BY <1>1, <1>16, <1>17, <2>2
    <3>2. PICK b \in 1..Len(copies) :
            /\ copies[b].file = table[j].master /\ copies[b].at = places[table[j].master]
            /\ copies[b].at % page_size = 0 /\ copies[b].size < table[j].dtb_size
            /\ copies[b].at + table[j].dtb_size = IF b = Len(copies) THEN end ELSE copies[b + 1].at
      BY <3>1 DEF Copied
    <3> PICK n \in Nat : n = Len(copies)
      BY <1>15
    <3>5. \A c \in 1..n : new[c] = copies[c]
      BY <1>15
    <3>6. b \in 1..n /\ b # n + 1 /\ b \in 1..(n + 1) /\ (b # n => b + 1 \in 1..n)
      OBVIOUS
    <3>3. new[b] = copies[b] /\ b # Len(new) /\ b \in 1..Len(new) /\ (b # n => new[b + 1] = copies[b + 1])
      BY <1>15, <3>5, <3>6
    <3>4. new[b + 1].at = IF b = Len(copies) THEN end ELSE copies[b + 1].at
      <4>1. new[n + 1].at = end
        BY <1>14, <1>15
      <4> QED BY <3>3, <4>1
    <3> QED BY <3>2, <3>3, <3>4 DEF Copied
  <2> QED BY <2>1, <2>2
<1> QED BY <1>1, <1>2, <1>7, <1>12, <1>15, <1>16, <1>17 DEF Writing, lay, N, new, to

LEMMA AllCopied ==
  ASSUME NEW table, WholePages(table), NEW places, NEW all, NEW copies, NEW end, Writing(table, places, all, copies, end),
         \A j \in DOMAIN table : table[j].master \in FilesOf(copies)
  PROVE  end = all /\ \A j \in DOMAIN table : Copied(table[j], places, copies, end)
<1> DEFINE lay == Layout(table)
           N == Len(table)
<1>1. /\ all = lay[N].expected
      /\ \A j \in DOMAIN table : table[j].master \in FilesOf(copies) => Copied(table[j], places, copies, end)
  BY DEF Writing
<1>2. PICK k \in 0..N : FilesOf(copies) = MetFiles(table, k) /\ end = lay[k].expected
  BY DEF Writing
<1>3. table \in Seq(Chip) /\ N \in Nat /\ DOMAIN table = 1..N
  BY DEF WholePages
<1>4. Laid(table, lay)
  BY <1>3, LayoutIs
<1>5. Tabled(table, lay, N)
  BY <1>3, <1>4, LayoutTable
<1>6. MetFiles(table, N) \subseteq MetFiles(table, k)
  BY <1>2, <1>3 DEF MetFiles
<1> HIDE DEF lay, N
<1>7. lay[N] = lay[k]
  BY <1>2, <1>5, <1>6 DEF Tabled
<1> QED BY <1>1, <1>2, <1>7

\* Each board of each accepted tree goes to the file that had it first.
Wins(table, accepted) ==
  \A n \in 1..Len(accepted) : \A b \in Range(getChipInfo(accepted[n].tree)) :
    \E i \in DOMAIN table : table[i].board = b /\ \E m \in 1..n : table[i].master = accepted[m].file

\* The list of the boards found in the files that have been read.
Found(table, seen, accepted, d, disturbed) ==
  /\ Sorted(table) /\ WholePages(table) /\ Wins(table, accepted)
  /\ \A i \in DOMAIN table :
       table[i].master \in seen /\ \E m \in 1..Len(accepted) : table[i].master = accepted[m].file
  /\ ~disturbed => /\ DOMAIN d = FileName
                   /\ \A i \in DOMAIN table : table[i].dtb_size = RoundUp(d[table[i].master].size)
                   /\ \A n \in 1..Len(accepted) : accepted[n].tree = d[accepted[n].file].tree

\* What is written is what is there.
AsThere(copies, d) == \A b \in 1..Len(copies) : copies[b].tree = d[copies[b].file].tree

DtbInv ==
  /\ DtbTypeOK /\ dir \in [DOMAIN dir -> [tree : Tree, size : Nat]] /\ first \in Seq(Accept)
  /\ blocks \in Seq(Block) /\ offered \in Nat
  /\ Found(chip_list, scanned, first, dir, changed)
  /\ ~changed => AsThere(blocks, dir)
  /\ phase = "scan" => blocks = <<>> /\ offered = 0 /\ lacking = 0
  /\ chip_list = <<>> => rc = "SUCCESS" /\ phase # "write"
  /\ phase = "write" => wrote <= output
  /\ phase = "write" /\ rc = "SUCCESS" => Writing(chip_list, master_offset, expected, blocks, offered)
  /\ phase = "write" /\ rc = "ERROR" => changed
  /\ phase = "done" /\ ~changed /\ lacking = 0 => rc = "SUCCESS"
  /\ phase = "done" /\ rc = "ERROR" => output = 0
  /\ Built => /\ lacking = 0 /\ wrote = expected /\ wrote = offered /\ wrote <= output
              /\ \A i \in DOMAIN chip_list : Copied(chip_list[i], master_offset, blocks, offered)

\* What is given to write() is written, or something is lacking.
LEMMA GivenToWrite ==
  ASSUME DtbTypeOK, offered \in Nat, NEW n \in Nat, WriteOut(n)
  PROVE  /\ offered' = offered + n /\ offered' \in Nat /\ lacking' \in Nat /\ output' \in Nat
         /\ wrote' <= output'
<1>1. offered' = offered + n /\ offered' \in Nat /\ lacking' \in Nat
  BY DEF WriteOut, DtbTypeOK
<1>2. wrote' = offered' - lacking'
  BY DEF wrote
<1>4. wrote' \in Int
  BY <1>1, <1>2
<1> PICK w \in Int : w = wrote'
  BY <1>4
<1>3. output \in Nat /\ output' = IF output < w THEN w ELSE output
  BY DEF WriteOut, DtbTypeOK
<1> QED BY <1>1, <1>3

\* The boards of a file that is accepted.
LEMMA FileAdded ==
  ASSUME DtbInv, NEW f \in DOMAIN dir \ scanned,
         NEW chips, chips = getChipInfo(dir[f].tree), chips # <<>>,
         NEW z, z = RoundUp(dir[f].size),
         NEW more, more = chip_add(chip_list, [board |-> chips[1], master |-> f, dtb_size |-> z]),
         NEW table, table = addRest(more, Tail(chips), f),
         NEW new, new = [file |-> f, tree |-> dir[f].tree]
  PROVE  /\ more # <<>> /\ table # <<>>
         /\ Found(table, scanned \cup {f}, Append(first, new), dir, changed)
<1>1. f \in FileName /\ dir[f].tree \in Tree /\ dir[f].size \in Nat
  BY DEF DtbInv, DtbTypeOK
<1>2. z \in Nat /\ z % page_size = 0
  BY <1>1, Pages
<1>3. chips \in Seq(Board)
  BY <1>1, TreeBoards
<1>4. chips[1] \in Board /\ Tail(chips) \in Seq(Board) /\ Len(chips) > 0
      /\ \A n \in 2..Len(chips) : n - 1 \in 1..Len(Tail(chips)) /\ chips[n] = Tail(chips)[n - 1]
  BY <1>3
<1>5. /\ Found(chip_list, scanned, first, dir, changed) /\ scanned \subseteq FileName
      /\ first \in Seq(Accept) /\ dir \in [DOMAIN dir -> [tree : Tree, size : Nat]]
  BY DEF DtbInv, DtbTypeOK
<1>6. Extended(chip_list, chip_list, f, z)
  BY <1>5 DEF Found, Extended, AllThere
<1>7. Extended(chip_list, more, f, z) /\ Listed(more, chips[1])
  <2> PICK b \in Board : b = chips[1]
    BY <1>4
  <2> PICK c : c = [board |-> b, master |-> f, dtb_size |-> z]
    OBVIOUS
  <2>1. f \in FileName /\ z \in Nat /\ Extended(chip_list, chip_list, f, z)
    BY <1>1, <1>2, <1>6
  <2>2. Extended(chip_list, chip_add(chip_list, c), f, z) /\ Listed(chip_add(chip_list, c), b)
    <3> PICK l : l = chip_list
      OBVIOUS
    <3>1. Extended(l, chip_add(l, c), f, z) /\ Listed(chip_add(l, c), b)
      <4>1. Extended(l, l, f, z)
        BY <2>1
      <4> QED BY <2>1, <4>1, OneMore
    <3> QED BY <3>1
  <2>3. more = chip_add(chip_list, c)
    OBVIOUS
  <2> QED BY <2>2, <2>3
<1>8. /\ Extended(chip_list, table, f, z)
      /\ \A n \in 1..Len(Tail(chips)) : Listed(table, Tail(chips)[n])
      /\ \A d : Listed(more, d) => Listed(table, d)
  <2> PICK rest \in Seq(Board) : rest = Tail(chips)
    BY <1>4
  <2>1. Extended(chip_list, more, f, z) /\ f \in FileName /\ z \in Nat /\ z = RoundUp(dir[f].size)
    BY <1>1, <1>2, <1>7
  <2>2. table = addRest(more, rest, f)
    OBVIOUS
  <2>3. /\ Extended(chip_list, addRest(more, rest, f), f, z)
        /\ \A n \in 1..Len(rest) : Listed(addRest(more, rest, f), rest[n])
        /\ \A d : Listed(more, d) => Listed(addRest(more, rest, f), d)
    BY <2>1, RestAdded
  <2> QED BY <2>2, <2>3
<1>9. \A b \in Range(chips) : Listed(table, b)
  <2>1. \A n \in 1..Len(chips) : n = 1 \/ n \in 2..Len(chips)
    BY <1>3
  <2>2. \A n \in 1..Len(chips) : Listed(table, chips[n])
    BY <1>4, <1>7, <1>8, <2>1
  <2> QED BY <1>3, <2>2 DEF Range
<1>10. more # <<>> /\ table # <<>>
  <2>1. \A b : ~Listed(<<>>, b)
    BY DEF Listed
  <2>2. Listed(more, chips[1]) /\ Listed(table, chips[1])
    BY <1>7, <1>8
  <2> QED BY <2>1, <2>2
<1>11. Sorted(table) /\ AllThere(chip_list, table)
       /\ \A j \in DOMAIN table : (table[j].master = f /\ table[j].dtb_size = z) \/ \E i \in DOMAIN chip_list : table[j] = chip_list[i]
  BY <1>8 DEF Extended
<1>12. \A i \in DOMAIN chip_list : chip_list[i].master \in scanned /\ chip_list[i].master # f
  BY <1>5 DEF Found
<1>13. WholePages(table)
  <2>1. table \in Seq(Chip)
    BY <1>11 DEF Sorted
  <2>2. \A i \in DOMAIN table : table[i].dtb_size % page_size = 0
    BY <1>2, <1>5, <1>11 DEF Found, WholePages
  <2>3. ASSUME NEW i \in DOMAIN table, NEW j \in DOMAIN table, table[i].master = table[j].master
        PROVE  table[i].dtb_size = table[j].dtb_size
    <3>1. CASE table[i].master = f
      BY <1>11, <1>12, <2>3, <3>1
    <3>2. CASE table[i].master # f
      <4>1. PICK m \in DOMAIN chip_list : table[i] = chip_list[m]
        BY <1>11, <3>2
      <4>2. PICK n \in DOMAIN chip_list : table[j] = chip_list[n]
        BY <1>11, <2>3, <3>2
      <4> QED BY <1>5, <2>3, <4>1, <4>2 DEF Found, WholePages
    <3> QED BY <3>1, <3>2
  <2> QED BY <2>1, <2>2, <2>3 DEF WholePages
<1> DEFINE accepted == Append(first, new)
<1>14. /\ Len(first) \in Nat /\ Len(accepted) = Len(first) + 1 /\ accepted[Len(first) + 1] = new
       /\ \A n \in 1..Len(first) : accepted[n] = first[n]
       /\ new.file = f /\ new.tree = dir[f].tree
  <2>1. new \in Accept
    BY <1>1 DEF Accept
  <2> QED BY <1>5, <2>1
<1> HIDE DEF accepted
<1>15. ASSUME NEW i \in DOMAIN table
       PROVE  table[i].master \in scanned \cup {f} /\ \E m \in 1..Len(accepted) : table[i].master = accepted[m].file
  <2>1. CASE table[i].master = f
    BY <1>14, <2>1
  <2>2. CASE table[i].master # f
    <3>1. PICK j \in DOMAIN chip_list : table[i] = chip_list[j]
      BY <1>11, <2>2
    <3>2. PICK m \in 1..Len(first) : chip_list[j].master = first[m].file
      BY <1>5 DEF Found
    <3> QED BY <1>12, <1>14, <3>1, <3>2
  <2> QED BY <2>1, <2>2
<1>16. Wins(table, accepted)
  <2> SUFFICES ASSUME NEW n \in 1..Len(accepted), NEW b \in Range(getChipInfo(accepted[n].tree))
               PROVE  \E i \in DOMAIN table : table[i].board = b /\ \E m \in 1..n : table[i].master = accepted[m].file
    BY DEF Wins
  <2>1. CASE n = Len(first) + 1
    <3>1. b \in Range(chips)
      BY <1>14, <2>1
    <3>2. PICK i \in DOMAIN table : table[i].board = b
      BY <1>9, <3>1 DEF Listed
    <3> QED BY <1>14, <1>15, <2>1, <3>2
  <2>2. CASE n # Len(first) + 1
    <3>1. n \in 1..Len(first) /\ accepted[n] = first[n]
      BY <1>14, <2>2
    <3>2. PICK i \in DOMAIN chip_list : chip_list[i].board = b /\ \E m \in 1..n : chip_list[i].master = first[m].file
      <4>1. Wins(chip_list, first)
        BY <1>5 DEF Found
      <4>2. n \in 1..Len(first) /\ b \in Range(getChipInfo(first[n].tree))
        BY <3>1
      <4> QED BY <4>1, <4>2, Zenon DEF Wins
    <3>3. PICK j \in DOMAIN table : table[j] = chip_list[i]
      BY <1>11 DEF AllThere
    <3>4. \A m \in 1..n : m \in 1..Len(first)
      BY <1>14, <3>1
    <3> QED BY <1>14, <3>2, <3>3, <3>4
  <2> QED BY <2>1, <2>2
<1>17. ~changed => /\ DOMAIN dir = FileName
                   /\ \A i \in DOMAIN table : table[i].dtb_size = RoundUp(dir[table[i].master].size)
                   /\ \A n \in 1..Len(accepted) : accepted[n].tree = dir[accepted[n].file].tree
  <2> SUFFICES ASSUME ~changed
               PROVE  /\ DOMAIN dir = FileName
                      /\ \A i \in DOMAIN table : table[i].dtb_size = RoundUp(dir[table[i].master].size)
                      /\ \A n \in 1..Len(accepted) : accepted[n].tree = dir[accepted[n].file].tree
    OBVIOUS
  <2>1. /\ DOMAIN dir = FileName
        /\ \A i \in DOMAIN chip_list : chip_list[i].dtb_size = RoundUp(dir[chip_list[i].master].size)
        /\ \A n \in 1..Len(first) : first[n].tree = dir[first[n].file].tree
    BY <1>5 DEF Found
  <2>2. \A i \in DOMAIN table : table[i].dtb_size = RoundUp(dir[table[i].master].size)
    BY <1>11, <2>1
  <2>3. \A n \in 1..Len(accepted) : n = Len(first) + 1 \/ n \in 1..Len(first)
    BY <1>14
  <2>4. \A n \in 1..Len(accepted) : accepted[n].tree = dir[accepted[n].file].tree
    BY <1>14, <2>1, <2>3
  <2> QED BY <2>1, <2>2, <2>4
<1> QED BY <1>10, <1>11, <1>13, <1>15, <1>16, <1>17 DEF Found, accepted

LEMMA DtbScan == DtbInv /\ (\E f \in FileName : Scan(f)) => DtbInv'
<1> SUFFICES ASSUME DtbInv, NEW f \in FileName, Scan(f) PROVE DtbInv'
  OBVIOUS
<1> DEFINE chips == getChipInfo(dir[f].tree)
           z == RoundUp(dir[f].size)
           more == chip_add(chip_list, [board |-> chips[1], master |-> f, dtb_size |-> z])
           table == addRest(more, Tail(chips), f)
           new == [file |-> f, tree |-> dir[f].tree]
<1>1. /\ phase = "scan" /\ f \in DOMAIN dir \ scanned /\ scanned' = scanned \cup {f}
      /\ UNCHANGED <<dir, phase, master_offset, expected, blocks, offered, lacking, output, changed>>
      /\ \/ UNCHANGED <<chip_list, rc, first>>
         \/ chips # <<>> /\ more = chip_list /\ rc' = "ERROR" /\ UNCHANGED <<chip_list, first>>
         \/ chips # <<>> /\ chip_list' = table /\ rc' \in {"SUCCESS", "ERROR"} /\ first' = Append(first, new)
  BY DEF Scan, image
<1>2. chips # <<>> =>
        /\ more # <<>> /\ table # <<>>
        /\ Found(table, scanned \cup {f}, Append(first, new), dir, changed)
  <2> HIDE DEF chips, z, more, table, new
  <2>1. f \in DOMAIN dir \ scanned
    BY <1>1
  <2> QED BY <2>1, FileAdded DEF chips, z, more, table, new
<1>3. /\ blocks = <<>> /\ dir \in [DOMAIN dir -> [tree : Tree, size : Nat]] /\ first \in Seq(Accept)
      /\ Found(chip_list, scanned, first, dir, changed) /\ scanned \subseteq FileName /\ DOMAIN dir \subseteq FileName
      /\ rc \in {"SUCCESS", "ERROR"} /\ lacking \in Nat /\ output \in Nat /\ offered = 0 /\ lacking = 0
      /\ (chip_list = <<>> => rc = "SUCCESS" /\ phase # "write")
      /\ blocks \in Seq(Block) /\ offered \in Nat /\ (~changed => AsThere(blocks, dir))
  BY <1>1 DEF DtbInv, DtbTypeOK
<1>7. new \in Accept
  BY <1>1, <1>3 DEF Accept
<1> HIDE DEF chips, z, more, table, new
<1>4. Found(chip_list', scanned', first', dir', changed') /\ first' \in Seq(Accept)
      /\ (chip_list' = <<>> => rc' = "SUCCESS") /\ rc' \in {"SUCCESS", "ERROR"}
  <2>1. CASE chip_list' = chip_list /\ first' = first
    <3>1. Found(chip_list, scanned \cup {f}, first, dir, changed)
      BY <1>3 DEF Found
    <3> QED BY <1>1, <1>2, <1>3, <2>1, <3>1
  <2>2. CASE chips # <<>> /\ chip_list' = table /\ rc' \in {"SUCCESS", "ERROR"} /\ first' = Append(first, new)
    BY <1>1, <1>2, <1>3, <1>7, <2>2
  <2> QED BY <1>1, <2>1, <2>2
<1>5. \A i \in DOMAIN chip_list' : chip_list'[i].master \in FileName
  BY <1>1, <1>3, <1>4 DEF Found
<1>6. /\ phase' = "scan" /\ blocks' = <<>> /\ dir' = dir /\ scanned' \subseteq FileName
      /\ DOMAIN dir' \subseteq FileName /\ blocks' = blocks /\ offered' = 0 /\ lacking' = 0 /\ output' = output
      /\ changed' = changed
  BY <1>1, <1>3
<1>8. DtbTypeOK'
  BY <1>3, <1>4, <1>5, <1>6 DEF DtbTypeOK
<1>9. blocks' \in Seq(Block) /\ offered' \in Nat /\ (~changed' => AsThere(blocks', dir'))
  BY <1>3, <1>6
<1>10. dir' \in [DOMAIN dir' -> [tree : Tree, size : Nat]]
  BY <1>3, <1>6
<1> QED BY <1>4, <1>6, <1>8, <1>9, <1>10 DEF DtbInv, Built

LEMMA DtbDisturb == DtbInv /\ (\E f \in FileName : Disturb(f)) => DtbInv'
<1> SUFFICES ASSUME DtbInv, NEW f \in FileName, Disturb(f) PROVE DtbInv'
  OBVIOUS
<1>1. /\ phase # "done" /\ f \in DOMAIN dir /\ changed' = TRUE
      /\ UNCHANGED <<scanned, chip_list, phase, master_offset, expected, blocks, offered, lacking, output, rc, first>>
      /\ \/ \E tree \in Tree, size \in Size : dir' = [dir EXCEPT ![f] = [tree |-> tree, size |-> size]]
         \/ dir' = [g \in DOMAIN dir \ {f} |-> dir[g]]
  BY DEF Disturb, image
<1>2. dir \in [DOMAIN dir -> [tree : Tree, size : Nat]] /\ DOMAIN dir \subseteq FileName
  BY DEF DtbInv, DtbTypeOK
<1>3. DOMAIN dir' \subseteq DOMAIN dir /\ dir' \in [DOMAIN dir' -> [tree : Tree, size : Nat]]
  <2>1. CASE \E tree \in Tree, size \in Size : dir' = [dir EXCEPT ![f] = [tree |-> tree, size |-> size]]
    <3>1. PICK tree \in Tree, size \in Size : dir' = [dir EXCEPT ![f] = [tree |-> tree, size |-> size]]
      BY <2>1
    <3>2. size \in Nat
      BY DtbAssumption
    <3> QED BY <1>1, <1>2, <3>1, <3>2
  <2>2. CASE dir' = [g \in DOMAIN dir \ {f} |-> dir[g]]
    BY <1>2, <2>2
  <2> QED BY <1>1, <2>1, <2>2
<1>4. Found(chip_list, scanned, first, dir', TRUE)
  BY DEF DtbInv, Found
<1>5. UNCHANGED wrote
  BY <1>1 DEF wrote
<1>6. Found(chip_list, scanned, first, dir, changed)'
  BY <1>1, <1>4
<1> QED BY <1>1, <1>2, <1>3, <1>5, <1>6 DEF DtbInv, DtbTypeOK, Built

LEMMA DtbWriteTable == DtbInv /\ WriteTable => DtbInv'
<1> SUFFICES ASSUME DtbInv, WriteTable PROVE DtbInv'
  OBVIOUS
<1>1. phase = "scan" /\ UNCHANGED <<dir, scanned, chip_list, blocks, changed, first>>
  BY DEF WriteTable
<1>2. CASE chip_list = <<>>
  <2>1. phase' = "done" /\ UNCHANGED <<master_offset, expected, offered, lacking, output, rc>>
    BY <1>2 DEF WriteTable
  <2> QED BY <1>1, <1>2, <2>1 DEF DtbInv, DtbTypeOK, Built
<1>3. CASE chip_list # <<>>
  <2> DEFINE n == RoundUp(Header(Len(chip_list)))
  <2>1. WholePages(chip_list) /\ blocks = <<>> /\ offered = 0 /\ DtbTypeOK
    BY <1>1 DEF DtbInv, Found
  <2>2. /\ phase' = "write" /\ rc' = "SUCCESS" /\ WriteOut(n)
        /\ master_offset' = Layout(chip_list)[Len(chip_list)].offset
        /\ expected' = Layout(chip_list)[Len(chip_list)].expected
    BY <1>3 DEF WriteTable
  <2>3. n \in Nat
    <3>1. Header(Len(chip_list)) \in Nat
      BY <2>1 DEF WholePages, Header
    <3> QED BY <3>1, Pages
  <2> HIDE DEF n
  <2>4. offered' = n /\ lacking' \in Nat /\ output' \in Nat /\ wrote' <= output'
    BY <2>1, <2>2, <2>3, GivenToWrite
  <2>5. Writing(chip_list, master_offset', expected', blocks, offered')
    <3> PICK lay : lay = Layout(chip_list)
      OBVIOUS
    <3>1. Writing(chip_list, lay[Len(chip_list)].offset, lay[Len(chip_list)].expected, <<>>,
                  RoundUp(Header(Len(chip_list))))
      BY <2>1, NoneCopied
    <3> QED BY <2>1, <2>2, <2>4, <3>1 DEF n
  <2>6. Writing(chip_list, master_offset, expected, blocks, offered)'
    BY <1>1, <2>5
  <2> QED BY <1>1, <1>3, <2>1, <2>2, <2>3, <2>4, <2>6 DEF DtbInv, DtbTypeOK, Built
<1> QED BY <1>2, <1>3

LEMMA DtbWriteDtb == DtbInv /\ WriteDtb => DtbInv'
<1> SUFFICES ASSUME DtbInv, WriteDtb PROVE DtbInv'
  OBVIOUS
<1> DEFINE i == CHOOSE x \in Unwritten : \A y \in Unwritten : x <= y
           f == chip_list[i].master
           block == [file |-> f, tree |-> dir[f].tree, at |-> offered, size |-> dir[f].size]
<1>1. /\ phase = "write" /\ Unwritten # {} /\ rc = "SUCCESS"
      /\ UNCHANGED <<dir, scanned, chip_list, phase, master_offset, expected, changed, first>>
      /\ \/ /\ f \notin DOMAIN dir /\ rc' = "ERROR" /\ UNCHANGED <<blocks, offered, lacking, output>>
         \/ /\ f \in DOMAIN dir /\ RoundUp(dir[f].size) # chip_list[i].dtb_size /\ rc' = "ERROR"
            /\ blocks' = Append(blocks, block) /\ WriteOut(dir[f].size)
         \/ /\ f \in DOMAIN dir /\ RoundUp(dir[f].size) = chip_list[i].dtb_size /\ rc' = rc
            /\ blocks' = Append(blocks, block) /\ WriteOut(chip_list[i].dtb_size)
  BY DEF WriteDtb, image
<1>2. /\ WholePages(chip_list) /\ chip_list # <<>> /\ DtbTypeOK /\ offered \in Nat /\ blocks \in Seq(Block)
      /\ Writing(chip_list, master_offset, expected, blocks, offered)
      /\ dir \in [DOMAIN dir -> [tree : Tree, size : Nat]] /\ wrote <= output
      /\ ~changed => AsThere(blocks, dir)
      /\ ~changed => /\ DOMAIN dir = FileName
                     /\ \A j \in DOMAIN chip_list : chip_list[j].dtb_size = RoundUp(dir[chip_list[j].master].size)
  BY <1>1 DEF DtbInv, Found
<1>3. i \in Unwritten /\ \A y \in Unwritten : i <= y
  <2>1. Unwritten \subseteq Nat /\ Unwritten # {}
    <3> HIDE DEF i, f, block
    <3>1. \A S : \A s \in Seq(S) : DOMAIN s \subseteq Nat
      OBVIOUS
    <3>2. DOMAIN chip_list \subseteq Nat
      BY <1>2, <3>1, Zenon DEF WholePages
    <3> QED BY <1>1, <3>2 DEF Unwritten
  <2>2. PICK x \in Unwritten : \A y \in Unwritten : ~(y < x)
    BY <2>1, LeastOne
  <2>3. \A y \in Unwritten : x <= y
    BY <2>1, <2>2
  <2> QED BY <2>3
<1>4. wroteDtb = FilesOf(blocks)
  BY DEF wroteDtb, FilesOf
<1> HIDE DEF i
<1>5. /\ i \in DOMAIN chip_list /\ f \notin FilesOf(blocks)
      /\ \A j \in DOMAIN chip_list : j < i => chip_list[j].master \in FilesOf(blocks)
  <2>1. \A j \in DOMAIN chip_list : j \in Nat
    BY <1>2 DEF WholePages
  <2>2. i \in DOMAIN chip_list /\ f \notin FilesOf(blocks)
    BY <1>3, <1>4 DEF Unwritten
  <2>3. \A j \in DOMAIN chip_list : j < i => ~(i <= j)
    BY <2>1, <2>2
  <2> QED BY <1>3, <1>4, <2>2, <2>3 DEF Unwritten
<1>6. f \in FileName /\ chip_list[i].dtb_size \in Nat
  <2>1. chip_list \in Seq(Chip)
    BY <1>2 DEF WholePages
  <2>2. chip_list[i] \in Chip
    BY <1>5, <2>1
  <2> QED BY <2>2 DEF Chip
<1>7. ASSUME f \in DOMAIN dir
      PROVE  /\ Append(blocks, block) \in Seq(Block) /\ block \in Block
             /\ ~changed => AsThere(Append(blocks, block), dir)
  <2>1. block \in Block /\ block.file = f /\ block.tree = dir[f].tree
    BY <1>2, <1>6, <1>7 DEF Block
  <2> HIDE DEF block, f
  <2> PICK more : more = Append(blocks, block)
    OBVIOUS
  <2> PICK n \in Nat : n = Len(blocks)
    BY <1>2
  <2>2. more \in Seq(Block) /\ Len(more) = n + 1 /\ more[n + 1] = block /\ \A b \in 1..n : more[b] = blocks[b]
    BY <1>2, <2>1
  <2>3. \A b \in 1..(n + 1) : b = n + 1 \/ b \in 1..n
    OBVIOUS
  <2>4. ~changed => AsThere(more, dir)
    BY <1>2, <2>1, <2>2, <2>3 DEF AsThere
  <2> QED BY <2>1, <2>2, <2>4
<1>8. /\ blocks' \in Seq(Block) /\ (~changed' => AsThere(blocks', dir')) /\ rc' \in {"SUCCESS", "ERROR"}
      /\ offered' \in Nat /\ lacking' \in Nat /\ output' \in Nat /\ wrote' <= output'
  <2> HIDE DEF f, block
  <2>1. CASE f \notin DOMAIN dir /\ rc' = "ERROR" /\ UNCHANGED <<blocks, offered, lacking, output>>
    <3>1. wrote' = wrote
      BY <2>1 DEF wrote
    <3> QED BY <1>1, <1>2, <2>1, <3>1 DEF DtbTypeOK
  <2>2. ASSUME NEW n \in Nat, f \in DOMAIN dir, blocks' = Append(blocks, block), WriteOut(n),
               rc' \in {"SUCCESS", "ERROR"}
        PROVE  /\ blocks' \in Seq(Block) /\ (~changed' => AsThere(blocks', dir')) /\ rc' \in {"SUCCESS", "ERROR"}
               /\ offered' \in Nat /\ lacking' \in Nat /\ output' \in Nat /\ wrote' <= output'
    <3>1. offered' \in Nat /\ lacking' \in Nat /\ output' \in Nat /\ wrote' <= output'
      BY <1>2, <2>2, GivenToWrite
    <3> QED BY <1>1, <1>7, <2>2, <3>1
  <2>3. f \in DOMAIN dir => dir[f].size \in Nat
    BY <1>2
  <2> QED BY <1>1, <1>6, <2>1, <2>2, <2>3 DEF f
<1>9. CASE rc' = "ERROR"
  <2>1. changed
    BY <1>1, <1>2, <1>5, <1>6, <1>9
  <2> HIDE DEF f, block
  <2> QED BY <1>1, <1>2, <1>8, <1>9, <2>1 DEF DtbInv, DtbTypeOK, Built
<1>10. CASE rc' # "ERROR"
  <2>1. /\ f \in DOMAIN dir /\ RoundUp(dir[f].size) = chip_list[i].dtb_size /\ rc' = rc
        /\ blocks' = Append(blocks, block) /\ WriteOut(chip_list[i].dtb_size)
    BY <1>1, <1>10
  <2>2. dir[f].size \in Nat /\ dir[f].tree \in Tree /\ dir[f].size < chip_list[i].dtb_size
    <3>1. dir[f].size \in Nat /\ dir[f].tree \in Tree
      BY <1>2, <2>1
    <3> QED BY <2>1, <3>1, Pages
  <2>3. offered' = offered + chip_list[i].dtb_size
    BY <2>1 DEF WriteOut
  <2>4. Writing(chip_list, master_offset, expected, blocks', offered')
    <3> PICK size \in Nat : size = dir[f].size
      BY <2>2
    <3> PICK t \in Tree : t = dir[f].tree
      BY <2>2
    <3> PICK c : c = block
      OBVIOUS
    <3>1. /\ size < chip_list[i].dtb_size
          /\ c = [file |-> chip_list[i].master, tree |-> t, at |-> offered, size |-> size]
      BY <2>2
    <3>2. Writing(chip_list, master_offset, expected, Append(blocks, c), offered + chip_list[i].dtb_size)
      BY <1>2, <1>5, <3>1, CopyNext
    <3> QED BY <2>1, <2>3, <3>2
  <2> HIDE DEF f, block
  <2>5. Writing(chip_list, master_offset, expected, blocks, offered)'
    BY <1>1, <2>4
  <2> QED BY <1>1, <1>2, <1>8, <1>10, <2>5 DEF DtbInv, DtbTypeOK, Built
<1> QED BY <1>9, <1>10

LEMMA DtbFinish == DtbInv /\ CloseOutput => DtbInv'
<1> SUFFICES ASSUME DtbInv, CloseOutput PROVE DtbInv'
  OBVIOUS
<1>1. /\ phase = "write" /\ phase' = "done" /\ (Unwritten = {} \/ rc = "ERROR")
      /\ rc' = IF expected # wrote THEN "ERROR" ELSE rc
      /\ output' = IF rc' = "ERROR" THEN 0 ELSE output
      /\ UNCHANGED <<dir, scanned, chip_list, master_offset, blocks, expected, offered, lacking, changed, first>>
      /\ wrote' = wrote
  BY DEF CloseOutput, wrote
<1>2. /\ chip_list # <<>> /\ rc \in {"SUCCESS", "ERROR"} /\ offered \in Nat /\ lacking \in Nat /\ output \in Nat
      /\ wrote <= output
  BY <1>1 DEF DtbInv, DtbTypeOK
<1>3. CASE rc = "SUCCESS"
  <2>1. WholePages(chip_list) /\ Writing(chip_list, master_offset, expected, blocks, offered)
    BY <1>1, <1>3 DEF DtbInv, Found
  <2>2. \A j \in DOMAIN chip_list : chip_list[j].master \in FilesOf(blocks)
    BY <1>1, <1>3 DEF Unwritten, wroteDtb, FilesOf
  <2>3. offered = expected /\ \A j \in DOMAIN chip_list : Copied(chip_list[j], master_offset, blocks, offered)
    BY <2>1, <2>2, AllCopied
  <2>4. rc' = (IF lacking = 0 THEN "SUCCESS" ELSE "ERROR") /\ (lacking = 0 => wrote = offered)
    BY <1>1, <1>2, <1>3, <2>3 DEF wrote
  <2>5. \A j \in DOMAIN chip_list' : Copied(chip_list'[j], master_offset', blocks', offered')
    BY <1>1, <2>3
  <2> QED BY <1>1, <1>2, <2>3, <2>4, <2>5 DEF DtbInv, DtbTypeOK, Built
<1>4. CASE rc = "ERROR"
  <2>1. rc' = "ERROR" /\ changed
    BY <1>1, <1>4 DEF DtbInv
  <2> QED BY <1>1, <1>2, <2>1 DEF DtbInv, DtbTypeOK, Built
<1> QED BY <1>2, <1>3, <1>4

\* An image that is kept is bootable as far as the directory was left alone,
\* and its table gives a board to the file that was read first.
THEOREM DtbTableIsRight == DtbSpec => [](DtbTypeOK /\ DtbTable)
<1>1. DtbInit => DtbInv
  <2> SUFFICES ASSUME DtbInit PROVE DtbInv
    OBVIOUS
  <2>1. dir \in [FileName -> [tree : Tree, size : Nat]] /\ DOMAIN dir = FileName /\ output \in Nat
    BY DtbAssumption DEF DtbInit
  <2>2. Found(<<>>, {}, <<>>, dir, FALSE)
    BY <2>1 DEF Found, Sorted, WholePages, Wins
  <2>3. \A S : <<>> \in Seq(S)
    OBVIOUS
  <2>4. /\ chip_list = <<>> /\ scanned = {} /\ first = <<>> /\ changed = FALSE
        /\ phase = "scan" /\ rc = "SUCCESS" /\ blocks = <<>> /\ offered = 0 /\ lacking = 0
    BY DEF DtbInit
  <2>5. Found(chip_list, scanned, first, dir, changed) /\ first \in Seq(Accept) /\ blocks \in Seq(Block)
    BY <2>2, <2>3, <2>4
  <2>6. DtbTypeOK
    BY <2>1, <2>4 DEF DtbTypeOK
  <2>7. ~Built
    BY <2>4 DEF Built
  <2>8. AsThere(blocks, dir)
    BY <2>4 DEF AsThere
  <2> QED BY <2>1, <2>4, <2>5, <2>6, <2>7, <2>8 DEF DtbInv
<1>2. DtbInv /\ [DtbNext]_dtbVars => DtbInv'
  <2>1. DtbInv /\ UNCHANGED dtbVars => DtbInv'
    BY DEF dtbVars, DtbInv, DtbTypeOK, Built, wrote
  <2> QED BY <2>1, DtbScan, DtbDisturb, DtbWriteTable, DtbWriteDtb, DtbFinish DEF DtbNext
<1>3. DtbInv => DtbTypeOK /\ DtbTable
  <2> SUFFICES ASSUME DtbInv PROVE DtbTypeOK /\ DtbTable
    OBVIOUS
  <2>1. FirstWins
    <3>1. Wins(chip_list, first)
      BY DEF DtbInv, Found
    <3> QED BY <3>1 DEF Wins, FirstWins
  <2>2. ASSUME Built, NEW i \in DOMAIN chip_list
        PROVE  \E b \in 1..Len(blocks) :
                 /\ blocks[b].file = chip_list[i].master
                 /\ ~changed => \E n \in DOMAIN first : /\ first[n].file = blocks[b].file
                                                      /\ first[n].tree = blocks[b].tree
                 /\ blocks[b].at = master_offset[chip_list[i].master]
                 /\ blocks[b].at % page_size = 0
                 /\ blocks[b].size < chip_list[i].dtb_size
                 /\ blocks[b].at + chip_list[i].dtb_size
                      = IF b = Len(blocks) THEN wrote ELSE blocks[b + 1].at
    <3>1. Copied(chip_list[i], master_offset, blocks, offered) /\ wrote = offered
      BY <2>2 DEF DtbInv
    <3>2. PICK b \in 1..Len(blocks) :
            /\ blocks[b].file = chip_list[i].master /\ blocks[b].at = master_offset[chip_list[i].master]
            /\ blocks[b].at % page_size = 0 /\ blocks[b].size < chip_list[i].dtb_size
            /\ blocks[b].at + chip_list[i].dtb_size = IF b = Len(blocks) THEN offered ELSE blocks[b + 1].at
      BY <3>1 DEF Copied
    <3>3. ASSUME ~changed
          PROVE  \E n \in DOMAIN first : first[n].file = blocks[b].file /\ first[n].tree = blocks[b].tree
      <4>1. /\ \A n \in 1..Len(first) : first[n].tree = dir[first[n].file].tree
            /\ \E m \in 1..Len(first) : chip_list[i].master = first[m].file
            /\ AsThere(blocks, dir) /\ first \in Seq(Accept)
        BY <3>3 DEF DtbInv, Found
      <4>2. blocks[b].tree = dir[blocks[b].file].tree
        BY <4>1 DEF AsThere
      <4>3. DOMAIN first = 1..Len(first)
        BY <4>1
      <4> QED BY <3>2, <4>1, <4>2, <4>3
    <3> QED BY <3>1, <3>2, <3>3
  <2>3. Bootable
    <3>1. \A i, j \in DOMAIN chip_list : i < j => Before(chip_list[i].board, chip_list[j].board)
      BY DEF DtbInv, Found, Sorted
    <3>2. /\ phase = "done" /\ ~changed /\ lacking = 0 => rc = "SUCCESS"
          /\ phase = "done" /\ rc = "ERROR" => output = 0
      BY DEF DtbInv
    <3>3. Built => lacking = 0 /\ wrote = expected /\ wrote <= output
      BY DEF DtbInv
    <3> QED BY <2>2, <3>1, <3>2, <3>3 DEF Bootable
  <2> QED BY <2>1, <2>3 DEF DtbInv, DtbTable
<1> QED BY <1>1, <1>2, <1>3, PTL DEF DtbSpec
=============================================================================
