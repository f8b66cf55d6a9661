--------------------------- MODULE CameraWrapper ---------------------------
(***************************************************************************)
(* camerawrapper/CameraWrapper.cpp: the camera HAL in front of the         *)
(* vendor's.  It rewrites the parameters that pass through it and keeps    *)
(* the string it last handed to the vendor for each camera in              *)
(* fixed_set_params, an array that every open allocates anew, and then     *)
(* clears, and whose strings every close frees.  Opens and closes hold     *)
(* gCameraWrapperLock; setting parameters takes no lock, so it meets the   *)
(* array before it is cleared, or after another camera's close freed its   *)
(* strings.  The other calls go to the vendor as they are.                 *)
(***************************************************************************)
EXTENDS Integers, FiniteSets

CONSTANTS Camera,        \* the ids the vendor has: 0 is the back camera, 1 the front one
          Setting,       \* the parameters an application sends; those of a recording have
                         \* a video size, which the code compares without looking
          Text,          \* the texts that are values of a parameter
          MaxStrings     \* bound: strings allocated at once

VARIABLES
  gVendorModule,     \* the vendor's module is loaded
  devices,           \* the camera_devices that are open, by id
  opening,           \* the id whose open holds the lock, if one does
  fixing,            \* cameras whose old string is freed and new one not yet kept
  fixed_set_params,  \* the string of each camera in the newest array, 0 if none
  strings,           \* the strings that are allocated, by address: their camera
  torn,              \* ghost: what was freed was no allocated string
  clashed,           \* history: a camera was closed while another was open, or
                     \* parameters were set while one was being opened
  vendor,            \* what the vendor's camera was last set to, NoSettings before
  out                \* strings of get_parameters that the application has to return

camVars == <<gVendorModule, devices, opening, fixing, fixed_set_params, strings, torn, clashed,
             vendor, out>>

NoString == 0
NoSettings == [hint |-> FALSE, shutter |-> "none", exposure |-> "none", flash |-> "none",
               video |-> "none", preview |-> "none", format |-> "none", app |-> FALSE]
Parameters == [hint : BOOLEAN, shutter : Text, exposure : Text, flash : Text,
               video : Text, preview : Text, format : Text, app : BOOLEAN]
String == 1..MaxStrings
Wild   == MaxStrings + 1       \* what memory that is not cleared holds
NoArray == <<>>
Cleared == [c \in Camera |-> NoString]

ASSUME CameraAssumption == /\ MaxStrings \in Nat /\ Setting \subseteq Parameters
                           /\ {"none", "0", "off", "nv12-venus"} \subseteq Text

CameraInit ==
  /\ gVendorModule = FALSE /\ devices = {}
  /\ opening = {} /\ fixing = {} /\ clashed = FALSE
  /\ fixed_set_params = NoArray /\ strings = {} /\ torn = FALSE
  /\ vendor = [c \in Camera |-> NoSettings]
  /\ out = {}

\* Loaded once, by whichever call comes first; it may be missing.
check_vendor_module == gVendorModule' \in {gVendorModule, TRUE}

\* Under the lock.  The array is new even if the camera is then refused, and
\* holds what its memory held ...
camera_device_open(id) ==
  /\ opening = {} /\ check_vendor_module
  /\ IF ~gVendorModule'
     THEN UNCHANGED <<opening, fixed_set_params, clashed>>
     ELSE /\ \E garbage \in [Camera -> {NoString, Wild}] : fixed_set_params' = garbage
          /\ opening' = {id}
          /\ clashed' = (clashed \/ fixing # {})
  /\ UNCHANGED <<devices, fixing, strings, torn, vendor, out>>

\* Mutant: the array is not cleared.
OpenedUncleared(id, works) ==
  /\ id \in opening /\ opening' = {}
  /\ devices' = IF works /\ id \in Camera THEN devices \cup {id} ELSE devices
  /\ UNCHANGED <<gVendorModule, fixing, fixed_set_params, strings, torn, clashed, vendor, out>>

\* ... until it is cleared; then the camera is refused by its id, by the vendor
\* or for want of memory, or it is open.
camera_device_opened(id, works) ==
  /\ id \in opening /\ opening' = {}
  /\ fixed_set_params' = Cleared
  /\ devices' = IF works /\ id \in Camera THEN devices \cup {id} ELSE devices
  /\ UNCHANGED <<gVendorModule, fixing, strings, torn, clashed, vendor, out>>

\* free() of what the array holds for the cameras of cs.
Free(cs) ==
  LET gone == {fixed_set_params[c] : c \in cs} \ {NoString}
  IN /\ strings' = strings \ gone
     /\ torn' = (torn \/ ~(gone \subseteq strings)
                 \/ \E c, d \in cs : c # d /\ fixed_set_params[c] = fixed_set_params[d]
                                    /\ fixed_set_params[c] # NoString)

\* Under the lock.  The strings of all cameras are freed; the array keeps them.
camera_device_close(id) ==
  /\ id \in devices \ fixing /\ opening = {}
  /\ Free(Camera)
  /\ devices' = devices \ {id}
  /\ clashed' = (clashed \/ devices # {id})
  /\ vendor' = [vendor EXCEPT ![id] = NoSettings]
  /\ UNCHANGED <<gVendorModule, opening, fixing, fixed_set_params, out>>

\* 4k video wants a format of its own, and the preview the size of the video.
Video(p) ==
  [p EXCEPT !.preview = p.video,
            !.format = IF p.video \in {"4096x2160", "3840x2160"} THEN "nv12-venus" ELSE @]

\* The shutter speed is the exposure time; a long one rules out the flash.
Still(p, id) ==
  IF id = 0 /\ p.exposure \notin {"none", "0"} THEN [p EXCEPT !.flash = "off"] ELSE p

Fixed(id, s) ==
  LET p == [s EXCEPT !.exposure = IF s.shutter = "none" THEN @ ELSE s.shutter, !.app = TRUE]
  IN IF p.hint THEN Video(p) ELSE Still(p, id)

\* Without the lock: the camera's string is freed ...
camera_fixup_setparams(id) ==
  /\ id \in devices \ fixing
  /\ Free({id})
  /\ fixing' = fixing \cup {id}
  /\ clashed' = (clashed \/ opening # {})
  /\ UNCHANGED <<gVendorModule, devices, opening, fixed_set_params, vendor, out>>

\* ... and the new one kept, and given to the vendor.  An address that is free
\* may be given again.
camera_set_parameters(id, s) ==
  /\ id \in fixing
  /\ \E new \in String \ strings :
       /\ \A a \in String \ strings : new <= a
       /\ strings' = strings \cup {new}
       /\ fixed_set_params' = [fixed_set_params EXCEPT ![id] = new]
  /\ fixing' = fixing \ {id}
  /\ vendor' = [vendor EXCEPT ![id] = Fixed(id, s)]
  /\ UNCHANGED <<gVendorModule, devices, opening, torn, clashed, out>>

\* The vendor's string is copied and returned to the vendor.
camera_get_parameters(id) ==
  /\ id \in devices \ (fixing \cup out)
  /\ out' = out \cup {id}
  /\ UNCHANGED <<gVendorModule, devices, opening, fixing, fixed_set_params, strings, torn, clashed, vendor>>

\* The copy is the wrapper's, so the wrapper frees it.
camera_put_parameters(id) ==
  /\ id \in (devices \cap out) \ fixing
  /\ out' = out \ {id}
  /\ UNCHANGED <<gVendorModule, devices, opening, fixing, fixed_set_params, strings, torn, clashed, vendor>>

\* The service opens each camera once at a time, and makes one call after the
\* other for each; an id the vendor does not have is refused.
CameraNext ==
  \/ \E id \in 0..(Cardinality(Camera) + 1) \ devices :
       camera_device_open(id) \/ \E works \in BOOLEAN : camera_device_opened(id, works)
  \/ \E id \in Camera : \/ camera_device_close(id)
                        \/ camera_get_parameters(id)
                        \/ camera_put_parameters(id)
                        \/ camera_fixup_setparams(id)
                        \/ \E s \in Setting : camera_set_parameters(id, s)

CameraSpec == CameraInit /\ [][CameraNext]_camVars

-----------------------------------------------------------------------------
CameraTypeOK ==
  /\ gVendorModule \in BOOLEAN /\ torn \in BOOLEAN /\ clashed \in BOOLEAN
  /\ devices \subseteq Camera /\ strings \subseteq String /\ out \subseteq Camera
  /\ fixing \subseteq devices /\ opening \cap devices = {} /\ (devices # {} => fixed_set_params # NoArray)
  /\ fixed_set_params # NoArray => fixed_set_params \in [Camera -> String \cup {NoString, Wild}]
  /\ vendor \in [Camera -> Parameters]

(* Nothing but an allocated parameter string is freed, and the strings the  *)
(* open cameras would free next are alive and each its own, although every  *)
(* open, successful or not, forgets the strings and every close leaves      *)
(* freed ones in the array: with any number of cameras open, until one is   *)
(* closed while another stays open, or parameters are set while a camera is *)
(* being opened.  Both can happen although each camera is opened once.      *)
StringsOwned ==
  ~clashed =>
    /\ ~torn
    /\ opening = {} => \A c \in devices \ fixing :
         /\ fixed_set_params[c] \in strings \cup {NoString}
         /\ \A d \in devices \ (fixing \cup {c}) :
              fixed_set_params[c] = fixed_set_params[d] => fixed_set_params[c] = NoString

(* However the application changes its settings, a camera is never left    *)
(* with the flash on in a long exposure, and a recording never shows a     *)
(* preview of another size than the video.                                 *)
SettingsFit ==
  ~torn => \A c \in devices : vendor[c].app =>
    IF vendor[c].hint THEN vendor[c].preview = vendor[c].video
    ELSE c = 0 /\ vendor[c].exposure \notin {"none", "0"} => vendor[c].flash = "off"

\* Both: the strings of the open cameras are theirs, and their settings fit.
CamerasSafe == StringsOwned /\ SettingsFit
=============================================================================
