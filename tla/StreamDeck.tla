----------------------------- MODULE StreamDeck -----------------------------
(***************************************************************************)
(* ConnectorElgatoStreamDeck (src/src/connector_elgato_streamdeck.cpp): a  *)
(* button box on USB that is looked for, read, written to, and lost.       *)
(*                                                                         *)
(* A device is its number of buttons.  The user plugs it in and pulls it   *)
(* out at any moment, also between the two looks the connector takes at    *)
(* SDL's list of devices.  A read or write fails when the device is gone,  *)
(* and may fail when it is not.  Scripts run between any two steps.  An    *)
(* image and a brightness are model values.                                *)
(***************************************************************************)
EXTENDS Integers, Sequences

CONSTANTS
  Devices,     \* the devices there are, by their number of buttons
  Images,      \* what a button may show
  Levels,      \* what the brightness may be
  None,        \* no device; no image; INVALID_BRIGHTNESS
  MaxChanges   \* bound on SDL_hid_device_change_count

DevicesAssumption ==
  /\ Devices \subseteq Nat \ {0} /\ MaxChanges \in Nat
  /\ None \notin Devices /\ None \notin Images /\ None \notin Levels

VARIABLES
  pc,       \* what comes next: "inputs", "enumerate", "read", "outputs"; "ended"
  device,   \* m_hid_device
  lastScan, \* m_hid_last_scan
  buttons,  \* m_buttons_state
  wanted,   \* m_wanted_brightness
  actual,   \* m_actual_brightness
  images,   \* m_buttons_image, of which a button has at most one
  changes,  \* SDL_hid_device_change_count
  plugged,  \* the device on USB
  alive,    \* the open device is still the one on USB
  told,     \* history: the last of on_connect and on_disconnect
  held,     \* history: the buttons of whose on_press there was no on_release
  failed    \* history: something went wrong with a device that was there

connectorVars == <<device, lastScan, buttons, wanted, actual, images>>
usbVars       == <<changes, plugged, alive>>
historyVars   == <<told, held, failed>>
vars == <<pc, connectorVars, usbVars, historyVars>>

Buttons  == UNION {1..d : d \in Devices}
NoImages == [b \in Buttons |-> None]

TypeOK ==
  /\ pc \in {"inputs", "enumerate", "read", "outputs", "ended"}
  /\ device \in Devices \cup {None} /\ plugged \in Devices \cup {None}
  /\ changes \in 0..MaxChanges /\ lastScan \in -1..MaxChanges
  /\ buttons \in UNION {[1..n -> BOOLEAN] : n \in Devices \cup {0}}
  /\ wanted \in Levels \cup {None} /\ actual \in Levels \cup {None}
  /\ images \in [Buttons -> Images \cup {None}]
  /\ alive \in BOOLEAN /\ failed \in BOOLEAN
  /\ told \in {"connected", "disconnected"} /\ held \subseteq Buttons

Init ==
  /\ pc = "inputs" /\ device = None /\ lastScan = -1
  /\ buttons = <<>> /\ wanted = None /\ actual = None /\ images = NoImages
  /\ changes = 0 /\ plugged \in Devices \cup {None} /\ alive = FALSE
  /\ told = "disconnected" /\ held = {} /\ failed = FALSE

-----------------------------------------------------------------------------
(* USB, and the script.                                                    *)

\* SDL counts a change when a device comes or goes; what it finds then is new.
Plug(d) ==
  /\ plugged = None /\ changes < MaxChanges
  /\ plugged' = d /\ changes' = changes + 1 /\ failed' = FALSE
  /\ UNCHANGED <<pc, connectorVars, alive, told, held>>

Unplug ==
  /\ plugged # None /\ changes < MaxChanges
  /\ plugged' = None /\ changes' = changes + 1 /\ alive' = FALSE
  /\ UNCHANGED <<pc, connectorVars, historyVars>>

\* connector.brightness = level
SetBrightness(level) ==
  /\ pc # "ended" /\ wanted' = level
  /\ UNCHANGED <<pc, device, lastScan, buttons, actual, images, usbVars, historyVars>>

\* connector:set_button(b, card): replaces the image that waits for the button
SetButton(b, image) ==
  /\ pc # "ended" /\ device # None
  /\ images' = [images EXCEPT ![b] = image]
  /\ UNCHANGED <<pc, device, lastScan, buttons, wanted, actual, usbVars, historyVars>>

-----------------------------------------------------------------------------
(* tick_inputs.                                                            *)

\* force_disconnect, after a read or write that failed
ForceDisconnect == device' = None /\ failed' = (failed \/ alive)

\* on_disconnect, at the end of the tick function that lost the device
Lost ==
  /\ ForceDisconnect
  /\ told' = "disconnected"
  /\ UNCHANGED held

\* Mutant of NoChange: the devices are looked through once.
NoChangeAfterFirst ==
  /\ pc = "inputs" /\ device = None /\ lastScan # -1
  /\ pc' = "outputs"
  /\ UNCHANGED <<connectorVars, usbVars, historyVars>>

\* Nothing has changed since the devices were looked through.
NoChange ==
  /\ pc = "inputs" /\ device = None /\ changes = lastScan
  /\ pc' = "outputs"
  /\ UNCHANGED <<connectorVars, usbVars, historyVars>>

\* The number of changes is kept before the devices are looked through.
Scan ==
  /\ pc = "inputs" /\ device = None /\ changes # lastScan
  /\ lastScan' = changes
  /\ pc' = "enumerate"
  /\ UNCHANGED <<device, buttons, wanted, actual, images, usbVars, historyVars>>

\* attempt_connect_device: there is none, or it cannot be opened
NotFound ==
  /\ pc = "enumerate"
  /\ failed' = (failed \/ plugged # None)
  /\ pc' = "outputs"
  /\ UNCHANGED <<connectorVars, usbVars, told, held>>

\* on_connect, after the device was found and opened
Found ==
  /\ pc = "enumerate" /\ plugged # None
  /\ device' = plugged /\ alive' = TRUE
  /\ told' = "connected"
  /\ pc' = "read"
  /\ UNCHANGED <<lastScan, buttons, wanted, actual, images, changes, plugged, held, failed>>

Reading == pc = "read" \/ (pc = "inputs" /\ device # None)

ReadFails ==
  /\ Reading
  /\ Lost
  /\ pc' = "outputs"
  /\ UNCHANGED <<lastScan, buttons, wanted, actual, images, usbVars>>

\* No report, or one that is not about buttons
NoReport ==
  /\ Reading /\ alive
  /\ pc' = "outputs"
  /\ UNCHANGED <<connectorVars, usbVars, historyVars>>

\* m_buttons_state, resized to n buttons
Resized(n) == [b \in 1..n |-> b \in DOMAIN buttons /\ buttons[b]]

\* The buttons that differ from the report give one event each.
Pressed(report)  == {b \in DOMAIN report : report[b] /\ ~Resized(device)[b]}
Released(report) == {b \in DOMAIN report : ~report[b] /\ Resized(device)[b]}

\* update_button_state has read a report.
Report ==
  /\ Reading /\ alive
  /\ \E report \in [1..device -> BOOLEAN] :
       /\ buttons' = report
       /\ held' = (held \cup Pressed(report)) \ Released(report)
  /\ pc' = "outputs"
  /\ UNCHANGED <<device, lastScan, wanted, actual, images, usbVars, told, failed>>

-----------------------------------------------------------------------------
(* tick_outputs and shutdown.                                              *)

NoDevice ==
  /\ pc = "outputs" /\ device = None
  /\ pc' = "inputs"
  /\ UNCHANGED <<connectorVars, usbVars, historyVars>>

BrightnessDue == wanted # None /\ actual # wanted
SomethingToWrite == BrightnessDue \/ images # NoImages

\* The brightness, then the images.
Written ==
  /\ pc = "outputs" /\ device # None
  /\ SomethingToWrite => alive
  /\ actual' = IF BrightnessDue THEN wanted ELSE actual
  /\ images' = NoImages
  /\ pc' = "inputs"
  /\ UNCHANGED <<device, lastScan, buttons, wanted, usbVars, historyVars>>

\* A write fails, of the brightness or, after that, of an image; the images that
\* are left are dropped.
WriteFails ==
  /\ pc = "outputs" /\ device # None
  /\ SomethingToWrite
  /\ \/ BrightnessDue /\ UNCHANGED actual
     \/ images # NoImages /\ (BrightnessDue => alive)
        /\ actual' = IF BrightnessDue THEN wanted ELSE actual
  /\ images' = NoImages
  /\ Lost
  /\ pc' = "inputs"
  /\ UNCHANGED <<lastScan, buttons, wanted, usbVars>>

Shutdown ==
  /\ pc = "inputs"
  /\ device' = None
  /\ pc' = "ended"
  /\ UNCHANGED <<lastScan, buttons, wanted, actual, images, usbVars, historyVars>>

-----------------------------------------------------------------------------
World ==
  \/ Unplug \/ \E d \in Devices : Plug(d)
  \/ \E level \in Levels : SetBrightness(level)
  \/ \E b \in Buttons, image \in Images : SetButton(b, image)

Tick ==
  \/ NoChange \/ Scan \/ NotFound \/ Found
  \/ ReadFails \/ NoReport \/ Report
  \/ NoDevice \/ Written \/ WriteFails

Next == World \/ Tick \/ Shutdown

\* Ticks go on until the shutdown.
Fairness == WF_vars(Tick)

Spec == Init /\ [][Next]_vars /\ Fairness

-----------------------------------------------------------------------------
(* Properties.                                                             *)

\* on_connect and on_disconnect leave the script with the truth, whichever read
\* or write lost the device; and every button the connector takes for pressed,
\* and so will report as released, is one the script was told was pressed: across
\* reports, devices of different sizes and lost connections.
ScriptKnowsDevice ==
  /\ pc # "ended" => (told = "connected" <=> device # None)
  /\ \A b \in DOMAIN buttons : buttons[b] => b \in held

\* A device that is plugged in is connected to, however its coming falls between
\* the looks of tick_inputs, unless opening, reading or writing it failed.
PluggedConnects ==
  plugged # None ~> (device # None /\ alive) \/ plugged = None \/ failed \/ pc = "ended"
=============================================================================
