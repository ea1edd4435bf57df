------------------------------ MODULE Devices -------------------------------
(***************************************************************************)
(* The engine's two local devices (src/audio/devices.cpp): the microphone  *)
(* and the monitor. Starting one finds it by name, opens it at the driver  *)
(* and starts it; any of the three may fail. Stopping, and the destructor, *)
(* act on a device that was started, and on no other.                      *)
(***************************************************************************)

VARIABLES
  held,     \* the devices open at the driver (ma_device_init succeeded)
  started   \* those with Impl::started

deviceVars == <<held, started>>

Kinds == {"capture", "monitor"}

DevicesInit == held = {} /\ started = {}

\* How far a Start gets: no device matches, the driver does not open it, it
\* does not start it, or it runs.
Outcomes == {"notFound", "notOpened", "notStarted", "running"}

\* A device that was opened and does not start is closed again.
HeldAfter_Leaks(d, outcome) ==  \* mutant: no ma_device_uninit
  IF outcome \in {"notStarted", "running"} THEN held \cup {d} ELSE held
HeldAfter(d, outcome) == IF outcome = "running" THEN held \cup {d} ELSE held

StartDevice(d, outcome) ==
  /\ held' = HeldAfter(d, outcome)
  /\ started' = IF outcome = "running" THEN started \cup {d} ELSE started

StopDevices(ds) ==
  /\ held' = held \ (ds \cap started)
  /\ started' = started \ ds
=============================================================================
