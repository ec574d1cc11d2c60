----------------------------- MODULE WifiStation -----------------------------
(***************************************************************************)
(* WifiModule: the state machine of the station, run by the wifi task, and *)
(* the two services by which other tasks change its state without a lock.  *)
(* The radio is external: its mode, and the link the driver keeps trying   *)
(* until it is told to disconnect.  A timer is a flag that is raised some  *)
(* time after the state it belongs to was entered.                         *)
(***************************************************************************)

VARIABLES
  config,   \* the wifi settings: no network, a network, or one switched off
  inRange,  \* does the configured network answer
  radio,    \* the driver: access point on, station on, link of the station
  station,  \* state, staRetryEnabled_, reconnectKickSent_, has its time-out passed
  begin     \* how far startConnect has come, and the access point it saw

stationVars == <<config, inRange, radio, station, begin>>

Settings == {"none", "off", "on"}
Links == {"down", "trying", "up"}
States == {"Disabled", "Idle", "Connecting", "Connected", "ErrorWait"}
-----------------------------------------------------------------------------
(* The driver.  Switching a mode on or off keeps the other half; WIFI_MODE_AP *)
(* ends the station, and WIFI_MODE_STA the access point.                      *)
Disconnected(r) == [r EXCEPT !.link = "down"]

ModeAp(r) == [ap |-> TRUE, sta |-> FALSE, link |-> "down"]

(* setState *)
Enter(w, state) ==
  IF w.state = state THEN w ELSE [w EXCEPT !.state = state, !.aged = FALSE]

(* setStaRetryEnabled_(true) *)
Retrying(w) ==
  LET allowed == [w EXCEPT !.retry = TRUE]
  IN  IF w.retry \/ w.state \in {"Connected", "Disabled"} THEN allowed ELSE Enter(allowed, "Idle")

(* setStaRetryEnabled_(false); a link that is up stays up. *)
Quiet(w, r) ==
  LET quiet == [w EXCEPT !.retry = FALSE, !.kicked = TRUE]
  IN  IF ~w.retry THEN w ELSE IF r.link = "up" THEN quiet ELSE Enter(quiet, "Idle")

QuietRadio(w, r) == IF w.retry /\ r.link # "up" THEN Disconnected(r) ELSE r

(* Mutant: a new connection is asked for while retries stay forbidden. *)
ReconnectQuietly ==
  /\ station' = Enter(station, "Idle")
  /\ radio' = Disconnected(radio)

(* requestReconnect_, after retries were allowed: the two calls come together. *)
Reconnect ==
  /\ station' = Enter(Retrying(station), "Idle")
  /\ radio' = Disconnected(radio)
-----------------------------------------------------------------------------
(* loop, one action for each thing a pass may do. *)

StartPending == station.state = "Idle" /\ station.retry /\ config # "none"

(* startConnect up to the modes it has read; another task may change them *)
(* before it writes the mode it wants.                                    *)
StartConnect ==
  /\ begin.at = "rest" /\ StartPending
  /\ radio' = [radio EXCEPT !.sta = TRUE]
  /\ station' = [station EXCEPT !.kicked = FALSE]
  /\ begin' = [at |-> "mode", keepAp |-> radio.ap]
  /\ UNCHANGED <<config, inRange>>

(* enableSTA fails: early after boot the station stays idle. *)
StartFails ==
  /\ begin.at = "rest" /\ StartPending
  /\ \E next \in {"Idle", "ErrorWait"} : station' = Enter([station EXCEPT !.kicked = FALSE], next)
  /\ UNCHANGED <<config, inRange, radio, begin>>

(* Mutant: the mode is not written again, as enableSTA has just set it. *)
ApplyModeOnce ==
  /\ begin.at = "mode"
  /\ radio' = [radio EXCEPT !.link = "trying"]
  /\ begin' = [begin EXCEPT !.at = "begun"]
  /\ UNCHANGED <<config, inRange, station>>

(* WiFi.mode, disconnect and WiFi.begin *)
ApplyMode ==
  /\ begin.at = "mode"
  /\ radio' = [ap |-> begin.keepAp, sta |-> TRUE, link |-> "trying"]
  /\ begin' = [begin EXCEPT !.at = "begun"]
  /\ UNCHANGED <<config, inRange, station>>

Begun ==
  /\ begin.at = "begun"
  /\ station' = Enter(station, "Connecting")
  /\ begin' = [at |-> "rest", keepAp |-> FALSE]
  /\ UNCHANGED <<config, inRange, radio>>

GiveUp(state) ==
  /\ station' = Enter(station, state)
  /\ radio' = Disconnected(radio)

Connecting ==
  /\ begin.at = "rest" /\ station.state = "Connecting"
  /\ IF radio.link = "up"
     THEN station' = Enter(station, "Connected") /\ UNCHANGED radio
     ELSE \/ ~station.retry /\ GiveUp("Idle")
          \/ station.retry /\ station.aged /\ GiveUp("ErrorWait")
          \/ /\ station.retry /\ ~station.kicked /\ radio.link = "down" /\ radio.sta
             /\ station' = [station EXCEPT !.kicked = TRUE]
             /\ radio' = [radio EXCEPT !.link = "trying"]
  /\ UNCHANGED <<config, inRange, begin>>

NoticeLoss ==
  /\ begin.at = "rest" /\ station.state = "Connected" /\ radio.link # "up"
  /\ station' = Enter(station, "ErrorWait")
  /\ UNCHANGED <<config, inRange, radio, begin>>

WaitEnds ==
  /\ begin.at = "rest" /\ station.state = "ErrorWait" /\ station.retry /\ station.aged
  /\ station' = Enter(station, "Idle")
  /\ UNCHANGED <<config, inRange, radio, begin>>

WifiTask == StartConnect \/ ApplyMode \/ Begun \/ Connecting \/ NoticeLoss \/ WaitEnds

(* The connect time-out, or the end of the wait after an error. *)
Age ==
  /\ ~station.aged /\ station.state \in {"Connecting", "ErrorWait"}
  /\ station' = [station EXCEPT !.aged = TRUE]
  /\ UNCHANGED <<config, inRange, radio, begin>>
-----------------------------------------------------------------------------
(* The driver and the network. *)
Associate ==
  /\ radio.link = "trying" /\ radio.sta /\ inRange /\ config # "none"
  /\ radio' = [radio EXCEPT !.link = "up"]
  /\ UNCHANGED <<config, inRange, station, begin>>

(* The driver tries again by itself after most causes of a loss. *)
LinkLost ==
  /\ radio.link = "up"
  /\ \E after \in {"trying", "down"} : radio' = [radio EXCEPT !.link = after]
  /\ inRange' \in BOOLEAN
  /\ UNCHANGED <<config, station, begin>>

NetworkComesAndGoes ==
  /\ radio.link # "up" /\ inRange' = ~inRange
  /\ UNCHANGED <<config, radio, station, begin>>

(* WifiModule::onConfigLoaded *)
StationInit ==
  /\ config \in Settings /\ inRange \in BOOLEAN
  /\ radio = [ap |-> FALSE, sta |-> FALSE, link |-> "down"]
  /\ station = [state |-> IF config = "off" THEN "Disabled" ELSE "Idle",
                retry |-> TRUE, kicked |-> FALSE, aged |-> FALSE]
  /\ begin = [at |-> "rest", keepAp |-> FALSE]

StationOK ==
  /\ config \in Settings /\ inRange \in BOOLEAN
  /\ radio \in [ap : BOOLEAN, sta : BOOLEAN, link : Links]
  /\ station \in [state : States, retry : BOOLEAN, kicked : BOOLEAN, aged : BOOLEAN]
  /\ begin \in [at : {"rest", "mode", "begun"}, keepAp : BOOLEAN]
  /\ radio.link # "down" => radio.sta
=============================================================================
