----------------------- MODULE WifiProvisioningProofs -----------------------
(***************************************************************************)
(* Proofs about the portal and the station.  The model has no constants    *)
(* and TLC sees all of its states; what the proofs add is the argument:    *)
(* which facts of the two tasks, taken together, keep a guest of the       *)
(* portal from being counted wrong, probed over or thrown off.             *)
(***************************************************************************)
EXTENDS WifiProvisioning, TLAPS

Radios == [ap : BOOLEAN, sta : BOOLEAN, link : Links]
Stations == [state : States, retry : BOOLEAN, kicked : BOOLEAN, aged : BOOLEAN]
Begins == [at : {"rest", "mode", "begun"}, keepAp : BOOLEAN]
Portals == [on : BOOLEAN, latched : BOOLEAN, probing : BOOLEAN, clients : BOOLEAN, seen : BOOLEAN,
            configured : BOOLEAN, probe : {"young", "window", "interval"}]

(* A radio that has no link without the station mode.                      *)
Sound(r) == r \in Radios /\ (r.link # "down" => r.sta)

(* What the driver makes of a radio.                                       *)
LEMMA RadioFacts ==
  ASSUME NEW r, Sound(r)
  PROVE  /\ Sound(Disconnected(r)) /\ Disconnected(r).ap = r.ap
         /\ Sound(ModeAp(r)) /\ ModeAp(r).ap = TRUE
         /\ \A w : Sound(QuietRadio(w, r)) /\ QuietRadio(w, r).ap = r.ap
         /\ \A w : r.link = "up" => QuietRadio(w, r) = r
<1>1. Sound(Disconnected(r)) /\ Disconnected(r).ap = r.ap
  BY DEF Sound, Disconnected, Radios, Links
<1>2. Sound(ModeAp(r)) /\ ModeAp(r).ap = TRUE
  BY DEF Sound, ModeAp, Radios, Links
<1> QED BY <1>1, <1>2 DEF QuietRadio

(* What the services of WifiModule make of a station.                      *)
LEMMA StationFacts ==
  ASSUME NEW w \in Stations
  PROVE  /\ \A state \in States : Enter(w, state) \in Stations
         /\ Retrying(w) \in Stations
         /\ \A r : Quiet(w, r) \in Stations
         /\ Enter(Retrying(w), "Idle") \in Stations
<1>1. \A v \in Stations, state \in States : Enter(v, state) \in Stations
  BY DEF Enter, Stations
<1>2. {"Idle", "Connected", "Disabled", "Connecting", "ErrorWait"} \subseteq States
  BY DEF States
<1>3. [w EXCEPT !.retry = TRUE] \in Stations /\ [w EXCEPT !.retry = FALSE, !.kicked = TRUE] \in Stations
  BY DEF Stations
<1>4. Retrying(w) \in Stations BY <1>1, <1>2, <1>3 DEF Retrying
<1>5. \A r : Quiet(w, r) \in Stations BY <1>1, <1>2, <1>3 DEF Quiet
<1> QED BY <1>1, <1>2, <1>4, <1>5

(* The types, in the names of this module.                                 *)
Typed ==
  /\ config \in Settings /\ inRange \in BOOLEAN /\ Sound(radio) /\ station \in Stations
  /\ begin \in Begins /\ portal \in Portals
  /\ task \in {"rest", "open", "quiet", "close", "closing"}
  /\ due \in BOOLEAN /\ recovery \in {"none", "open", "elapsed"}
  /\ booted \in BOOLEAN /\ guest \in BOOLEAN
  /\ guest => radio.ap

(* The names above say what TypeOK says.                                   *)
LEMMA TypedIsTypeOK == Typed <=> TypeOK
BY DEF Typed, TypeOK, StationOK, Sound, Radios, Stations, Begins, Portals

(* The provisioning module knows who is on its portal, and a connection    *)
(* that has looked at the mode of the radio has seen the access point of   *)
(* whoever is on it.                                                       *)
Users ==
  /\ portal.clients <=> portal.on /\ guest
  /\ portal.clients => portal.seen
  /\ begin.at = "mode" /\ guest => begin.keepAp

(* What a decision was taken on still holds when it is carried out.        *)
Decisions ==
  /\ task = "open" => MayOpen(portal)
  /\ task \in {"quiet", "close", "closing"} => portal.on
  /\ task \in {"quiet", "closing"} => ~portal.probing

Inv == Typed /\ Users /\ Decisions

(* It holds after a boot.                                                   *)
LEMMA InvInit == Init => Inv
<1> SUFFICES ASSUME Init PROVE Inv
  OBVIOUS
<1>1. Sound(radio) /\ ~radio.ap
  BY DEF Init, StationInit, Sound, Radios, Links
<1>2. station \in Stations /\ begin \in Begins /\ begin.at = "rest"
  BY DEF Init, StationInit, Stations, States, Begins
<1>3. /\ portal \in Portals /\ ~portal.on /\ ~portal.clients
  <2>1. (config = "on") \in BOOLEAN OBVIOUS
  <2> QED BY <2>1 DEF Init, Portals
<1> QED BY <1>1, <1>2, <1>3 DEF Init, StationInit, Inv, Typed, Users, Decisions

(* A step of the wifi task, of the driver or of the network.                *)
StationActs == WifiTask \/ StartFails \/ Age \/ Associate \/ LinkLost \/ NetworkComesAndGoes

(* It keeps the types; the access point is touched by the write of a mode  *)
(* that was read before, and by nothing else.                              *)
LEMMA StationStep ==
  ASSUME Typed, StationActs
  PROVE  /\ config' \in Settings /\ inRange' \in BOOLEAN /\ Sound(radio')
         /\ station' \in Stations /\ begin' \in Begins
         /\ radio'.ap = radio.ap \/ (begin.at = "mode" /\ radio'.ap = begin.keepAp)
         /\ begin'.at = "mode" => begin' = begin \/ begin'.keepAp = radio.ap
<1> USE DEF Typed
<1>1. /\ \A state \in States : Enter(station, state) \in Stations
      /\ {"Idle", "Connected", "Disabled", "Connecting", "ErrorWait"} \subseteq States
  BY StationFacts DEF States
<1>2. /\ Sound(Disconnected(radio)) /\ Disconnected(radio).ap = radio.ap
  BY RadioFacts
<1>3. [station EXCEPT !.kicked = FALSE] \in Stations /\ [station EXCEPT !.kicked = TRUE] \in Stations
      /\ [station EXCEPT !.aged = TRUE] \in Stations
  BY DEF Stations
<1>4. radio \in Radios /\ radio.ap \in BOOLEAN /\ radio.sta \in BOOLEAN
  BY DEF Sound, Radios
<1>5. CASE StartConnect
  <2>1. Sound(radio') /\ radio'.ap = radio.ap
    BY <1>4, <1>5 DEF StartConnect, Sound, Radios
  <2>2. begin' \in Begins /\ begin'.keepAp = radio.ap
    BY <1>4, <1>5 DEF StartConnect, Begins
  <2> QED BY <1>3, <1>5, <2>1, <2>2 DEF StartConnect
<1>6. CASE ApplyMode
  <2>1. begin.keepAp \in BOOLEAN BY DEF Begins
  <2>2. Sound(radio') /\ radio'.ap = begin.keepAp
    BY <1>6, <2>1 DEF ApplyMode, Sound, Radios, Links
  <2>3. begin' \in Begins /\ begin'.at = "begun" /\ begin.at = "mode"
    BY <1>6 DEF ApplyMode, Begins
  <2> QED BY <1>6, <2>2, <2>3 DEF ApplyMode
<1>7. CASE Begun
  <2>1. begin' \in Begins /\ begin'.at = "rest" /\ begin.at # "mode"
    BY <1>7 DEF Begun, Begins
  <2> QED BY <1>1, <1>7, <2>1 DEF Begun
<1>8. CASE Connecting
  <2>1. Sound(radio') /\ radio'.ap = radio.ap /\ station' \in Stations
    <3>1. CASE radio' = radio
      <4>1. station' \in Stations BY <1>1, <1>3, <1>8 DEF Connecting, GiveUp
      <4> QED BY <3>1, <4>1
    <3>2. CASE \E state \in States : GiveUp(state)
      BY <1>1, <1>2, <3>2 DEF GiveUp
    <3>3. CASE /\ radio.sta /\ radio' = [radio EXCEPT !.link = "trying"]
               /\ station' = [station EXCEPT !.kicked = TRUE]
      BY <1>3, <1>4, <3>3 DEF Sound, Radios, Links
    <3> QED BY <1>1, <1>8, <3>1, <3>2, <3>3 DEF Connecting
  <2> QED BY <1>8, <2>1 DEF Connecting
<1>9. CASE NoticeLoss \/ WaitEnds
  BY <1>1, <1>9 DEF NoticeLoss, WaitEnds
<1>10. CASE StartFails
  <2>1. \A state \in States : Enter([station EXCEPT !.kicked = FALSE], state) \in Stations
    BY <1>3, StationFacts
  <2> QED BY <1>1, <1>10, <2>1 DEF StartFails
<1>11. CASE Age \/ NetworkComesAndGoes
  BY <1>3, <1>11 DEF Age, NetworkComesAndGoes
<1>12. CASE Associate
  <2>1. Sound(radio') /\ radio'.ap = radio.ap
    BY <1>4, <1>12 DEF Associate, Sound, Radios, Links
  <2> QED BY <1>12, <2>1 DEF Associate
<1>13. CASE LinkLost
  <2>1. Sound(radio') /\ radio'.ap = radio.ap
    BY <1>4, <1>13 DEF LinkLost, Sound, Radios, Links
  <2> QED BY <1>13, <2>1 DEF LinkLost
<1> QED BY <1>5, <1>6, <1>7, <1>8, <1>9, <1>10, <1>11, <1>12, <1>13 DEF StationActs, WifiTask

(* Beside the portal such a step takes the access point from nobody who is *)
(* on it.                                                                  *)
LEMMA BesideStep ==
  ASSUME Inv, StationActs, UNCHANGED <<portal, task, due, recovery, booted>>, GuestStays
  PROVE  Inv' /\ guest' = guest
<1> USE DEF Inv
<1>1. /\ config' \in Settings /\ inRange' \in BOOLEAN /\ Sound(radio')
      /\ station' \in Stations /\ begin' \in Begins
      /\ radio'.ap = radio.ap \/ (begin.at = "mode" /\ radio'.ap = begin.keepAp)
      /\ begin'.at = "mode" => begin' = begin \/ begin'.keepAp = radio.ap
  BY StationStep
<1>2. guest \in BOOLEAN /\ (guest => radio.ap) /\ guest' = (guest /\ radio'.ap)
  BY DEF Typed, GuestStays
<1>3. guest => radio'.ap
  BY <1>1, <1>2 DEF Users
<1>4. guest' = guest
  BY <1>2, <1>3
<1>5. Typed' BY <1>1, <1>2, <1>3, <1>4 DEF Typed
<1>6. Users'
  <2>1. begin'.at = "mode" /\ guest => begin'.keepAp
    BY <1>1, <1>2 DEF Users
  <2> QED BY <1>4, <2>1 DEF Users
<1>7. Decisions' BY DEF Decisions, MayOpen, HasReason
<1> QED BY <1>4, <1>5, <1>6, <1>7

(* The polls at the head of a pass.                                         *)
LEMMA PollFacts ==
  ASSUME Inv
  PROVE  /\ Refreshed \in Portals /\ Refreshed.on = portal.on /\ Refreshed.clients = portal.clients
         /\ Refreshed.seen = portal.seen /\ Refreshed.probing = portal.probing
         /\ Refreshed.latched = portal.latched /\ Refreshed.probe = portal.probe
         /\ portal.on =>
              /\ Surveyed \in Portals /\ Surveyed.on = TRUE /\ Surveyed.clients = guest
              /\ (guest => Surveyed.seen) /\ (portal.seen => Surveyed.seen)
              /\ Surveyed.probing = portal.probing /\ Surveyed.latched = portal.latched
<1> USE DEF Inv, Typed
<1>1. /\ Refreshed \in Portals /\ Refreshed.on = portal.on /\ Refreshed.clients = portal.clients
      /\ Refreshed.seen = portal.seen /\ Refreshed.probing = portal.probing
      /\ Refreshed.latched = portal.latched /\ Refreshed.probe = portal.probe
  <2> DEFINE c == IF due THEN config = "on" ELSE portal.configured
  <2>1. c \in BOOLEAN BY DEF Portals
  <2>2. Refreshed = [portal EXCEPT !.configured = c] BY DEF Refreshed
  <2> HIDE DEF c
  <2> QED BY <2>1, <2>2 DEF Portals
<1>2. ASSUME portal.on
      PROVE  /\ Surveyed \in Portals /\ Surveyed.on = TRUE /\ Surveyed.clients = guest
             /\ (guest => Surveyed.seen) /\ (portal.seen => Surveyed.seen)
             /\ Surveyed.probing = portal.probing /\ Surveyed.latched = portal.latched
  <2>1. portal.clients = guest /\ portal.on = TRUE /\ (guest => portal.seen)
    BY <1>2 DEF Users, Portals
  <2> DEFINE s == Refreshed.seen \/ guest
  <2>2. s \in BOOLEAN BY <1>1 DEF Portals
  <2>3. CASE due
    <3>1. Surveyed = [Refreshed EXCEPT !.clients = guest, !.seen = s]
      BY <1>1, <2>1, <2>3 DEF Surveyed, Counted
    <3>2. s <=> portal.seen \/ guest BY <1>1
    <3> HIDE DEF s
    <3> QED BY <1>1, <2>1, <2>2, <3>1, <3>2 DEF Portals
  <2>4. CASE ~due
    <3>1. Surveyed = Refreshed BY <2>4 DEF Surveyed
    <3> QED BY <1>1, <2>1, <3>1
  <2> QED BY <2>3, <2>4
<1> QED BY <1>1, <1>2

(* A probe is begun for a configured station, when nobody is on the portal *)
(* and nobody was until a short while ago.                                 *)
ProbeIsBegun == ~portal.probing /\ portal'.probing
ProbesAlone == ProbeIsBegun => portal.on /\ ~guest /\ ~portal.seen /\ portal'.configured

(* The portal opens for a reason, and not twice for the same one.          *)
OpensForAReason == ~portal.on /\ portal'.on => MayOpen(portal)

(* A guest of the portal loses it by leaving, or with the portal.          *)
GuestKeepsPortal == guest /\ portal.on /\ ~(guest' /\ radio'.ap) => Leave \/ Closed

Promises == ProbesAlone /\ OpensForAReason /\ GuestKeepsPortal

(* What keeps the promises without more ado.                                *)
LEMMA NothingPromised ==
  ASSUME Typed', guest' = guest, portal'.on => portal.on, portal'.probing => portal.probing
  PROVE  Promises
BY DEF Typed, Promises, ProbesAlone, ProbeIsBegun, OpensForAReason, GuestKeepsPortal

(* The steps of the provisioning task.                                      *)
LEMMA TaskStep ==
  ASSUME Inv, ProvisioningTask \/ OpenFails
  PROVE  Inv' /\ Promises
<1> USE DEF Inv
<1>0. /\ Typed /\ Users /\ Decisions /\ portal \in Portals /\ Sound(radio) /\ station \in Stations
      /\ guest \in BOOLEAN /\ (guest => radio.ap)
  BY DEF Typed
<1>1. /\ Refreshed \in Portals /\ Refreshed.on = portal.on /\ Refreshed.clients = portal.clients
      /\ Refreshed.seen = portal.seen /\ Refreshed.probing = portal.probing
      /\ Refreshed.latched = portal.latched /\ Refreshed.probe = portal.probe
      /\ portal.on =>
           /\ Surveyed \in Portals /\ Surveyed.on = TRUE /\ Surveyed.clients = guest
           /\ (guest => Surveyed.seen) /\ (portal.seen => Surveyed.seen)
           /\ Surveyed.probing = portal.probing /\ Surveyed.latched = portal.latched
  BY PollFacts
<1>2. /\ Sound(ModeAp(radio)) /\ ModeAp(radio).ap = TRUE
      /\ Sound(QuietRadio(station, radio)) /\ QuietRadio(station, radio).ap = radio.ap
      /\ Sound(Disconnected(radio)) /\ Disconnected(radio).ap = radio.ap
  BY <1>0, RadioFacts
<1>3. /\ Quiet(station, radio) \in Stations /\ Retrying(station) \in Stations
      /\ Enter(Retrying(station), "Idle") \in Stations
  BY <1>0, StationFacts
<1>t. ASSUME UNCHANGED <<config, inRange, begin, booted>>, Sound(radio'), station' \in Stations,
             portal' \in Portals, task' \in {"rest", "open", "quiet", "close", "closing"},
             due' \in BOOLEAN, recovery' \in {"none", "open", "elapsed"}, guest' \in BOOLEAN,
             guest' => guest /\ radio'.ap, portal'.clients <=> portal'.on /\ guest',
             portal'.clients => portal'.seen,
             task' = "open" => MayOpen(portal)',
             task' \in {"quiet", "close", "closing"} => portal'.on,
             task' \in {"quiet", "closing"} => ~portal'.probing
      PROVE  Inv'
  <2>1. Typed' BY <1>0, <1>t DEF Typed
  <2>2. Users' BY <1>0, <1>t DEF Users
  <2>3. Decisions' BY <1>t DEF Decisions
  <2> QED BY <2>1, <2>2, <2>3
<1>4. CASE EndRecovery
  <2> DEFINE p == [Refreshed EXCEPT !.latched = FALSE]
  <2>1. /\ p \in Portals /\ p.on = portal.on /\ p.clients = portal.clients /\ p.seen = portal.seen
        /\ p.probing = portal.probing
    BY <1>1 DEF Portals
  <2>2. /\ portal' = p /\ task' = IF portal.on THEN "close" ELSE "rest"
        /\ due' = TRUE /\ recovery' = "none" /\ UNCHANGED <<config, inRange, radio, station, begin, booted, guest>>
    BY <1>4 DEF EndRecovery, stationVars
  <2> HIDE DEF p
  <2>3. Inv' BY <1>0, <1>t, <2>1, <2>2 DEF Users
  <2>4. Promises BY <2>1, <2>2, <2>3, NothingPromised
  <2> QED BY <2>3, <2>4
<1>5. CASE StationUp
  <2> DEFINE p == [Refreshed EXCEPT !.latched = FALSE]
  <2>1. /\ p \in Portals /\ p.on = portal.on /\ p.clients = portal.clients /\ p.seen = portal.seen
        /\ p.probing = portal.probing
    BY <1>1 DEF Portals
  <2>2. /\ portal' = p /\ task' = IF portal.on THEN "close" ELSE "rest"
        /\ due' = FALSE /\ recovery = "none"
        /\ UNCHANGED <<config, inRange, radio, station, begin, booted, recovery, guest>>
    BY <1>5 DEF StationUp, Pass
  <2> HIDE DEF p
  <2>3. Inv' BY <1>0, <1>t, <2>1, <2>2 DEF Users
  <2>4. Promises BY <2>1, <2>2, <2>3, NothingPromised
  <2> QED BY <2>3, <2>4
<1>6. CASE DecideToOpen
  <2>1. /\ portal' = Refreshed /\ due' = FALSE
        /\ UNCHANGED <<config, inRange, begin, booted, recovery, guest>>
    BY <1>6 DEF DecideToOpen, Pass
  <2>2. \/ /\ MayOpen(Refreshed) /\ task' = "open"
           /\ station' = Quiet(station, radio) /\ radio' = QuietRadio(station, radio)
        \/ task' = "rest" /\ UNCHANGED <<radio, station>>
    BY <1>6 DEF DecideToOpen, Pass
  <2>3. Sound(radio') /\ radio'.ap = radio.ap /\ station' \in Stations
    BY <1>0, <1>2, <1>3, <2>2
  <2>4. task' = "open" => MayOpen(portal)'
    BY <2>1, <2>2 DEF MayOpen, HasReason
  <2>5. recovery \in {"none", "open", "elapsed"} BY DEF Typed
  <2>6. task' \in {"rest", "open"} BY <2>2
  <2>7. Inv' BY <1>0, <1>1, <1>t, <2>1, <2>3, <2>4, <2>5, <2>6 DEF Users
  <2>8. Promises BY <1>1, <2>1, <2>7, NothingPromised
  <2> QED BY <2>7, <2>8
<1>7. CASE Open
  <2> DEFINE p == [portal EXCEPT !.on = TRUE, !.latched = TRUE, !.probing = FALSE, !.probe = "young",
                                 !.clients = guest, !.seen = portal.seen \/ guest]
  <2>1. (portal.seen \/ guest) \in BOOLEAN BY DEF Portals
  <2>2. /\ p \in Portals /\ p.on = TRUE /\ p.clients = guest /\ (guest => p.seen) /\ p.probing = FALSE
    BY <1>0, <2>1 DEF Portals
  <2>3. /\ portal' = p /\ task' = "rest" /\ task = "open" /\ radio' = ModeAp(radio)
        /\ UNCHANGED <<config, inRange, station, begin, due, recovery, booted, guest>>
    BY <1>7 DEF Open
  <2> HIDE DEF p
  <2>4. Inv' BY <1>0, <1>2, <1>t, <2>2, <2>3 DEF Typed
  <2>5. MayOpen(portal) BY <2>3 DEF Decisions
  <2>6. Promises
    BY <1>2, <2>2, <2>3, <2>5 DEF Promises, ProbesAlone, ProbeIsBegun, OpensForAReason, GuestKeepsPortal
  <2> QED BY <2>4, <2>6
<1>8. CASE OpenFails
  <2> DEFINE r == [ModeAp(radio) EXCEPT !.ap = FALSE]
  <2>1. Sound(r) /\ r.ap = FALSE
    BY <1>2 DEF Sound, Radios
  <2>2. /\ radio' = r /\ task' = "rest" /\ task = "open"
        /\ guest' = (guest /\ radio'.ap)
        /\ UNCHANGED <<config, inRange, station, begin, portal, due, recovery, booted>>
    BY <1>8 DEF OpenFails, GuestStays
  <2> HIDE DEF r
  <2>3. Sound(radio') /\ guest' = FALSE
    BY <1>0, <2>1, <2>2
  <2>4. ~portal.on /\ ~portal.clients BY <2>2 DEF Decisions, MayOpen, Users
  <2>5. Inv' BY <1>0, <1>t, <2>2, <2>3, <2>4 DEF Typed
  <2>6. Promises BY <2>2, <2>4 DEF Promises, ProbesAlone, ProbeIsBegun, OpensForAReason, GuestKeepsPortal
  <2> QED BY <2>5, <2>6
<1>9. CASE Policy
  <2>1. portal.on /\ recovery = "none" BY <1>9 DEF Policy
  <2>2. /\ Surveyed \in Portals /\ Surveyed.on = TRUE /\ Surveyed.clients = guest
        /\ (guest => Surveyed.seen) /\ (portal.seen => Surveyed.seen)
        /\ Surveyed.probing = portal.probing
    BY <1>1, <2>1
  <2>3. \A b \in BOOLEAN, o \in {"young", portal.probe} :
          LET p == [Surveyed EXCEPT !.probing = b, !.probe = o] IN
          p \in Portals /\ p.on = TRUE /\ p.clients = guest /\ (guest => p.seen) /\ p.probing = b
    BY <1>0, <2>2 DEF Portals
  <2>4. /\ due' = FALSE /\ UNCHANGED <<config, inRange, begin, booted, recovery, guest>>
    BY <1>9 DEF Policy, Pass
  <2>5. /\ portal' \in Portals /\ portal'.on = TRUE /\ portal'.clients = guest /\ (guest => portal'.seen)
        /\ task' \in {"rest", "quiet"} /\ (task' = "quiet" => ~portal'.probing)
        /\ Sound(radio') /\ radio'.ap = radio.ap /\ station' \in Stations
        /\ ProbesAlone
    <3>1. CASE Pass([Surveyed EXCEPT !.probing = FALSE], "quiet") /\ UNCHANGED <<radio, station>>
      <4>1. portal' = [Surveyed EXCEPT !.probing = FALSE] /\ task' = "quiet"
        BY <3>1 DEF Pass
      <4>2. portal'.probing = FALSE /\ portal' \in Portals /\ portal'.on = TRUE /\ portal'.clients = guest
            /\ (guest => portal'.seen)
        BY <2>2, <4>1 DEF Portals
      <4> QED BY <1>0, <3>1, <4>1, <4>2 DEF ProbesAlone, ProbeIsBegun
    <3>2. CASE /\ Pass(Surveyed, "rest")
               /\ \/ station' = Quiet(station, radio) /\ radio' = QuietRadio(station, radio)
                  \/ UNCHANGED <<radio, station>>
      <4>1. portal' = Surveyed /\ task' = "rest" BY <3>2 DEF Pass
      <4> QED BY <1>0, <1>2, <1>3, <2>2, <3>2, <4>1 DEF ProbesAlone, ProbeIsBegun
    <3>3. CASE /\ ~HoldApOnly(Surveyed) /\ Reconnect
               /\ Pass([Surveyed EXCEPT !.probing = TRUE, !.probe = "young"], "rest")
      <4>1. portal' = [Surveyed EXCEPT !.probing = TRUE, !.probe = "young"] /\ task' = "rest"
        BY <3>3 DEF Pass
      <4>2. /\ portal' \in Portals /\ portal'.on = TRUE /\ portal'.clients = guest
            /\ (guest => portal'.seen) /\ portal'.configured = Surveyed.configured
        BY <2>2, <4>1 DEF Portals
      <4>3. Surveyed.configured /\ ~Surveyed.clients /\ ~Surveyed.seen
        BY <3>3 DEF HoldApOnly
      <4>4. ProbesAlone BY <2>1, <2>2, <4>2, <4>3 DEF ProbesAlone
      <4>5. Sound(radio') /\ radio'.ap = radio.ap /\ station' \in Stations
        BY <1>2, <1>3, <3>3 DEF Reconnect
      <4> QED BY <4>1, <4>2, <4>4, <4>5
    <3> QED BY <1>9, <3>1, <3>2, <3>3 DEF Policy
  <2>6. Inv' BY <1>0, <1>t, <2>1, <2>4, <2>5
  <2>7. OpensForAReason /\ GuestKeepsPortal
    BY <1>0, <2>1, <2>4, <2>5 DEF OpensForAReason, GuestKeepsPortal
  <2> QED BY <2>5, <2>6, <2>7 DEF Promises
<1>10. CASE EndProbe
  <2>1. /\ task = "quiet" /\ task' = "rest" /\ radio' = ModeAp(radio) /\ station' = Quiet(station, radio)
        /\ UNCHANGED <<config, inRange, begin, portal, due, recovery, booted, guest>>
    BY <1>10 DEF EndProbe, QuietProbe
  <2>2. Inv' BY <1>0, <1>2, <1>3, <1>t, <2>1 DEF Typed, Users
  <2>3. Promises BY <2>1, <2>2, NothingPromised
  <2> QED BY <2>2, <2>3
<1>11. CASE Close
  <2> DEFINE p == [portal EXCEPT !.probing = FALSE]
  <2>1. /\ p \in Portals /\ p.on = portal.on /\ p.clients = portal.clients /\ p.seen = portal.seen
        /\ p.probing = FALSE
    BY <1>0 DEF Portals
  <2>2. /\ task = "close" /\ task' = "closing" /\ portal' = p
        /\ UNCHANGED <<config, inRange, begin, due, recovery, booted, guest>>
        /\ \/ radio' = ModeAp(radio) /\ station' = Quiet(station, radio)
           \/ UNCHANGED <<radio, station>>
    BY <1>11 DEF Close, QuietProbe
  <2> HIDE DEF p
  <2>3. portal.on BY <2>2 DEF Decisions
  <2>4. Sound(radio') /\ (radio.ap => radio'.ap) /\ station' \in Stations
    BY <1>0, <1>2, <1>3, <2>2
  <2>5. Inv' BY <1>0, <1>t, <2>1, <2>2, <2>3, <2>4 DEF Typed, Users
  <2>6. Promises BY <2>1, <2>2, <2>5, NothingPromised
  <2> QED BY <2>5, <2>6
<1>12. CASE Closed
  <2> DEFINE p == [portal EXCEPT !.on = FALSE, !.clients = FALSE, !.seen = FALSE, !.probe = "young"]
             r == [radio EXCEPT !.ap = FALSE]
  <2>1. p \in Portals /\ p.on = FALSE /\ p.clients = FALSE /\ p.probing = portal.probing
    BY <1>0 DEF Portals
  <2>2. Sound(r) /\ r.ap = FALSE
    BY <1>0 DEF Sound, Radios
  <2>3. /\ task = "closing" /\ task' = "rest" /\ portal' = p /\ radio' = r
        /\ station' = Retrying(station) /\ guest' = (guest /\ radio'.ap)
        /\ UNCHANGED <<config, inRange, begin, due, recovery, booted>>
    BY <1>12 DEF Closed, GuestStays
  <2> HIDE DEF p, r
  <2>4. guest' = FALSE BY <1>0, <2>2, <2>3
  <2>5. Inv' BY <1>0, <1>3, <1>t, <2>1, <2>2, <2>3, <2>4 DEF Typed
  <2>6. Promises
    BY <1>12, <2>1, <2>3 DEF Promises, ProbesAlone, ProbeIsBegun, OpensForAReason, GuestKeepsPortal
  <2> QED BY <2>5, <2>6
<1> QED
  BY <1>4, <1>5, <1>6, <1>7, <1>8, <1>9, <1>10, <1>11, <1>12 DEF ProvisioningTask

(* Timers, users and settings.                                              *)
LEMMA UserStep ==
  ASSUME Inv,
         \/ PollDue \/ BootTimeout \/ RecoveryElapses \/ ProbeAges \/ GraceEnds
         \/ Join \/ Leave \/ WebSettings \/ OtherSettings
  PROVE  Inv' /\ Promises
<1> USE DEF Inv
<1>0. /\ Typed /\ Users /\ portal \in Portals /\ Sound(radio) /\ station \in Stations
      /\ guest \in BOOLEAN /\ (guest => radio.ap)
  BY DEF Typed
<1>t. ASSUME UNCHANGED <<inRange, begin, task>>, begin.at = "rest", task = "rest",
             config' \in Settings, Sound(radio'), radio'.ap = radio.ap, station' \in Stations,
             portal' \in Portals, due' \in BOOLEAN, recovery' \in {"none", "open", "elapsed"},
             booted' \in BOOLEAN, guest' \in BOOLEAN, guest' => radio.ap,
             portal'.on = portal.on, portal'.probing = portal.probing,
             portal'.clients <=> portal.on /\ guest', portal'.clients => portal'.seen,
             guest /\ ~guest' => Leave
      PROVE  Inv' /\ Promises
  <2>1. Typed' BY <1>0, <1>t DEF Typed
  <2>2. Users' BY <1>t DEF Users
  <2>3. Decisions' BY <1>t DEF Decisions
  <2>4. Promises
    BY <1>0, <1>t DEF Promises, ProbesAlone, ProbeIsBegun, OpensForAReason, GuestKeepsPortal
  <2> QED BY <2>1, <2>2, <2>3, <2>4
<1>1. CASE PollDue \/ BootTimeout \/ RecoveryElapses
  <2>1. /\ UNCHANGED <<config, inRange, radio, station, begin, portal, task, guest>>
        /\ begin.at = "rest" /\ task = "rest" /\ due' \in BOOLEAN /\ booted' \in BOOLEAN
        /\ recovery' \in {"none", "open", "elapsed"}
    BY <1>1 DEF PollDue, BootTimeout, RecoveryElapses, Settled, stationVars, Typed
  <2> QED BY <1>0, <1>t, <2>1 DEF Typed, Users
<1>2. CASE ProbeAges
  <2> DEFINE o == IF portal.probe = "young" THEN "window" ELSE "interval"
             p == [portal EXCEPT !.probe = o]
  <2>1. o \in {"young", "window", "interval"} OBVIOUS
  <2>2. portal' = p BY <1>2 DEF ProbeAges
  <2> HIDE DEF o
  <2>3. /\ p \in Portals /\ p.on = portal.on /\ p.clients = portal.clients /\ p.seen = portal.seen
        /\ p.probing = portal.probing
    BY <1>0, <2>1 DEF Portals
  <2> HIDE DEF p
  <2>4. /\ UNCHANGED <<config, inRange, radio, station, begin, task, due, recovery, booted, guest>>
        /\ begin.at = "rest" /\ task = "rest"
    BY <1>2 DEF ProbeAges, Settled, stationVars
  <2> QED BY <1>0, <1>t, <2>2, <2>3, <2>4 DEF Typed, Users
<1>3. CASE GraceEnds
  <2> DEFINE p == [portal EXCEPT !.seen = FALSE]
  <2>1. /\ p \in Portals /\ p.on = portal.on /\ p.clients = portal.clients
        /\ p.probing = portal.probing
    BY <1>0 DEF Portals
  <2>2. /\ portal' = p /\ ~portal.clients
        /\ UNCHANGED <<config, inRange, radio, station, begin, task, due, recovery, booted, guest>>
        /\ begin.at = "rest" /\ task = "rest"
    BY <1>3 DEF GraceEnds, Settled, stationVars
  <2> HIDE DEF p
  <2> QED BY <1>0, <1>t, <2>1, <2>2 DEF Typed, Users
<1>4. CASE Join
  <2> DEFINE s == portal.seen \/ portal.on
             p == [portal EXCEPT !.clients = portal.on, !.seen = s]
  <2>1. s \in BOOLEAN /\ (portal.on => s) BY <1>0 DEF Portals
  <2>2. portal' = p BY <1>4 DEF Join
  <2> HIDE DEF s
  <2>3. /\ p \in Portals /\ p.on = portal.on /\ p.clients = portal.on /\ p.seen = s
        /\ p.probing = portal.probing
    BY <1>0, <2>1 DEF Portals
  <2> HIDE DEF p
  <2>4. /\ UNCHANGED <<config, inRange, radio, station, begin, task, due, recovery, booted>>
        /\ begin.at = "rest" /\ task = "rest" /\ guest' = TRUE /\ radio.ap
    BY <1>4 DEF Join, Settled, stationVars
  <2> QED BY <1>0, <1>t, <2>1, <2>2, <2>3, <2>4 DEF Typed
<1>5. CASE Leave
  <2> DEFINE p == [portal EXCEPT !.clients = FALSE]
  <2>1. /\ p \in Portals /\ p.on = portal.on /\ p.clients = FALSE
        /\ p.probing = portal.probing
    BY <1>0 DEF Portals
  <2>2. /\ portal' = p /\ guest' = FALSE
        /\ UNCHANGED <<config, inRange, radio, station, begin, task, due, recovery, booted>>
        /\ begin.at = "rest" /\ task = "rest"
    BY <1>5 DEF Leave, Settled, stationVars
  <2> HIDE DEF p
  <2> QED BY <1>0, <1>5, <1>t, <2>1, <2>2 DEF Typed
<1>6. CASE WebSettings
  <2>1. /\ Sound(Disconnected(radio)) /\ Disconnected(radio).ap = radio.ap
        /\ Enter(Retrying(station), "Idle") \in Stations
    BY <1>0, RadioFacts, StationFacts
  <2>2. /\ radio' = Disconnected(radio) /\ station' = Enter(Retrying(station), "Idle")
        /\ config' \in Settings /\ due' = TRUE
        /\ UNCHANGED <<inRange, begin, portal, task, recovery, booted, guest>>
        /\ begin.at = "rest" /\ task = "rest"
    BY <1>6 DEF WebSettings, Reconnect, Settled
  <2> QED BY <1>0, <1>t, <2>1, <2>2 DEF Typed, Users
<1>7. CASE OtherSettings
  <2>1. /\ config' \in Settings
        /\ UNCHANGED <<inRange, radio, station, begin, portal, task, due, recovery, booted, guest>>
        /\ begin.at = "rest" /\ task = "rest"
    BY <1>7 DEF OtherSettings, Settled, portalVars
  <2> QED BY <1>0, <1>t, <2>1 DEF Typed, Users
<1> QED BY <1>1, <1>2, <1>3, <1>4, <1>5, <1>6, <1>7

(* Every step keeps the invariant and the promises.                         *)
LEMMA Step ==
  ASSUME Inv, [Next]_vars
  PROVE  Inv' /\ (Promises \/ UNCHANGED vars)
<1>1. CASE UNCHANGED vars
  <2>1. UNCHANGED <<config, inRange, radio, station, begin, portal, task, due, recovery, booted, guest>>
    BY <1>1 DEF vars, stationVars, portalVars
  <2> QED BY <1>1, <2>1 DEF Inv, Typed, Users, Decisions, MayOpen, HasReason
<1>2. CASE \/ Beside(WifiTask) \/ Beside(StartFails) \/ StationAges
           \/ Beside(Associate) \/ Beside(LinkLost) \/ Beside(NetworkComesAndGoes)
  <2>1. StationActs /\ UNCHANGED <<portal, task, due, recovery, booted>> /\ GuestStays
    BY <1>2 DEF Beside, StationAges, StationActs
  <2>2. Inv' /\ guest' = guest BY <2>1, BesideStep
  <2>3. Promises BY <2>1, <2>2, NothingPromised DEF Inv
  <2> QED BY <2>2, <2>3
<1>3. CASE ProvisioningTask \/ OpenFails BY <1>3, TaskStep
<1>4. CASE \/ PollDue \/ BootTimeout \/ RecoveryElapses \/ ProbeAges \/ GraceEnds
           \/ Join \/ Leave \/ WebSettings \/ OtherSettings
  BY <1>4, UserStep
<1> QED BY <1>1, <1>2, <1>3, <1>4 DEF Next

(* The invariant always holds.                                              *)
LEMMA InvHolds == Spec => []Inv
<1>1. Inv /\ [Next]_vars => Inv' BY Step
<1> QED BY <1>1, InvInit, PTL DEF Spec

(* The records hold what they may, nobody is on an access point that is    *)
(* off, and there is no link without the station mode, whichever of the two *)
(* tasks has last written the mode of the radio.                           *)
THEOREM TypeCorrect == Spec => []TypeOK
<1>1. Inv => TypeOK BY TypedIsTypeOK DEF Inv
<1> QED BY <1>1, InvHolds, PTL

(* The guests that the module counts, from events and from polls, are those *)
(* that are on its access point: it never forgets one, nor remembers one    *)
(* who was lost to a step of the wifi task.                                *)
THEOREM ClientsAreGuests == Spec => [](portal.clients <=> portal.on /\ guest)
<1>1. Inv => (portal.clients <=> portal.on /\ guest) BY DEF Inv, Users
<1> QED BY <1>1, InvHolds, PTL

(* handleStaProbePolicy_: no probe is begun over the head of a guest, nor   *)
(* while one may come back, nor for a station without a network.           *)
THEOREM NoProbeOverGuests == Spec => [][ProbesAlone]_vars
<1>1. Inv /\ [Next]_vars => [ProbesAlone]_vars BY Step DEF Promises
<1> QED BY <1>1, InvHolds, PTL DEF Spec

(* ensurePortalStarted_: when the access point comes up, the reason it was  *)
(* decided on still holds, and the portal has not been open for it before.  *)
THEOREM PortalHasReason == Spec => [][OpensForAReason]_vars
<1>1. Inv /\ [Next]_vars => [OpensForAReason]_vars BY Step DEF Promises
<1> QED BY <1>1, InvHolds, PTL DEF Spec

(* startConnect writes a mode of the radio that it has read a while before, *)
(* and the provisioning task writes modes of its own; none of them ever     *)
(* takes the access point from a guest of the portal: it goes only when the *)
(* portal closes.                                                          *)
THEOREM GuestIsNotThrownOff == Spec => [][GuestKeepsPortal]_vars
<1>1. Inv /\ [Next]_vars => [GuestKeepsPortal]_vars BY Step DEF Promises
<1> QED BY <1>1, InvHolds, PTL DEF Spec
=============================================================================
