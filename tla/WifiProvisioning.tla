-------------------------- MODULE WifiProvisioning --------------------------
(***************************************************************************)
(* WifiProvisioningModule: the access point that opens when the station    *)
(* cannot connect, in a task of its own beside the wifi task.  While the   *)
(* portal is open the station is held back, but for short probes made when *)
(* nobody is using the portal.  A controller on Ethernet is left out.      *)
(***************************************************************************)
EXTENDS WifiStation

VARIABLES
  portal,    \* apActive_, portalLatched_, staProbeActive_, the clients it knows of,
             \* wifiConfigured_, and how old the last probe is
  task,      \* the next step of a decision the task has taken
  due,       \* configDirty_, or the next poll of the settings and the clients is due
  recovery,  \* the physical recovery window: none, open, or elapsed
  booted,    \* has the connect time-out since boot passed
  guest      \* is a client on the access point

portalVars == <<portal, task, due, recovery, booted, guest>>
vars == <<stationVars, portalVars>>

-----------------------------------------------------------------------------
(* refreshWifiConfig_, when it is due *)
Refreshed ==
  [portal EXCEPT !.configured = IF due THEN config = "on" ELSE portal.configured]

(* evaluatePortalReason_, and the guards of ensurePortalStarted_ *)
HasReason(p) == recovery # "none" \/ ~p.configured \/ booted

MayOpen(p) == ~p.on /\ ~p.latched /\ HasReason(p)

(* refreshApClientState_ *)
Counted(p) ==
  IF p.on THEN [p EXCEPT !.clients = guest, !.seen = p.seen \/ guest] ELSE [p EXCEPT !.clients = FALSE]

(* Whoever loses the access point is no longer on it. *)
GuestStays == guest' = (guest /\ radio'.ap)

(* Every pass begins with the poll of the settings. *)
Pass(p, next) ==
  /\ portal' = p /\ task' = next /\ due' = FALSE
  /\ UNCHANGED <<config, inRange, begin, booted>>

(* The recovery window has elapsed. *)
EndRecovery ==
  /\ task = "rest" /\ recovery = "elapsed" /\ recovery' = "none"
  /\ portal' = [Refreshed EXCEPT !.latched = FALSE]
  /\ task' = IF portal.on THEN "close" ELSE "rest"
  /\ due' = TRUE
  /\ UNCHANGED <<stationVars, booted, guest>>

(* The station is connected: the portal closes, and may open again. *)
StationUp ==
  /\ task = "rest" /\ recovery = "none" /\ radio.link = "up"
  /\ Pass([Refreshed EXCEPT !.latched = FALSE], IF portal.on THEN "close" ELSE "rest")
  /\ UNCHANGED <<radio, station, recovery, guest>>

(* ensurePortalStarted_; in the recovery window whatever the station does. *)
DecideToOpen ==
  /\ task = "rest"
  /\ recovery = "open" \/ (recovery = "none" /\ radio.link # "up")
  /\ IF MayOpen(Refreshed)
     THEN /\ Pass(Refreshed, "open")
          /\ station' = Quiet(station, radio) /\ radio' = QuietRadio(station, radio)
     ELSE /\ ~portal.on \/ recovery = "open"
          /\ Pass(Refreshed, "rest") /\ UNCHANGED <<radio, station>>
  /\ UNCHANGED <<recovery, guest>>

(* WiFi.mode and softAP *)
Open ==
  /\ task = "open" /\ task' = "rest"
  /\ radio' = ModeAp(radio)
  /\ portal' = [portal EXCEPT !.on = TRUE, !.latched = TRUE, !.probing = FALSE, !.probe = "young",
                              !.clients = guest, !.seen = portal.seen \/ guest]
  /\ UNCHANGED <<config, inRange, station, begin, due, recovery, booted, guest>>

(* softAP refuses; the station has been told to be quiet all the same. *)
OpenFails ==
  /\ task = "open" /\ task' = "rest"
  /\ radio' = [ModeAp(radio) EXCEPT !.ap = FALSE]
  /\ GuestStays
  /\ UNCHANGED <<config, inRange, station, begin, portal, due, recovery, booted>>

(* handleStaProbePolicy_, with the poll of the clients when it is due *)
Surveyed == IF due THEN Counted(Refreshed) ELSE Refreshed

(* Mutant: whoever uses the portal does not hold a probe off. *)
HoldApOnlyUnconfigured(p) == ~p.configured

HoldApOnly(p) == p.clients \/ p.seen \/ ~p.configured

Policy ==
  /\ task = "rest" /\ recovery = "none" /\ radio.link # "up" /\ portal.on
  /\ \/ /\ portal.probing /\ (HoldApOnly(Surveyed) \/ portal.probe # "young")
        /\ Pass([Surveyed EXCEPT !.probing = FALSE], "quiet")
        /\ UNCHANGED <<radio, station>>
     \/ /\ ~portal.probing /\ HoldApOnly(Surveyed)
        /\ Pass(Surveyed, "rest")
        /\ station' = Quiet(station, radio) /\ radio' = QuietRadio(station, radio)
     \/ /\ ~portal.probing /\ ~HoldApOnly(Surveyed) /\ portal.probe = "interval"
        /\ Pass([Surveyed EXCEPT !.probing = TRUE, !.probe = "young"], "rest")
        /\ Reconnect
     \/ /\ ~HoldApOnly(Surveyed)
        /\ portal.probe = "young" \/ (~portal.probing /\ portal.probe = "window")
        /\ Pass(Surveyed, "rest") /\ UNCHANGED <<radio, station>>
  /\ UNCHANGED <<recovery, guest>>

(* Mutant: the radio is left in the mode the probe left it in. *)
QuietProbeInItsMode ==
  /\ station' = Quiet(station, radio)
  /\ radio' = QuietRadio(station, radio)

(* stopStaProbe_: the station is held back, and the radio is brought back to *)
(* the access point alone, whatever mode it was left in.                     *)
QuietProbe ==
  /\ station' = Quiet(station, radio)
  /\ radio' = ModeAp(radio)

EndProbe ==
  /\ task = "quiet" /\ task' = "rest"
  /\ QuietProbe
  /\ UNCHANGED <<config, inRange, begin, portal, due, recovery, booted, guest>>

(* stopCaptivePortal_ *)
Close ==
  /\ task = "close" /\ task' = "closing"
  /\ portal' = [portal EXCEPT !.probing = FALSE]
  /\ IF portal.probing /\ radio.link # "up" THEN QuietProbe ELSE UNCHANGED <<radio, station>>
  /\ UNCHANGED <<config, inRange, begin, due, recovery, booted, guest>>

Closed ==
  /\ task = "closing" /\ task' = "rest"
  /\ station' = Retrying(station)
  /\ radio' = [radio EXCEPT !.ap = FALSE]
  /\ portal' = [portal EXCEPT !.on = FALSE, !.clients = FALSE, !.seen = FALSE, !.probe = "young"]
  /\ GuestStays
  /\ UNCHANGED <<config, inRange, begin, due, recovery, booted>>

ProvisioningTask ==
  EndRecovery \/ StationUp \/ DecideToOpen \/ Open \/ Policy \/ EndProbe \/ Close \/ Closed
-----------------------------------------------------------------------------
(* Time: the timers of the portal, each some while after it was started.   *)
(* A pass takes microseconds, and timers, users and requests take seconds: *)
(* they wait for the decisions the tasks are carrying out.                 *)
Settled == task = "rest" /\ begin.at = "rest"

PollDue == Settled /\ ~due /\ due' = TRUE /\ UNCHANGED <<stationVars, portal, task, recovery, booted, guest>>

BootTimeout == Settled /\ ~booted /\ booted' = TRUE /\ UNCHANGED <<stationVars, portal, task, due, recovery, guest>>

RecoveryElapses ==
  Settled /\ recovery = "open" /\ recovery' = "elapsed" /\ UNCHANGED <<stationVars, portal, task, due, booted, guest>>

(* A probe, too, ends at the pass that finds its window over, and the wifi *)
(* task comes round within it.                                             *)
ProbeAges ==
  /\ Settled /\ portal.on /\ portal.probe # "interval"
  /\ portal.probing => portal.probe = "young" /\ ~StartPending
  /\ portal' = [portal EXCEPT !.probe = IF portal.probe = "young" THEN "window" ELSE "interval"]
  /\ UNCHANGED <<stationVars, task, due, recovery, booted, guest>>

GraceEnds ==
  /\ Settled /\ portal.seen /\ ~portal.clients /\ portal' = [portal EXCEPT !.seen = FALSE]
  /\ UNCHANGED <<stationVars, task, due, recovery, booted, guest>>

(* Users.  The event of the driver that a client came or went is handled at once. *)
Join ==
  /\ Settled /\ radio.ap /\ ~guest /\ guest' = TRUE
  /\ portal' = [portal EXCEPT !.clients = portal.on, !.seen = portal.seen \/ portal.on]
  /\ UNCHANGED <<stationVars, task, due, recovery, booted>>

Leave ==
  /\ Settled /\ guest /\ guest' = FALSE
  /\ portal' = [portal EXCEPT !.clients = FALSE]
  /\ UNCHANGED <<stationVars, task, due, recovery, booted>>

(* The web page stores settings and calls notifyWifiConfigChanged_. *)
WebSettings ==
  /\ Settled /\ (guest \/ radio.link = "up")
  /\ config' \in Settings
  /\ due' = TRUE
  /\ Reconnect
  /\ UNCHANGED <<inRange, begin, portal, task, recovery, booted, guest>>

(* Settings that come by another way are found by the poll. *)
OtherSettings ==
  /\ Settled
  /\ config' \in Settings \ {config}
  /\ UNCHANGED <<inRange, radio, station, begin, portalVars>>
-----------------------------------------------------------------------------
Init ==
  /\ StationInit
  /\ portal = [on |-> FALSE, latched |-> FALSE, probing |-> FALSE, clients |-> FALSE, seen |-> FALSE,
               configured |-> config = "on", probe |-> "young"]
  /\ task = "rest" /\ due = FALSE /\ recovery \in {"none", "open"} /\ booted = FALSE /\ guest = FALSE

(* The station beside the portal. *)
Beside(A) == A /\ UNCHANGED <<portal, task, due, recovery, booted>> /\ GuestStays

(* A connect time-out is longer than a probe, which ends before it. *)
StationAges == Settled /\ Beside(Age) /\ ~(portal.probing /\ station.state = "Connecting")

Next ==
  \/ Beside(WifiTask) \/ Beside(StartFails) \/ StationAges
  \/ Beside(Associate) \/ Beside(LinkLost) \/ Beside(NetworkComesAndGoes)
  \/ ProvisioningTask \/ OpenFails
  \/ PollDue \/ BootTimeout \/ RecoveryElapses \/ ProbeAges \/ GraceEnds
  \/ Join \/ Leave \/ WebSettings \/ OtherSettings

Spec == Init /\ [][Next]_vars

(* An association takes a second or two of the six a probe leaves it, and  *)
(* not always ends between two lines of another task.                      *)
AssociateInPeace ==
  /\ Beside(Associate)
  /\ Settled /\ station.state = "Connecting" /\ station.retry

FairSpec ==
  /\ Spec
  /\ WF_vars(Beside(WifiTask)) /\ WF_vars(ProvisioningTask)
  /\ WF_vars(StationAges) /\ SF_vars(AssociateInPeace)
  /\ WF_vars(PollDue) /\ SF_vars(BootTimeout) /\ SF_vars(RecoveryElapses)
  /\ SF_vars(ProbeAges) /\ WF_vars(GraceEnds)
-----------------------------------------------------------------------------
(* The records hold what they may; nobody is on an access point that is    *)
(* off, and there is no link without the station mode.                     *)
TypeOK ==
  /\ StationOK
  /\ portal \in [on : BOOLEAN, latched : BOOLEAN, probing : BOOLEAN, clients : BOOLEAN, seen : BOOLEAN,
                 configured : BOOLEAN, probe : {"young", "window", "interval"}]
  /\ task \in {"rest", "open", "quiet", "close", "closing"}
  /\ due \in BOOLEAN /\ recovery \in {"none", "open", "elapsed"}
  /\ booted \in BOOLEAN /\ guest \in BOOLEAN
  /\ guest => radio.ap

Reachable == radio.link = "up" \/ (radio.ap /\ portal.on)

RadioFails == OpenFails \/ Beside(StartFails)

(* isWebReachable_: the controller can be reached again and again, through  *)
(* the station or through the portal, whatever the network and the users    *)
(* do, once the radio does what it is told; also after startConnect has     *)
(* switched off the access point that the portal had just opened.  It has a *)
(* network to look for in the end, or never had one.                        *)
ReachableAgain ==
  <>[][~RadioFails]_vars /\ (<>[](config = "on") \/ [](config = "none")) => []<>Reachable

Disturbance == RadioFails \/ Beside(LinkLost) \/ Join \/ WebSettings \/ OtherSettings

(* handleStaProbePolicy_ and loop: with the configured network in range and *)
(* nobody on the portal the station connects and the portal closes, for     *)
(* good once nothing disturbs it, though each of the two tasks may undo     *)
(* what the other has just done.                                            *)
StationReturns ==
  <>[][~Disturbance]_vars /\ <>[](config = "on" /\ inRange /\ ~guest)
    => <>[](radio.link = "up" /\ ~portal.on)

(* handleStaProbePolicy_: for somebody who stays on the portal the attempts *)
(* to connect end, those the web page itself has asked for included: they   *)
(* would take the radio to other channels.                                  *)
GuestIsLeftAlone ==
  <>[](guest /\ portal.on) /\ <>[][~(WebSettings \/ Beside(LinkLost) \/ Beside(StartFails))]_vars
    => <>[](~station.retry /\ station.state # "Connecting" /\ begin.at = "rest")
=============================================================================
