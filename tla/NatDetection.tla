---------------------------- MODULE NatDetection ----------------------------
(***************************************************************************)
(* Detection of the NAT device of a client (NATify.c, NNStartNatDetection  *)
(* and CheckNatifyStatus of natneg.c): three reachability requests from    *)
(* one socket and four mapping requests from another, which the matchup    *)
(* servers answer; what has come after NATIFY_TIMEOUT is what there is.    *)
(* The device is external: it drops what it filters.                       *)
(***************************************************************************)
EXTENDS Integers, FiniteSets

CONSTANTS
  MaxDetections,  \* bound on the calls of NNStartNatDetection
  MaxLost         \* bound on lost answers
DetectionAssumption == MaxDetections \in Nat /\ MaxLost \in Nat

VARIABLES
  device,    \* external: the device in front of this client
  got,       \* gotERT1..3, gotADDRESS1a, 1b, 2, 3
  mappings,  \* public port of each mapping packet, or 0
  sameIp,    \* the public address of map1a is the private one
  allowed,   \* {"ip", "port"} minus ipRestricted, portRestricted
  nat,       \* the last result handed to natifyCallback
  active,    \* activeNatify
  due,       \* answers on their way
  started, called, lost   \* detections started, callbacks, answers lost in this detection

vars == <<device, got, mappings, sameIp, allowed, nat, active, due, started, called, lost>>
-----------------------------------------------------------------------------
(***************************************************************************)
(* The device: what it filters, and the public ports it gives to the       *)
(* packets 1a, 1b, 2, 3 from private port 1.                               *)
(***************************************************************************)
Maps == {"map1a", "map1b", "map2", "map3"}
MappedTo(a, b, c, d) == [map1a |-> a, map1b |-> b, map2 |-> c, map3 |-> d]
PrivatePort == 1
Schemes ==
  [none         |-> MappedTo(1, 1, 1, 1),   private_as_public |-> MappedTo(1, 1, 1, 1),
   consistent   |-> MappedTo(5, 5, 5, 5),   mixed             |-> MappedTo(1, 1, 6, 7),
   incremental  |-> MappedTo(5, 5, 6, 7),   random            |-> MappedTo(5, 5, 9, 3),
   per_packet   |-> MappedTo(5, 6, 7, 8)]

\* Drops nothing, packets from unsolicited addresses, or from unsolicited ports too.
Filters == {{}, {"ip"}, {"ip", "port"}}
Devices == [scheme : DOMAIN Schemes, filters : Filters]
Translates(d) == d.scheme # "none"

ReachTests == {"ert1", "ert2", "ert3"}
Tests == ReachTests \union Maps
Passes(d) == {t \in Tests : /\ t = "ert2" => "ip" \notin d.filters
                            /\ t = "ert3" => "port" \notin d.filters}
-----------------------------------------------------------------------------
(***************************************************************************)
(* DetermineNatType                                                        *)
(***************************************************************************)
NoResult == [success |-> FALSE, type |-> "unknown", promiscuity |-> "not_applicable",
             scheme |-> "unrecognized", qr2 |-> TRUE]

Crucial(map) == map["map1a"] # 0 /\ map["map2"] # 0 /\ map["map3"] # 0
Distance(x, y) == IF x > y THEN x - y ELSE y - x

\* Seeded fault: consecutive ports pass for equal ones.
PortsFarApart(map) == Distance(map["map3"], map["map2"]) > 1

PortsDiffer(map) == Distance(map["map3"], map["map2"]) >= 1

NatType(map, free, samePublicIp) ==
  CASE samePublicIp /\ free = {"ip", "port"} -> "no_nat"
    [] samePublicIp /\ free # {"ip", "port"} -> "firewall_only"
    [] ~samePublicIp /\ PortsDiffer(map) -> "symmetric"
    [] ~samePublicIp /\ ~PortsDiffer(map) /\ "port" \notin free -> "port_restricted_cone"
    [] ~samePublicIp /\ ~PortsDiffer(map) /\ free = {"port"} -> "restricted_cone"
    [] ~samePublicIp /\ ~PortsDiffer(map) /\ free = {"ip", "port"} -> "full_cone"

Promiscuity(type, free) ==
  CASE type # "symmetric" -> "not_applicable"
    [] type = "symmetric" /\ free = {"ip", "port"} -> "promiscuous"
    [] type = "symmetric" /\ free = {"port"} -> "port_promiscuous"
    [] type = "symmetric" /\ free = {"ip"} -> "ip_promiscuous"
    [] type = "symmetric" /\ free = {} -> "not_promiscuous"

MappingScheme(map) ==
  CASE \A x \in {"map1a", "map2", "map3"} : map[x] = PrivatePort -> "private_as_public"
    [] map["map1a"] = map["map2"] /\ map["map2"] = map["map3"] /\ map["map1a"] # PrivatePort -> "consistent_port"
    [] map["map1a"] = PrivatePort /\ map["map3"] - map["map2"] = 1 -> "mixed"
    [] map["map1a"] # PrivatePort /\ map["map3"] - map["map2"] = 1 -> "incremental"
    [] OTHER -> "unrecognized"

DetermineNatType(map, free, samePublicIp) ==
  IF ~Crucial(map) THEN NoResult
  ELSE LET type == NatType(map, free, samePublicIp) IN
       [success |-> TRUE, type |-> type, promiscuity |-> Promiscuity(type, free),
        scheme |-> MappingScheme(map), qr2 |-> map["map1b"] \in {0, map["map1a"]}]
-----------------------------------------------------------------------------
Nothing == [x \in Maps |-> 0]

Init ==
  /\ device \in Devices
  /\ got = {} /\ mappings = Nothing /\ sameIp = FALSE /\ allowed = {} /\ nat = NoResult
  /\ active = FALSE /\ due = {} /\ started = 0 /\ called = 0 /\ lost = 0

\* Seeded fault: the answers of the detection before count for the next.
KeepsAllowed == allowed

AllowedAtStart == {}

\* Perhaps on another network.  The flags in got and the mappings are those of the detection before.
NNStartNatDetection ==
  /\ started < MaxDetections /\ ~active
  /\ started' = started + 1
  /\ active' = TRUE
  /\ allowed' = AllowedAtStart
  /\ device' \in Devices
  /\ due' = Passes(device')
  /\ lost' = 0
  /\ UNCHANGED <<got, mappings, sameIp, nat, called>>

Think(t) ==
  /\ active /\ got # Tests /\ t \in due
  /\ due' = due \ {t}
  /\ got' = got \union {t}
  /\ allowed' = allowed \union CASE t = "ert2" -> {"ip"} [] t = "ert3" -> {"port"} [] OTHER -> {}
  /\ mappings' = IF t \in Maps THEN [mappings EXCEPT ![t] = Schemes[device.scheme][t]] ELSE mappings
  /\ sameIp' = IF t = "map1a" THEN ~Translates(device) ELSE sameIp
  /\ UNCHANGED <<device, nat, active, started, called, lost>>

Inactive == FALSE

\* Every flag in got is set, or NATIFY_TIMEOUT is over: the sockets are closed.
CheckNatifyStatus ==
  /\ active
  /\ nat' = DetermineNatType(mappings, allowed, sameIp)
  /\ called' = called + 1
  /\ active' = Inactive
  /\ due' = {}
  /\ UNCHANGED <<device, got, mappings, sameIp, allowed, started, lost>>

Lose(t) ==
  /\ t \in due /\ lost < MaxLost
  /\ due' = due \ {t}
  /\ lost' = lost + 1
  /\ UNCHANGED <<device, got, mappings, sameIp, allowed, nat, active, started, called>>

Next ==
  \/ NNStartNatDetection \/ CheckNatifyStatus
  \/ \E t \in Tests : Think(t) \/ Lose(t)

Spec == Init /\ [][Next]_vars
-----------------------------------------------------------------------------
TypeOK ==
  /\ device \in Devices /\ got \subseteq Tests /\ mappings \in [Maps -> 0..9]
  /\ sameIp \in BOOLEAN /\ allowed \subseteq {"ip", "port"} /\ active \in BOOLEAN /\ due \subseteq Tests
  /\ nat.success \in BOOLEAN
  /\ started \in 0..MaxDetections /\ called \in 0..MaxDetections /\ lost \in 0..MaxLost

(***************************************************************************)
(* Every detection is told once.                                           *)
(***************************************************************************)
ToldOnce == called = IF active THEN started - 1 ELSE started

(***************************************************************************)
(* RFC 2663 of the device, as a reference for what DetermineNatType finds. *)
(***************************************************************************)
TypeOf(d) ==
  CASE ~Translates(d) -> IF d.filters = {} THEN "no_nat" ELSE "firewall_only"
    [] d.scheme \in {"mixed", "incremental", "random", "per_packet"} -> "symmetric"
    [] d.scheme \in {"private_as_public", "consistent"} ->
         IF d.filters = {} THEN "full_cone" ELSE IF "port" \in d.filters THEN "port_restricted_cone"
         ELSE "restricted_cone"

RightFor(d, result) ==
  result.success => result.type = TypeOf(d) /\ (result.qr2 = (d.scheme # "per_packet"))

\* Not by the timeout: everything has come that can, or the flags say so.
Completes == called' = called + 1 /\ lost = 0 /\ (due = {} \/ got = Tests)

(***************************************************************************)
(* The first detection of the program, when every answer came in time,     *)
(* succeeds and finds the type of the device.                              *)
(***************************************************************************)
FirstIsRight == Completes /\ started = 1 => nat'.success /\ RightFor(device, nat')
FirstFindsDevice == [][FirstIsRight]_vars

(***************************************************************************)
(* Whatever is lost, late, or left from the detection before: a device     *)
(* that filters is never reported as one that does not.                    *)
(***************************************************************************)
NeverTooOpen ==
  nat.type \in {"no_nat", "full_cone"} \/ nat.promiscuity = "promiscuous" =>
    active \/ device.filters = {}

(***************************************************************************)
(* Why: a detection hears no answer that the device drops, and the first   *)
(* knows of what it has heard, and of nothing else.                        *)
(***************************************************************************)
HeardFromDevice ==
  active => /\ due \subseteq Passes(device)
            /\ allowed \intersect device.filters = {}
FirstInv ==
  /\ HeardFromDevice
  /\ started = 0 => got = {}
  /\ started <= 1 =>
       /\ \A t \in Maps : mappings[t] = IF t \in got THEN Schemes[device.scheme][t] ELSE 0
       /\ sameIp = ("map1a" \in got /\ ~Translates(device))
       /\ "ip" \in allowed <=> "ert2" \in got
       /\ "port" \in allowed <=> "ert3" \in got
       /\ active /\ lost = 0 => got \union due = Passes(device)
=============================================================================
