-------------------------------- MODULE MCNat --------------------------------
(***************************************************************************)
(* natneg for TLC: a negotiation, and NAT detections one after the other.  *)
(* part says which of the two a behaviour is about; a detection leaves the *)
(* negotiation as it begins, and in a negotiation the variables of the     *)
(* detection are 0.                                                        *)
(***************************************************************************)
EXTENDS NatNegotiation

CONSTANTS
  MaxDetections,  \* bound on the calls of NNStartNatDetection
  MaxLost         \* bound on lost answers

VARIABLES
  part,
  device, got, mappings, sameIp, allowed, nat, active, due, started, called, lost

detection == <<device, got, mappings, sameIp, allowed, nat, active, due, started, called, lost>>
natVars == <<part, vars, detection>>

Detect == INSTANCE NatDetection

ASSUME NatAssumption /\ Detect!DetectionAssumption

NoDetection ==
  /\ device = 0 /\ got = 0 /\ mappings = 0 /\ sameIp = 0 /\ allowed = 0 /\ nat = 0
  /\ active = 0 /\ due = 0 /\ started = 0 /\ called = 0 /\ lost = 0

NatInit ==
  \/ part = "negotiation" /\ Init /\ NoDetection
  \/ part = "detection" /\ Init /\ ~useQueue /\ Detect!Init

NatNext ==
  \/ part = "negotiation" /\ Next /\ UNCHANGED <<part, detection>>
  \/ part = "detection" /\ Detect!Next /\ UNCHANGED <<part, vars>>

NatSpec == NatInit /\ [][NatNext]_natVars

\* With the queue nothing goes wrong, and what comes after it is in the negotiation without it.
QueueOnly ==
  useQueue => /\ mishaps = 0 /\ verdict = "none"
              /\ net \subseteq [to : {0, 1}, kind : {"preinitack"}, data : {"waiting", "ready"}]
\* The second device is one of three kinds.
SecondDevice == part = "detection" /\ started = 2 => device.scheme \in {"none", "consistent", "random"}
-----------------------------------------------------------------------------
(***************************************************************************)
(* A detection takes no device for more open than it is, and no client is  *)
(* told that its partner is missing when the partner succeeds; with the    *)
(* types, and the invariants behind the theorems about a negotiation.      *)
(***************************************************************************)
NeverMisled ==
  CASE part = "negotiation" ->
         TypeOK /\ HeardInv /\ (~useQueue => ForwardInv /\ VerdictInv /\ FailedPartnerTriedPings)
    [] part = "detection" -> Detect!TypeOK /\ Detect!NeverTooOpen /\ Detect!ToldOnce /\ Detect!FirstInv
\* A first detection that hears all answers finds the device: see NatDetection.
FirstFindsDevice == [][part = "detection" => Detect!FirstIsRight]_natVars
=============================================================================
