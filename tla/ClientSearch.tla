----------------------------- MODULE ClientSearch -----------------------------
(***************************************************************************)
(* How a phone that wants to join looks for the host it was told of        *)
(* (MultiplayerClientViewController.m:335-512): it asks for the whole list *)
(* and waits for its update, clears it, asks again with a filter, waits    *)
(* again, and asks the server with the name it wants for all of its keys.  *)
(* It thinks until it has them, and then connects.                         *)
(***************************************************************************)
EXTENDS ServerBrowsing

VARIABLES
  phase,     \* the loop the client is in: "start" (none), "first", "filtered", "aux", "connect", or "stopped"
  wanted     \* the server it asked for all of its keys

searchVars == <<vars, phase, wanted>>

SearchInit ==
  /\ Init /\ phase = "start" /\ wanted = {}

Looking == phase \in {"first", "filtered", "aux"}

\* ServerBrowserUpdate, before the first loop.
StartsFirst ==
  /\ phase = "start" /\ BeginUpdate /\ phase' = "first"
  /\ UNCHANGED wanted

\* An iteration of a loop: ServerBrowserThink.
Thinks == Looking /\ Think /\ UNCHANGED <<phase, wanted>>
Lists ==
  /\ Looking
  /\ ListComplete \/ \E s \in game.servers : ServerListed(s)
  /\ UNCHANGED <<phase, wanted>>
Pushes ==
  /\ Looking
  /\ \E s \in game.servers, known \in {{}, {"basic"}, {"full"}} : PushServer(s, known)
  /\ UNCHANGED <<phase, wanted>>

\* ServerBrowserThink returns an error: the search is given up.
Fails == Looking /\ ListError /\ phase' = "stopped" /\ UNCHANGED wanted

\* The end of the first loop: ServerBrowserClear, ServerBrowserUpdate with the
\* filter, and UpdateFinished = gsi_false.
Filters ==
  /\ phase = "first" /\ updated /\ phase' = "filtered"
  /\ listed' = {} /\ engine' = Freed(Halted(engine), Server) /\ list' = "mainlist"
  /\ updated' = FALSE
  /\ UNCHANGED <<game, direct, dontUpdate, aux, wanted>>

\* The end of the second: the server is there, or not.
AsksForKeys(s) ==
  /\ phase = "filtered" /\ updated
  /\ AuxUpdateServer(s, TRUE)
  /\ phase' = "aux" /\ wanted' = {s}
NotThere ==
  /\ phase = "filtered" /\ updated /\ phase' = "stopped"
  /\ UNCHANGED <<vars, wanted>>

\* SBServerHasFullKeys.
HasFullKeys == \A s \in wanted : "full" \in engine.bits[s]
Connects ==
  /\ phase = "aux" /\ HasFullKeys /\ phase' = "connect"
  /\ UNCHANGED <<vars, wanted>>

SearchNext ==
  \/ StartsFirst \/ Thinks \/ Lists \/ Pushes \/ Fails \/ Filters \/ NotThere \/ Connects
  \/ \E s \in game.servers : AsksForKeys(s)

\* The master sends its whole list, or the connection breaks; the client goes on.
Updates == (Thinks /\ Progress) \/ (Lists /\ ListComplete) \/ Fails
Goes == Filters \/ NotThere \/ Connects
SearchSpec ==
  /\ SearchInit /\ [][SearchNext]_searchVars
  /\ WF_searchVars(Updates)
  /\ WF_searchVars(Goes)
-----------------------------------------------------------------------------
SearchTypeOK ==
  /\ phase \in {"start", "first", "filtered", "aux", "connect", "stopped"}
  /\ wanted \subseteq game.servers /\ (phase \in {"aux", "connect"} => wanted \subseteq listed /\ wanted # {})

\* Both updates end: whatever is lost, sbc_updatecomplete comes (.m:361-371, 420-429).
UpdatesEnd == /\ phase = "first" ~> phase # "first"
              /\ phase = "filtered" ~> phase # "filtered"

\* "think once again while the update is in progress; done once the server object
\* has full keys" (.m:477): the third loop ends.
KeysCome == (phase = "aux" /\ wanted \subseteq direct) ~> phase # "aux"
=============================================================================
