---------------------------- MODULE MCBridgeSafe ----------------------------
(***************************************************************************)
(* The parts of the bridge whose properties are invariants, one at a time: *)
(* in a behaviour one part takes all the steps, and the others stay in one *)
(* of their initial states.                                                *)
(***************************************************************************)
EXTENDS ClientPool, PrivateRooms, Privacy, BanSync,
        RoomAccess, PoolService, Idents, ChannelModes, TLC

CONSTANTS r1, r2, u1
TwoAsks == r1 :> u1 @@ r2 :> u1

VARIABLE part

\* What stands still has one initial state.
OneInit ==
  /\ part # "private" => kind = "pm"
  /\ part # "privacy" => joinedRoom = {}

BridgeInit ==
  /\ part \in {"clients", "private", "privacy", "bans", "access", "sockets", "idents", "modes"}
  /\ Init /\ PrivateInit /\ PrivacyInit /\ BanInit /\ AccessInit /\ PoolInit /\ IdentsInit /\ ModesInit
  /\ OneInit

\* The third move of a user is the one that takes two before it: to give up, after a
\* restart, the room he had joined.
ThirdMove == moves = 2 /\ moves' = 3 => stored' = 0 /\ promise = NoAsk

BridgeNext ==
  /\ \/ part = "clients" /\ Next
        /\ UNCHANGED <<privateVars, privacyVars, banVars, accessVars, poolVars, identVars, modeVars>>
     \/ part = "private" /\ PrivateNext /\ ThirdMove
        /\ UNCHANGED <<vars, privacyVars, banVars, accessVars, poolVars, identVars, modeVars>>
     \/ part = "privacy" /\ PrivacyNext
        /\ UNCHANGED <<vars, privateVars, banVars, accessVars, poolVars, identVars, modeVars>>
     \/ part = "bans" /\ BanNext
        /\ UNCHANGED <<vars, privateVars, privacyVars, accessVars, poolVars, identVars, modeVars>>
     \/ part = "access" /\ AccessNext
        /\ UNCHANGED <<vars, privateVars, privacyVars, banVars, poolVars, identVars, modeVars>>
     \/ part = "sockets" /\ PoolNext
        /\ UNCHANGED <<vars, privateVars, privacyVars, banVars, accessVars, identVars, modeVars>>
     \/ part = "idents" /\ IdentsNext
        /\ UNCHANGED <<vars, privateVars, privacyVars, banVars, accessVars, poolVars, modeVars>>
     \/ part = "modes" /\ ModesNext
        /\ UNCHANGED <<vars, privateVars, privacyVars, banVars, accessVars, poolVars, identVars>>
  /\ UNCHANGED part

allVars == <<part, vars, privateVars, privacyVars, banVars, accessVars, poolVars, identVars, modeVars>>
BridgeSpec == BridgeInit /\ [][BridgeNext]_allVars

\* The data of the bridge keep their form: sockets and clients the maps name exist, a
\* room on record was made, a counter is not behind the names it gave.
BridgeTypeOK ==
  /\ part = "clients" => TypeOK
  /\ part = "private" => PrivateTypeOK
  /\ part = "privacy" => PrivacyTypeOK
  /\ part = "bans" => BanTypeOK
  /\ part = "access" => AccessTypeOK
  /\ part = "sockets" => PoolTypeOK
  /\ part = "idents" => IdentsTypeOK
  /\ part = "modes" => ModesTypeOK
=============================================================================
