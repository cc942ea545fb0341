-------------------------- MODULE BridgeSafe_proofs --------------------------
(***************************************************************************)
(* The parts of the bridge whose properties are invariants, one of which   *)
(* takes the steps of a behaviour: the others see none of it, so that each *)
(* behaves as its own module says, and what is proved of it alone holds of *)
(* it in the instance that puts them together.                             *)
(***************************************************************************)
EXTENDS MCBridgeSafe, ClientPool_proofs, Rooms_proofs, Connections_proofs, TLAPS

LEMMA EveryPartSteps ==
  ASSUME [BridgeNext]_allVars
  PROVE  /\ [Next]_vars /\ [PrivateNext]_privateVars /\ [PrivacyNext]_privacyVars
         /\ [BanNext]_banVars /\ [AccessNext]_accessVars /\ [PoolNext]_poolVars
         /\ [IdentsNext]_identVars /\ [ModesNext]_modeVars
<1>1. CASE BridgeNext
  BY <1>1 DEF BridgeNext
<1>2. CASE UNCHANGED allVars
  BY <1>2 DEF allVars
<1> QED BY <1>1, <1>2

(***************************************************************************)
(* In every behaviour of the bridge each of these parts behaves as its     *)
(* module says.                                                            *)
(***************************************************************************)
THEOREM BridgeIsItsParts ==
  BridgeSpec => /\ PrivateSpec /\ PrivacySpec /\ BanSpec /\ AccessSpec
                /\ PoolServiceSpec /\ IdentsSpec /\ ModesSpec
<1>1. BridgeInit => /\ PrivateInit /\ PrivacyInit /\ BanInit /\ AccessInit
                    /\ PoolInit /\ IdentsInit /\ ModesInit
  BY DEF BridgeInit
<1>2. [BridgeNext]_allVars =>
        /\ [PrivateNext]_privateVars /\ [PrivacyNext]_privacyVars /\ [BanNext]_banVars
        /\ [AccessNext]_accessVars /\ [PoolNext]_poolVars /\ [IdentsNext]_identVars
        /\ [ModesNext]_modeVars
  BY EveryPartSteps
<1> QED
  BY <1>1, <1>2, PTL
  DEF BridgeSpec, PrivateSpec, PrivacySpec, BanSpec, AccessSpec, PoolServiceSpec, IdentsSpec,
      ModesSpec

\* The pool's own specification adds the fairness of its callers, which its types do not need.
LEMMA BridgePool == BridgeSpec => []SysInv
<1>1. BridgeInit => SysInv
  BY InitInv DEF BridgeInit
<1>2. SysInv /\ [BridgeNext]_allVars => SysInv'
  BY EveryPartSteps, SysStep
<1> QED BY <1>1, <1>2, PTL DEF BridgeSpec

(***************************************************************************)
(* The data of every part keep their form, whichever part takes the steps: *)
(* what the maps of the pool, the stores, the queues and the sockets name  *)
(* exists.                                                                 *)
(***************************************************************************)
THEOREM BridgeSafeTypesHold == BridgeSpec => []BridgeTypeOK
<1>1. SysInv => TypeOK
  BY DEF SysInv, RestOK, PoolInv, TypeOK
<1>2. /\ TypeOK /\ PrivateTypeOK /\ PrivacyTypeOK /\ BanTypeOK
      /\ AccessTypeOK /\ PoolTypeOK /\ IdentsTypeOK /\ ModesTypeOK
      => BridgeTypeOK
  BY DEF BridgeTypeOK
<1> QED
  BY <1>1, <1>2, BridgePool, BridgeIsItsParts, PrivateTyping, PrivacyTypeCorrect, BanTyping,
     AccessTyping, PoolTyping, IdentsTyping, ModesTypeCorrect, PTL

(***************************************************************************)
(* A client of the bridge that claims to be CONNECTED has a connection,    *)
(* where connections are not scheduled, whatever the other parts do.       *)
(***************************************************************************)
THEOREM BridgeNoZombie == ASSUME ~Scheduled PROVE BridgeSpec => []NoZombie
<1>1. BridgeInit => AllSound(pool)
  BY SoundStarts DEF BridgeInit
<1>2. SysInv /\ AllSound(pool) /\ [BridgeNext]_allVars => AllSound(pool)'
  BY EveryPartSteps, SoundStep DEF AllSound
<1>3. AllSound(pool) => NoZombie
  BY DEF AllSound, Sound, NoZombie
<1> QED BY <1>1, <1>2, <1>3, BridgePool, PTL DEF BridgeSpec

(***************************************************************************)
(* In every state of the bridge: one private room for a pair, caches that  *)
(* follow the rooms, bans and power levels that hold, one socket for a     *)
(* client and none that is gone, hostmasks that differ, and a directory    *)
(* that follows the channels, each as the part that owns it says.          *)
(***************************************************************************)
THEOREM BridgeSafeKeepsItsWord ==
  BridgeSpec => [](/\ RoomsDoNotMultiply /\ CachesFollow /\ BansHold /\ LevelsKept
                   /\ OneSocket /\ NoGhost /\ HostmasksDiffer /\ PublicityFollows)
BY BridgeIsItsParts, RoomsDoNotMultiplyHolds, PrivacyCachesFollow, BansHoldHolds, LevelsKeptHolds,
   OneSocketHolds, NoGhostHolds, HostmasksDifferHolds, ModesPublicityFollows, PTL
==============================================================================
