---------------------------- MODULE MCBridgeLive ----------------------------
(***************************************************************************)
(* The parts of the bridge in which something must happen in the end, one  *)
(* at a time: in a behaviour one part takes all the steps, under the       *)
(* fairness its module states, and the others stay in an initial state.    *)
(***************************************************************************)
EXTENDS ClientPool, MemberLists, Channels, Provisioning, Relay, TLC

CONSTANTS r1, r2, r3, u1, u2
ThreeAsks == r1 :> u1 @@ r2 :> u1 @@ r3 :> u2

VARIABLE part

InPool == part = "clients" /\ UNCHANGED <<part, memberVars, channelsVars, provisionVars, relayVars>>
InMembers == part = "members" /\ UNCHANGED <<part, vars, channelsVars, provisionVars, relayVars>>
InChannels == part = "channels" /\ UNCHANGED <<part, vars, memberVars, provisionVars, relayVars>>
InLinks == part = "links" /\ UNCHANGED <<part, vars, memberVars, channelsVars, relayVars>>
InRelay == part = "relay" /\ UNCHANGED <<part, vars, memberVars, channelsVars, provisionVars>>

\* What stands still has one initial state.
OneInit ==
  /\ part # "members" => here = [reals |-> {}, ghosts |-> {}] /\ channel = {}
  /\ part # "relay" => about = "pm"

LiveInit ==
  /\ part \in {"clients", "members", "channels", "links", "relay"}
  /\ Init /\ MembersInit /\ ChannelsInit /\ ProvisionInit /\ RelayInit
  /\ OneInit

LiveNext ==
  \/ InPool /\ Next
  \/ InMembers /\ MembersNext
  \/ InChannels /\ ChannelsNext
  \/ InLinks /\ ProvisionNext
  \/ InRelay /\ RelayNext

liveVars == <<part, vars, memberVars, channelsVars, provisionVars, relayVars>>
LiveSpec ==
  /\ LiveInit /\ [][LiveNext]_liveVars
  /\ \A r \in Requests :
       WF_liveVars(InPool /\ (Looked(r) \/ LookupFails(r))) /\ WF_liveVars(InPool /\ Stored(r))
  /\ \A c \in Clients :
       /\ WF_liveVars(InPool /\ Welcome(c)) /\ WF_liveVars(InPool /\ End(c))
       /\ WF_liveVars(InPool /\ Revive(c)) /\ WF_liveVars(InPool /\ ConnectResumes(c))
       /\ WF_liveVars(InPool /\ Rejoined(c))
  /\ WF_liveVars(InPool /\ Reconnect) /\ WF_liveVars(InPool /\ LoginRetries)
  /\ WF_liveVars(InMembers /\ MembersStep)
  /\ \A k \in Calls : WF_liveVars(InChannels /\ Runs(k))
  /\ \A c \in Chans :
       /\ WF_liveVars(InChannels /\ JoinGoesOn(c)) /\ WF_liveVars(InChannels /\ JoinTimeout(c))
       /\ WF_liveVars(InChannels /\ Settled(c)) /\ WF_liveVars(InChannels /\ Answers(c))
  /\ WF_liveVars(InChannels /\ Connect)
  /\ \A p \in LinkRequests : WF_liveVars(InLinks /\ ProvisionStep(p))
  /\ WF_liveVars(InRelay /\ HandleInvite) /\ WF_liveVars(InRelay /\ InviteSettles)
  /\ \A m \in Texts : WF_liveVars(InRelay /\ TextStep(m))
  /\ \A c \in AllTargets, m \in Texts : WF_liveVars(InRelay /\ SendStep(m, c))
  /\ \A i \in ClientIds : WF_liveVars(InRelay /\ ClientStep(i))

\* The data of these parts keep their form, and no send of the relay waits for a client
\* that nothing brings.
LiveTypesOK ==
  /\ part = "members" => MembersTypeOK
  /\ part = "channels" => ChannelsTypeOK
  /\ part = "links" => ProvisionTypeOK
  /\ part = "relay" => RelayTypeOK /\ NoSendStranded
=============================================================================
