---------------------------- MODULE Provisioning ----------------------------
(***************************************************************************)
(* Rooms are linked to a channel on request, when an operator of the       *)
(* channel agrees (src/src/provisioning/Provisioner.ts).                   *)
(*                                                                         *)
(* Requests run concurrently: every await lets another go on.  They are    *)
(* all about one channel.  Whom the bot waits for is kept by operator, and *)
(* how far a request has come is shown in the room, as m.room.bridging.    *)
(***************************************************************************)
EXTENDS Naturals, FiniteSets

CONSTANTS LinkRequests,  \* requests to link a room
          Operators,   \* operators of the channel
          LinkRooms,   \* Matrix rooms
          NoRequest,
          MaxUnlinks

ASSUME ProvisioningAssumption == NoRequest \notin LinkRequests /\ MaxUnlinks \in Nat

VARIABLES
  links,      \* rooms linked to the channel
  bridging,   \* m.room.bridging of each room
  botIn,      \* the bot is in the channel
  linkReqs,       \* the requests: room, operator, and where they are
  pendingReq, \* pendingRequests: the last request the operator is to answer
  agreed,     \* requests whose promise is resolved
  unlink,     \* an unlink under way, and how many there were
  raced       \* history: an unlink met a link

linking == <<links, bridging, botIn>>
provisionVars == <<linking, linkReqs, pendingReq, agreed, unlink, raced>>

NotMade == [room |-> NoRequest, op |-> NoRequest, pc |-> "none"]

ProvisionInit ==
  /\ links = {} /\ bridging = [r \in LinkRooms |-> "none"] /\ botIn = FALSE
  /\ linkReqs = [p \in LinkRequests |-> NotMade]
  /\ pendingReq = [o \in Operators |-> NoRequest] /\ agreed = {}
  /\ unlink = [pc |-> "none", n |-> 0] /\ raced = FALSE
------------------------------------------------------------------------------
IsAt(p, pc) == linkReqs[p].pc = pc
Moves(p, pc) == linkReqs' = [linkReqs EXCEPT ![p].pc = pc]
Shows(p, value) == bridging' = [bridging EXCEPT ![linkReqs[p].room] = value]

\* getRequest: the promise of the operator's request is pending.
IsWaitedFor(o) == pendingReq[o] \in LinkRequests \ agreed
Forget(p) == pendingReq' = [pendingReq EXCEPT ![linkReqs[p].op] = NoRequest]

\* requestLink, up to the first await of authoriseProvisioning.  Others are refused.
RequestLink(p, room, o) ==
  /\ IsAt(p, "none") /\ room \notin links /\ ~IsWaitedFor(o)
  /\ linkReqs' = [linkReqs EXCEPT ![p] = [room |-> room, op |-> o, pc |-> "checks"]]
  /\ UNCHANGED <<linking, pendingReq, agreed, unlink, raced>>

\* The power of the user and the operator, and the state of the room: a mapping that
\* was made but is gone is first shown as failed.
Authorise(p) ==
  /\ IsAt(p, "checks")
  /\ \/ Moves(p, "done") /\ UNCHANGED bridging
     \/ /\ Moves(p, "pending")
        /\ IF bridging[linkReqs[p].room] = "success" /\ linkReqs[p].room \notin links
           THEN Shows(p, "failure") ELSE UNCHANGED bridging
  /\ UNCHANGED <<links, botIn, pendingReq, agreed, unlink, raced>>

\* createAuthorisedLink takes the operator's place, whoever has it by now.
SetRequest(p) ==
  /\ IsAt(p, "pending")
  /\ \/ Moves(p, "done") /\ UNCHANGED <<bridging, pendingReq>>
     \/ /\ Shows(p, "pending") /\ Moves(p, "asks")
        /\ pendingReq' = [pendingReq EXCEPT ![linkReqs[p].op] = p]
  /\ UNCHANGED <<links, botIn, agreed, unlink, raced>>

\* The message is sent, or cannot be: then the operator's place stays taken.
SendToUser(p) ==
  /\ IsAt(p, "asks") /\ (Moves(p, "waits") \/ Moves(p, "stuck"))
  /\ UNCHANGED <<linking, pendingReq, agreed, unlink, raced>>

\* handlePm: the operator says yes.
HandlePm(o) ==
  /\ IsWaitedFor(o) /\ agreed' = agreed \cup {pendingReq[o]}
  /\ UNCHANGED <<linking, linkReqs, pendingReq, unlink, raced>>

Authorised(p) ==
  /\ IsAt(p, "waits") /\ p \in agreed /\ Moves(p, "links") /\ Forget(p)
  /\ UNCHANGED <<linking, agreed, unlink, raced>>

AnswerTimesOut(p) ==
  /\ IsAt(p, "waits") /\ p \notin agreed /\ Moves(p, "expires")
  /\ UNCHANGED <<linking, pendingReq, agreed, unlink, raced>>

\* Only when the room shows the failure is the operator's place given up.
RequestExpiresKeeps(p) ==
  /\ IsAt(p, "expires") /\ Shows(p, "failure") /\ Moves(p, "done")
  /\ UNCHANGED <<links, botIn, pendingReq, agreed, unlink, raced>>
RequestExpires(p) ==
  /\ IsAt(p, "expires")
  /\ \/ Shows(p, "failure") /\ Moves(p, "done") /\ Forget(p)
     \/ Moves(p, "stuck") /\ UNCHANGED <<bridging, pendingReq>>
  /\ UNCHANGED <<links, botIn, agreed, unlink, raced>>
------------------------------------------------------------------------------
\* doLink: the bot joins the channel before the link is stored.
DoLink(p) ==
  /\ IsAt(p, "links") /\ Moves(p, IF linkReqs[p].room \in links THEN "fails" ELSE "joins")
  /\ UNCHANGED <<linking, pendingReq, agreed, unlink, raced>>

BotLinks(p) ==
  /\ IsAt(p, "joins")
  /\ \/ botIn' = TRUE /\ Moves(p, "stores")
     \/ Moves(p, "fails") /\ UNCHANGED botIn
  /\ UNCHANGED <<links, bridging, pendingReq, agreed, unlink, raced>>

StoreLink(p) ==
  /\ IsAt(p, "stores") /\ links' = links \cup {linkReqs[p].room} /\ Moves(p, "shows")
  /\ raced' = (raced \/ unlink.pc = "leaves")
  /\ UNCHANGED <<bridging, botIn, pendingReq, agreed, unlink>>

ShowSuccess(p) ==
  /\ IsAt(p, "shows") /\ Moves(p, "done") /\ (Shows(p, "success") \/ UNCHANGED bridging)
  /\ UNCHANGED <<links, botIn, pendingReq, agreed, unlink, raced>>

ShowFailure(p) ==
  /\ IsAt(p, "fails") /\ Moves(p, "done")
  /\ \/ Shows(p, "failure") /\ Forget(p)
     \/ UNCHANGED <<bridging, pendingReq>>
  /\ UNCHANGED <<links, botIn, agreed, unlink, raced>>

\* unlink: the link goes, then the bot leaves a channel without links.
Unlink(room) ==
  /\ unlink.pc = "none" /\ unlink.n < MaxUnlinks /\ room \in links /\ links' = links \ {room}
  /\ unlink' = [pc |-> "looks", n |-> unlink.n + 1]
  /\ UNCHANGED <<bridging, botIn, linkReqs, pendingReq, agreed, raced>>

LeaveAnyway ==
  /\ unlink.pc = "looks" /\ unlink' = [unlink EXCEPT !.pc = "leaves"]
  /\ UNCHANGED <<linking, linkReqs, pendingReq, agreed, raced>>
LeaveIfUnprovisioned ==
  /\ unlink.pc = "looks"
  /\ unlink' = [unlink EXCEPT !.pc = IF links = {} THEN "leaves" ELSE "none"]
  /\ UNCHANGED <<linking, linkReqs, pendingReq, agreed, raced>>

BotLeaves ==
  /\ unlink.pc = "leaves" /\ unlink' = [unlink EXCEPT !.pc = "none"] /\ botIn' = FALSE
  /\ raced' = (raced \/ \E p \in LinkRequests : IsAt(p, "stores"))
  /\ UNCHANGED <<links, bridging, linkReqs, pendingReq, agreed>>
------------------------------------------------------------------------------
ProvisionStep(p) ==
  \/ Authorise(p) \/ SetRequest(p) \/ SendToUser(p) \/ Authorised(p) \/ AnswerTimesOut(p) \/ RequestExpires(p)
  \/ DoLink(p) \/ BotLinks(p) \/ StoreLink(p) \/ ShowSuccess(p) \/ ShowFailure(p)
ProvisionNext ==
  \/ \E p \in LinkRequests : ProvisionStep(p)
                         \/ \E room \in LinkRooms, o \in Operators : RequestLink(p, room, o)
  \/ \E o \in Operators : HandlePm(o)
  \/ \E room \in LinkRooms : Unlink(room)
  \/ LeaveIfUnprovisioned \/ BotLeaves
\* Promises settle and timers fire; nobody has to say yes.
ProvisionSpec ==
  /\ ProvisionInit /\ [][ProvisionNext]_provisionVars
  /\ \A p \in LinkRequests : WF_provisionVars(ProvisionStep(p))
------------------------------------------------------------------------------
ProvisionTypeOK ==
  /\ links \subseteq LinkRooms /\ bridging \in [LinkRooms -> {"none", "pending", "success", "failure"}]
  /\ botIn \in BOOLEAN /\ raced \in BOOLEAN /\ agreed \subseteq LinkRequests
  /\ pendingReq \in [Operators -> LinkRequests \cup {NoRequest}] /\ unlink.n \in 0..MaxUnlinks

(***************************************************************************)
(* No operator is waited for for ever: whether he answers or not, and      *)
(* however many requests take his place, a later request can ask him.      *)
(* Exception: requests that could not send their message or show their     *)
(* failure; those keep his place, which is not what the timeout is for.    *)
(***************************************************************************)
OperatorsFree ==
  \A o \in Operators :
    []<>(~IsWaitedFor(o) \/ linkReqs[pendingReq[o]].pc = "stuck")

(***************************************************************************)
(* The bot is in the channel as long as a room is linked to it, whatever   *)
(* other links and requests for it come and go.  Exception: a link that is *)
(* stored after an unlink found none, or while the bot leaves.             *)
(***************************************************************************)
BotStays == links # {} /\ ~raced => botIn
=============================================================================
