-------------------------------- MODULE Relay --------------------------------
(***************************************************************************)
(* From a Matrix message to IRC: MatrixHandler's _onMessage and            *)
(* sendIrcAction (src/src/bridge/MatrixHandler.ts), beside the invite that *)
(* makes the room known and the IRC client that is made for the sender.    *)
(*                                                                         *)
(* One Matrix user in one room: bridged to the channels Targets, or the    *)
(* room of a private chat which his invite is about to make known, or the  *)
(* room in which he talks to the bot.  An action is what runs between two  *)
(* awaits; what is sent in one channel is a task of its own.               *)
(***************************************************************************)
EXTENDS Naturals, FiniteSets

CONSTANTS Texts,       \* the messages the user sends
          Targets,     \* the IRC channels the room is bridged to
          PmTarget,    \* the IRC user he talks to
          MaxObjects   \* the clients made for him altogether

ASSUME RelayAssumption == MaxObjects \in Nat /\ PmTarget \notin Targets

VARIABLES
  about,       \* "channels", "pm" or "admin"
  invite,      \* how far the handler of the invite is
  processing,  \* processingInvitesForRooms: the keys of the invites being handled
  mapped,      \* the IRC channels and users the store has for the room
  texts,       \* where the handler of each message is
  sends,       \* where the sending of each message to each channel is, and its client
  clients,     \* the status of the user's clients
  inPool,      \* the client the pool has for him, 0 for none
  orphaned     \* history: sends that waited for a client whose connection failed

relayVars == <<about, invite, processing, mapped, texts, sends, clients, inPool, orphaned>>

AllTargets == Targets \cup {PmTarget}
ClientIds == 1..MaxObjects
NoSend == [pc |-> "none", client |-> 0]

\* A key is a string: room and invitee one after the other, room and sender with a "+"
\* between them.
InviteKey == [plus |-> FALSE, user |-> "invitee"]
MessageKey == [plus |-> TRUE, user |-> "sender"]

RelayInit ==
  /\ about \in {"channels", "pm", "admin"}
  /\ invite = "none" /\ processing = {}
  /\ mapped = IF about = "channels" THEN Targets ELSE {}
  /\ texts = [m \in Texts |-> "none"] /\ sends = [m \in Texts |-> [c \in AllTargets |-> NoSend]]
  /\ clients = [i \in ClientIds |-> "none"] /\ inPool = 0 /\ orphaned = {}
------------------------------------------------------------------------------
TextGoes(m, pc) == texts' = [texts EXCEPT ![m] = pc]
SendGoes(m, c, pc) == sends' = [sends EXCEPT ![m][c].pc = pc]
TakesClient(m, c, i) == sends' = [sends EXCEPT ![m][c] = [pc |-> "start", client |-> i]]
StatusOf(m, c) == clients[sends[m][c].client]

\* _onInvite, up to its first await: the invite is marked as being processed.
OnInvite ==
  /\ about = "pm" /\ invite = "none" /\ invite' = "looks"
  /\ processing' = processing \cup {InviteKey}
  /\ UNCHANGED <<about, mapped, texts, sends, clients, inPool, orphaned>>

\* The store answers, the virtual user is made and joins the room, the room is stored.
\* Any of it may fail, and private chats may be forbidden.
InviteStep ==
  \/ /\ invite = "looks" /\ invite' \in {"joins", "fails"} /\ UNCHANGED mapped
  \/ /\ invite = "joins" /\ invite' \in {"stores", "fails"} /\ UNCHANGED mapped
  \/ /\ invite = "stores" /\ invite' = "ends" /\ mapped' = {PmTarget}
HandleInvite ==
  /\ InviteStep
  /\ UNCHANGED <<about, processing, texts, sends, clients, inPool, orphaned>>

\* The request is settled.
InviteSettles ==
  /\ invite \in {"ends", "fails"} /\ invite' = IF invite = "ends" THEN "done" ELSE "failed"
  /\ processing' = processing \ {InviteKey}
  /\ UNCHANGED <<about, mapped, texts, sends, clients, inPool, orphaned>>

\* _onMessage begins, and waits for the links to the media.  In a private chat the user
\* has sent his invite before.
OnMessage(m) ==
  /\ texts[m] = "none" /\ (about = "pm" => invite # "none")
  /\ TextGoes(m, "read")
  /\ UNCHANGED <<about, invite, processing, mapped, sends, clients, inPool, orphaned>>

\* A command of the room, what makes no IRC action, or a message: it waits while an
\* invite with its key is processed.
Parsed(m) ==
  /\ texts[m] = "read"
  /\ \/ TextGoes(m, "command")
     \/ TextGoes(m, "dropped")
     \/ TextGoes(m, IF MessageKey \in processing THEN "held" ELSE "rooms")
  /\ UNCHANGED <<about, invite, processing, mapped, sends, clients, inPool, orphaned>>

Held(m) ==
  /\ texts[m] = "held" /\ invite \in {"done", "failed"} /\ TextGoes(m, "rooms")
  /\ UNCHANGED <<about, invite, processing, mapped, sends, clients, inPool, orphaned>>

\* The IRC channels of the room.  A client in the pool is taken at once; without one the
\* display name is asked for.  A room without any may be an admin room.
TakeRooms(m) ==
  /\ texts[m] = "rooms"
  /\ IF mapped = {} THEN /\ TextGoes(m, IF about = "admin" THEN "admin" ELSE "unmapped")
                         /\ UNCHANGED sends
     ELSE /\ TextGoes(m, "sending")
          /\ sends' = [sends EXCEPT ![m] = [c \in AllTargets |->
               IF c \notin mapped THEN NoSend
               ELSE IF inPool # 0 THEN [pc |-> "start", client |-> inPool]
               ELSE [pc |-> "name", client |-> 0]]]
  /\ UNCHANGED <<about, invite, processing, mapped, clients, inPool, orphaned>>

\* onAdminMessage: answered, or the bot leaves a room of three.  onCommand: the answer,
\* or what getBridgedClient and changeNick come to.
Answer(m) ==
  /\ texts[m] \in {"admin", "command"} /\ TextGoes(m, "done")
  /\ UNCHANGED <<about, invite, processing, mapped, sends, clients, inPool, orphaned>>

\* getBridgedClient: the client there is, or the store is asked about the user.
GetClient(m, c) ==
  /\ sends[m][c].pc = "name"
  /\ IF inPool # 0 THEN TakesClient(m, c, inPool) ELSE SendGoes(m, c, "config")
  /\ UNCHANGED <<about, invite, processing, mapped, texts, clients, inPool, orphaned>>

\* The store has answered: another message may have made the client by now.
MakeClient(m, c) ==
  /\ sends[m][c].pc = "config"
  /\ \/ /\ inPool # 0 /\ TakesClient(m, c, inPool) /\ UNCHANGED <<clients, inPool>>
     \/ /\ inPool = 0
        /\ \E i \in ClientIds :
             /\ clients[i] = "none" /\ \A j \in 1..(i - 1) : clients[j] # "none"
             /\ clients' = [clients EXCEPT ![i] = "connecting"] /\ inPool' = i
             /\ sends' = [sends EXCEPT ![m][c] = [pc |-> "makes", client |-> i]]
     \/ /\ SendGoes(m, c, "failed") /\ UNCHANGED <<clients, inPool>>
  /\ UNCHANGED <<about, invite, processing, mapped, texts, orphaned>>

\* BridgedClient.connect ends: its maker goes on, and who waits for connectDefer.
ClientConnected(i) ==
  /\ clients[i] = "connecting" /\ clients' = [clients EXCEPT ![i] = "connected"]
  /\ sends' = [m \in Texts |-> [c \in AllTargets |->
       IF sends[m][c].client # i THEN sends[m][c]
       ELSE [sends[m][c] EXCEPT !.pc = CASE @ = "makes" -> "start" [] @ = "waits" -> "limit" [] OTHER -> @]]]
  /\ UNCHANGED <<about, invite, processing, mapped, texts, inPool, orphaned>>

\* It fails: its maker hears of it, connectDefer is never settled.
ConnectionFails(i) ==
  /\ clients[i] = "connecting" /\ clients' = [clients EXCEPT ![i] = "dead"]
  /\ inPool' = IF inPool = i THEN 0 ELSE inPool
  /\ sends' = [m \in Texts |-> [c \in AllTargets |->
       IF sends[m][c] = [pc |-> "makes", client |-> i] THEN [sends[m][c] EXCEPT !.pc = "failed"]
       ELSE sends[m][c]]]
  /\ orphaned' = orphaned \cup {s \in Texts \X AllTargets :
                                  sends[s[1]][s[2]].client = i /\ sends[s[1]][s[2]].pc \in {"waits", "queued"}}
  /\ UNCHANGED <<about, invite, processing, mapped, texts>>

\* The connection is lost: the pool forgets the client.
ConnectionLost(i) ==
  /\ clients[i] = "connected" /\ clients' = [clients EXCEPT ![i] = "dead"]
  /\ inPool' = IF inPool = i THEN 0 ELSE inPool
  /\ UNCHANGED <<about, invite, processing, mapped, texts, sends, orphaned>>

\* sendIrcAction: what is no text is sent as it is; a text, perhaps after the message it
\* answers or edits was fetched, is for waitForConnected.
Prepare(m, c) ==
  /\ sends[m][c].pc = "start"
  /\ \/ SendGoes(m, c, "send")
     \/ SendGoes(m, c, "prepared")
  /\ UNCHANGED <<about, invite, processing, mapped, texts, clients, inPool, orphaned>>

WaitForConnected(m, c) ==
  /\ sends[m][c].pc = "prepared"
  /\ SendGoes(m, c, CASE StatusOf(m, c) = "connected" -> "limit" [] StatusOf(m, c) = "connecting" -> "waits"
                      [] OTHER -> "failed")
  /\ UNCHANGED <<about, invite, processing, mapped, texts, clients, inPool, orphaned>>

\* The lines the channel allows: sent as it is, as a link to the text (which is uploaded
\* first), or cut when the upload fails.  chans and lengths are those of a connected client.
LineLimit(m, c) ==
  /\ sends[m][c].pc = "limit"
  /\ SendGoes(m, c, IF StatusOf(m, c) = "connected" THEN "send" ELSE "failed")
  /\ UNCHANGED <<about, invite, processing, mapped, texts, clients, inPool, orphaned>>

\* sendAction and sendMessage: dropped by a blocked bridge; once connected, and the
\* channel joined, the line is sent unless it is too old or the connection is lost.
SendAction(m, c) ==
  /\ \/ sends[m][c].pc = "send"
        /\ SendGoes(m, c, IF StatusOf(m, c) = "connecting" THEN "queued" ELSE "joins")
     \/ sends[m][c].pc = "queued" /\ StatusOf(m, c) # "connecting" /\ <<m, c>> \notin orphaned
        /\ SendGoes(m, c, "joins")
     \/ sends[m][c].pc = "send" /\ SendGoes(m, c, "over")
  /\ UNCHANGED <<about, invite, processing, mapped, texts, clients, inPool, orphaned>>

JoinedOrStalls(m, c) ==
  /\ sends[m][c].pc = "joins"
  /\ StatusOf(m, c) = "connected" /\ SendGoes(m, c, "over")
  /\ UNCHANGED <<about, invite, processing, mapped, texts, clients, inPool, orphaned>>
JoinedOrFails(m, c) ==
  /\ sends[m][c].pc = "joins"
  /\ \/ StatusOf(m, c) = "connected" /\ SendGoes(m, c, "over")
     \/ SendGoes(m, c, "failed")
  /\ UNCHANGED <<about, invite, processing, mapped, texts, clients, inPool, orphaned>>

\* Promise.all: the request is over when every send is, or when one failed.
SendsEnd(m) ==
  /\ texts[m] = "sending"
  /\ \/ /\ \E c \in AllTargets : sends[m][c].pc = "failed"
        /\ TextGoes(m, "failed")
     \/ /\ \A c \in AllTargets : sends[m][c].pc \in {"none", "over"}
        /\ TextGoes(m, "done")
  /\ UNCHANGED <<about, invite, processing, mapped, sends, clients, inPool, orphaned>>

SendStep(m, c) ==
  \/ GetClient(m, c) \/ MakeClient(m, c) \/ Prepare(m, c) \/ WaitForConnected(m, c)
  \/ LineLimit(m, c) \/ SendAction(m, c) \/ JoinedOrFails(m, c)
TextStep(m) == Parsed(m) \/ Held(m) \/ TakeRooms(m) \/ Answer(m) \/ SendsEnd(m)
ClientStep(i) == ClientConnected(i) \/ ConnectionFails(i)

RelayNext ==
  \/ OnInvite \/ HandleInvite \/ InviteSettles
  \/ \E m \in Texts : OnMessage(m) \/ TextStep(m) \/ \E c \in AllTargets : SendStep(m, c)
  \/ \E i \in ClientIds : ClientStep(i) \/ ConnectionLost(i)

\* Every promise the code awaits is settled by someone, in time: the store, the
\* homeserver and IRC answer or time out.
RelayFairness ==
  /\ WF_relayVars(HandleInvite) /\ WF_relayVars(InviteSettles)
  /\ \A m \in Texts : WF_relayVars(TextStep(m)) /\ \A c \in AllTargets : WF_relayVars(SendStep(m, c))
  /\ \A i \in ClientIds : WF_relayVars(ClientStep(i))

RelaySpec == RelayInit /\ [][RelayNext]_relayVars /\ RelayFairness
------------------------------------------------------------------------------
SendPcs == {"none", "name", "config", "makes", "start", "prepared", "waits", "limit", "send", "queued",
            "joins", "over", "failed"}

\* What each variable holds: a client is alive exactly while the pool has it, and a send that
\* goes by a client has one that was made.
RelayTypeOK ==
  /\ about \in {"channels", "pm", "admin"}
  /\ invite \in {"none", "looks", "joins", "stores", "ends", "fails", "done", "failed"}
  /\ processing \subseteq {InviteKey, MessageKey} /\ mapped \subseteq AllTargets
  /\ texts \in [Texts -> {"none", "read", "held", "rooms", "command", "admin", "sending",
                          "unmapped", "dropped", "done", "failed"}]
  /\ sends \in [Texts -> [AllTargets -> [pc : SendPcs, client : 0..MaxObjects]]]
  /\ clients \in [ClientIds -> {"none", "connecting", "connected", "dead"}]
  /\ inPool \in 0..MaxObjects
  /\ \A i \in ClientIds : clients[i] \in {"connecting", "connected"} <=> inPool = i
  /\ \A m \in Texts, c \in AllTargets : sends[m][c].pc \notin {"none", "name", "config", "failed"} =>
       sends[m][c].client # 0 /\ StatusOf(m, c) # "none"
  /\ orphaned \subseteq Texts \X AllTargets

\* A send that waits, waits for a client that is connecting, unless the connection failed
\* while it waited: nobody else is left behind, whatever is made, lost and made again.
NoSendStranded ==
  /\ \A m \in Texts, c \in AllTargets :
       /\ sends[m][c].pc = "makes" => StatusOf(m, c) = "connecting"
       /\ sends[m][c].pc = "waits" => StatusOf(m, c) = "connecting" \/ <<m, c>> \in orphaned
  /\ \A s \in orphaned : sends[s[1]][s[2]].pc \in {"waits", "queued"} /\ StatusOf(s[1], s[2]) = "dead"

\* The request of every message ends, whatever fails on the way, unless a send waits for
\* the connectDefer of a client whose connection failed: nothing settles that one.  The
\* requests are counted, and a full bridge is measured by them.
EveryMessageEnds ==
  \A m \in Texts : []<>(texts[m] # "sending" \/ \E c \in AllTargets : <<m, c>> \in orphaned)

\* MatrixHandler.ts:935: a message "waits a while if we just got an invite else we may
\* not have the mapping stored yet": none is dropped for want of a mapping while the
\* invite to its room is processed.  The two keys are never equal.
InviteHolds ==
  [][\A m \in Texts : texts[m] = "rooms" /\ texts'[m] = "unmapped" => processing = {}]_relayVars
=============================================================================
