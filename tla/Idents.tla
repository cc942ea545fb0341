-------------------------------- MODULE Idents --------------------------------
(***************************************************************************)
(* Where the user name and the IPv6 address of an IRC connection come      *)
(* from: src/src/irc/IdentGenerator.ts and src/src/irc/Ipv6Generator.ts,   *)
(* the client configurations of the data store, the connection that needs  *)
(* both (BridgedClient.connect, ClientPool.getBridgedClient) and the admin *)
(* commands that write the same configurations.                            *)
(*                                                                         *)
(* All users come to the same name when theirs is cut to ten characters:   *)
(* name 1 is that name, name n + 2 has the suffix n.  An action is what    *)
(* runs between two answers of the store.                                  *)
(***************************************************************************)
EXTENDS Integers, Sequences, FiniteSets, SequencesExt

CONSTANTS People,       \* the Matrix users
          MaxSuffix,    \* MAX_USER_NAME_SUFFIX (9999 in the code)
          MaxDials,     \* connections attempted altogether
          MaxCommands,  \* admin commands altogether
          MaxCrashes

ASSUME IdentsAssumption == IsFiniteSet(People) /\ MaxSuffix \in Nat

VARIABLES
  rows,      \* client_config: each user's configuration
  counted,   \* ipv6_counter
  tries,     \* the connection each user has or attempts
  nameQueue, \* the queue of the IdentGenerator, its head being processed
  addrQueue, \* the queue of the Ipv6Generator
  counter,   \* the counter the Ipv6Generator keeps in memory, -1 before the first
  commands,  \* the admin command of each user, and the configuration it read
  budget,    \* connections, commands and crashes left
  gone,      \* history: users whose name was overwritten in the store
  torn       \* history: a crash came between the address and the counter

queuesOfIdents == <<nameQueue, addrQueue>>
identVars == <<rows, counted, tries, queuesOfIdents, counter, commands, budget, gone, torn>>

Config(exists, name, addr) == [exists |-> exists, name |-> name, addr |-> addr]
Try(pc, stored, cfg, found, suffix, name) ==
  [pc |-> pc, stored |-> stored, cfg |-> cfg, found |-> found, suffix |-> suffix, name |-> name]

NoRow == Config(FALSE, 0, 0)
NewTry(pc, stored, cfg) == Try(pc, stored, cfg, NoRow, 0, 0)
NoTry == NewTry("none", FALSE, NoRow)
NoCommand == [pc |-> "none", cfg |-> NoRow]

IdentsInit ==
  /\ rows = [u \in People |-> NoRow] /\ counted = 0
  /\ tries = [u \in People |-> NoTry] /\ nameQueue = <<>> /\ addrQueue = <<>> /\ counter = -1
  /\ commands = [u \in People |-> NoCommand]
  /\ budget = [dials |-> MaxDials, commands |-> MaxCommands, crashes |-> MaxCrashes]
  /\ gone = {} /\ torn = FALSE
------------------------------------------------------------------------------
TryAt(u, pc) == tries[u].pc = pc
TryGoes(u, pc) == tries' = [tries EXCEPT ![u] = Try(pc, @.stored, @.cfg, @.found, @.suffix, @.name)]
Existing(cfg) == Config(TRUE, cfg.name, cfg.addr)
StoredOf(u) == IF rows[u].exists THEN rows[u] ELSE tries[u].cfg

\* storeIrcClientConfig: the whole configuration is overwritten.
Writes(u, cfg) ==
  /\ rows' = [rows EXCEPT ![u] = Existing(cfg)]
  /\ gone' = IF rows[u].name \notin {0, cfg.name} THEN gone \cup {u} ELSE gone

\* getBridgedClient: the stored configuration, or a new one.
Dial(u) ==
  /\ TryAt(u, "none") /\ budget.dials > 0 /\ budget' = [budget EXCEPT !.dials = @ - 1]
  /\ tries' = [tries EXCEPT ![u] = NewTry("names", rows[u].exists, rows[u])]
  /\ UNCHANGED <<rows, counted, queuesOfIdents, counter, commands, gone, torn>>

\* getIrcNames: the name there is, or the queue.
GetIrcNames(u) ==
  /\ TryAt(u, "names")
  /\ IF tries[u].cfg.name # 0
     THEN /\ tries' = [tries EXCEPT ![u] = Try("address", @.stored, @.cfg, @.found, @.suffix, @.cfg.name)]
          /\ UNCHANGED nameQueue
     ELSE TryGoes(u, "name queue") /\ nameQueue' = Append(nameQueue, u)
  /\ UNCHANGED <<rows, counted, addrQueue, counter, commands, budget, gone, torn>>

NameTurn(u) == nameQueue # <<>> /\ Head(nameQueue) = u
NameDone == nameQueue' = Tail(nameQueue)

\* getSuffixForUsername: the names with this prefix are counted.
GetSuffix(u) ==
  /\ TryAt(u, "name queue") /\ NameTurn(u)
  /\ tries' = [tries EXCEPT ![u] =
       Try("probe", @.stored, @.cfg, @.found, Cardinality({v \in People : rows[v].name # 0}), 1)]
  /\ UNCHANGED <<rows, counted, queuesOfIdents, counter, commands, budget, gone, torn>>

\* getMatrixUserByUsername, until the name is nobody else's.
Probe(u) ==
  LET owners == {v \in People : rows[v].name = tries[u].name} IN
  /\ TryAt(u, "probe") /\ NameTurn(u)
  /\ \/ /\ owners \ {u} = {} \/ u \in owners
        /\ TryGoes(u, "name config") /\ UNCHANGED nameQueue
     \/ /\ owners \ {u} # {}
        /\ IF tries[u].suffix > MaxSuffix
           THEN tries' = [tries EXCEPT ![u] = NoTry] /\ NameDone
           ELSE /\ tries' = [tries EXCEPT ![u] =
                     Try("probe", @.stored, @.cfg, @.found, @.suffix + 1, @.suffix + 2)]
                /\ UNCHANGED nameQueue
  /\ UNCHANGED <<rows, counted, addrQueue, counter, commands, budget, gone, torn>>

\* process: the stored configuration, or the one of the connection, is given the name.
NameConfig(u) ==
  /\ TryAt(u, "name config") /\ NameTurn(u)
  /\ tries' = [tries EXCEPT ![u] =
       Try("store name", @.stored,
           IF rows[u].exists THEN @.cfg ELSE Config(@.cfg.exists, @.name, @.cfg.addr),
           Config(StoredOf(u).exists, @.name, StoredOf(u).addr), @.suffix, @.name)]
  /\ UNCHANGED <<rows, counted, queuesOfIdents, counter, commands, budget, gone, torn>>

StoreName(u) ==
  /\ TryAt(u, "store name") /\ NameTurn(u)
  /\ Writes(u, tries[u].found) /\ TryGoes(u, "address") /\ NameDone
  /\ UNCHANGED <<counted, addrQueue, counter, commands, budget, torn>>

\* generate: the address there is, or the queue.
Generate(u) ==
  /\ TryAt(u, "address")
  /\ IF tries[u].cfg.addr # 0 THEN TryGoes(u, "dials") /\ UNCHANGED addrQueue
     ELSE TryGoes(u, "address queue") /\ addrQueue' = Append(addrQueue, u)
  /\ UNCHANGED <<rows, counted, nameQueue, counter, commands, budget, gone, torn>>

AddrTurn(u) == addrQueue # <<>> /\ Head(addrQueue) = u

\* process: the counter is read once and kept; the address is that of the connection's
\* configuration at once.
Count(u) ==
  LET next == IF counter = -1 THEN counted + 1 ELSE counter + 1 IN
  /\ TryAt(u, "address queue") /\ AddrTurn(u)
  /\ counter' = next
  /\ tries' = [tries EXCEPT ![u] =
       Try("address config", @.stored, Config(@.cfg.exists, @.cfg.name, next), @.found, @.suffix, @.name)]
  /\ UNCHANGED <<rows, counted, queuesOfIdents, commands, budget, gone, torn>>

AddrConfig(u) ==
  /\ TryAt(u, "address config") /\ AddrTurn(u)
  /\ tries' = [tries EXCEPT ![u] =
       Try("store address", @.stored, @.cfg, Config(StoredOf(u).exists, StoredOf(u).name, @.cfg.addr),
           @.suffix, @.name)]
  /\ UNCHANGED <<rows, counted, queuesOfIdents, counter, commands, budget, gone, torn>>

StoreAddr(u) ==
  /\ TryAt(u, "store address") /\ AddrTurn(u)
  /\ Writes(u, tries[u].found) /\ TryGoes(u, "store counter")
  /\ UNCHANGED <<counted, queuesOfIdents, counter, commands, budget, torn>>

StoreCounterNot(u) ==
  /\ TryAt(u, "store counter") /\ AddrTurn(u)
  /\ TryGoes(u, "dials") /\ addrQueue' = Tail(addrQueue)
  /\ UNCHANGED <<rows, counted, nameQueue, counter, commands, budget, gone, torn>>
StoreCounter(u) ==
  /\ TryAt(u, "store counter") /\ AddrTurn(u)
  /\ counted' = counter /\ TryGoes(u, "dials") /\ addrQueue' = Tail(addrQueue)
  /\ UNCHANGED <<rows, nameQueue, counter, commands, budget, gone, torn>>

\* The network takes the connection, or not.
Online(u) ==
  /\ TryAt(u, "dials")
  /\ \/ TryGoes(u, IF tries[u].stored THEN "up" ELSE "online")
     \/ tries' = [tries EXCEPT ![u] = NoTry]
  /\ UNCHANGED <<rows, counted, queuesOfIdents, counter, commands, budget, gone, torn>>

\* getBridgedClient stores the configuration it made when there was none, whatever has
\* been stored since.
StoreConfig(u) ==
  /\ TryAt(u, "online") /\ Writes(u, tries[u].cfg) /\ TryGoes(u, "up")
  /\ UNCHANGED <<counted, queuesOfIdents, counter, commands, budget, torn>>

\* The connection is lost.  onClientDisconnected makes another from the stored
\* configuration, and stores nothing; or the user is dropped.
Disconnects(u) ==
  /\ TryAt(u, "up")
  /\ \/ tries' = [tries EXCEPT ![u] = NoTry] /\ UNCHANGED budget
     \/ /\ budget.dials > 0 /\ budget' = [budget EXCEPT !.dials = @ - 1]
        /\ tries' = [tries EXCEPT ![u] = NewTry("names", TRUE, StoredOf(u))]
  /\ UNCHANGED <<rows, counted, queuesOfIdents, counter, commands, gone, torn>>

\* !nick, !storepass and !removepass: the configuration is read, changed in what neither
\* name nor address depends on, and stored.
Command(u) ==
  /\ commands[u].pc = "none" /\ budget.commands > 0
  /\ budget' = [budget EXCEPT !.commands = @ - 1]
  /\ commands' = [commands EXCEPT ![u] = [pc |-> "store", cfg |-> rows[u]]]
  /\ UNCHANGED <<rows, counted, tries, queuesOfIdents, counter, gone, torn>>
StoreCommand(u) ==
  /\ commands[u].pc = "store" /\ Writes(u, commands[u].cfg)
  /\ commands' = [commands EXCEPT ![u] = NoCommand]
  /\ UNCHANGED <<counted, tries, queuesOfIdents, counter, budget, torn>>

\* The process ends, and starts again with what is stored.
Crash ==
  /\ budget.crashes > 0 /\ budget' = [budget EXCEPT !.crashes = @ - 1]
  /\ tries' = [u \in People |-> NoTry] /\ addrQueue' = <<>> /\ counter' = -1
  /\ nameQueue' = <<>>
  /\ commands' = [u \in People |-> NoCommand]
  /\ torn' = (torn \/ \E u \in People : TryAt(u, "store counter"))
  /\ UNCHANGED <<rows, counted, gone>>

IdentsNext ==
  \/ \E u \in People :
       \/ Dial(u) \/ GetIrcNames(u) \/ GetSuffix(u) \/ Probe(u) \/ NameConfig(u) \/ StoreName(u)
       \/ Generate(u) \/ Count(u) \/ AddrConfig(u) \/ StoreAddr(u) \/ StoreCounter(u)
       \/ Online(u) \/ StoreConfig(u) \/ Disconnects(u) \/ Command(u) \/ StoreCommand(u)
  \/ Crash

IdentsSpec == IdentsInit /\ [][IdentsNext]_identVars
------------------------------------------------------------------------------
Names == 0..(MaxSuffix + 2)
Configs == [exists : BOOLEAN, name : Names, addr : Nat]
TryPcs == {"none", "names", "name queue", "probe", "name config", "store name", "address", "address queue",
           "address config", "store address", "store counter", "dials", "online", "up"}

\* What each variable holds; the counter in memory is never behind the stored one.
IdentsTypeOK ==
  /\ rows \in [People -> Configs] /\ counted \in Nat
  /\ counter \in Nat \cup {-1} /\ (counter # -1 => counted <= counter)
  /\ tries \in [People -> [pc : TryPcs, stored : BOOLEAN, cfg : Configs, found : Configs,
                           suffix : Nat, name : Names]]
  /\ commands \in [People -> [pc : {"none", "store"}, cfg : Configs]]
  /\ \A q \in {nameQueue, addrQueue} : IsInjective(q) /\ ToSet(q) \subseteq People
  /\ gone \subseteq People /\ torn \in BOOLEAN

Dialling == {u \in People : tries[u].pc \in {"dials", "online", "up"}}

\* Two users connect under different names, also when they connect at the same time, and
\* from different addresses: the networks ban by them.  Not promised to a user whose name
\* was overwritten in the store, nor after a crash between the address and its counter.
HostmasksDiffer ==
  \A u, v \in Dialling : u # v =>
    /\ tries[u].name # tries[v].name \/ {u, v} \cap gone # {}
    /\ tries[u].cfg.addr # tries[v].cfg.addr \/ torn
=============================================================================
