---------------------------- MODULE CollatorNode ----------------------------
(***************************************************************************)
(* The process of a collator or a full node: what a command line makes it  *)
(* do (node/src/command.rs), the order in which it builds its parts and    *)
(* spawns their tasks (node/src/service.rs), and how it ends.  A step of   *)
(* the start that returns an error drops the task manager and with it      *)
(* every task spawned so far.  A task may end at any time; the end of an   *)
(* essential one is noticed by a node once it has started.                 *)
(***************************************************************************)
EXTENDS Integers, Sequences, FiniteSets

CONSTANTS
    Configs,        \* the command lines considered
    MaxEnds,        \* bound: tasks that end by themselves in one life
    MaxRestarts     \* bound: times the process is started again

(* Subcommands that do the same with new_partial are one: "chainOps" are    *)
(* check-block, export-blocks, export-state, import-blocks and revert,      *)
(* "partials" are export-genesis-head and the block and storage benchmarks, *)
(* "plain" the commands that build nothing.                                 *)
Commands == {"node", "chainOps", "partials", "purge", "plain"}

(* validator, collator and dev are the three flags that make an authority,  *)
(* embedded says that the relay chain node runs in the process and not      *)
(* behind an RPC address, chain is where the chain specification comes from *)
(* (--dev names a preset when there is no --chain).                         *)
CommandLines ==
    [command   : Commands,
     validator : BOOLEAN,
     collator  : BOOLEAN,
     dev       : BOOLEAN,
     embedded  : BOOLEAN,
     telemetry : BOOLEAN,
     offchain  : BOOLEAN,
     chain     : {"preset", "file"}]

ASSUME NodeAssumption ==
    Configs \subseteq CommandLines /\ MaxEnds \in Nat /\ MaxRestarts \in Nat

VARIABLES
    config,     \* the command line, the same for every life
    phase,      \* "starting", "running", "ended" or "panicked"
    done,       \* steps of the start that are done
    dead,       \* tasks that have ended by themselves in this life
    restarts    \* lives so far, less one

nodeVars == <<config, phase, done, dead, restarts>>

-----------------------------------------------------------------------------
(* The steps of a start.  A step either fails before it spawns anything or  *)
(* spawns its tasks; `needsKey` marks the one that expects a collator key.  *)

Step(name, fails, essential, plain) ==
    [name |-> name, fails |-> fails, essential |-> essential, plain |-> plain,
     needsKey |-> FALSE]

(* The role that the command line asks for: normalize() makes a validator   *)
(* of a collator, and sc_cli one of a node started with --dev.              *)
Authority(c) == c.validator \/ c.collator \/ c.dev

(* The presets carry the extension with the parachain id.                   *)
LoadSpec(c) == Step("LoadSpec", c.chain = "file", {}, {})

ParaId(c) == Step("ParaId", c.chain = "file", {}, {})

RelayArguments == Step("RelayArguments", TRUE, {}, {})

ImportQueueTasks == {"importQueue"}

NewPartial(c) ==
    Step("NewPartial", TRUE,
         {"transactionPool"} \cup ImportQueueTasks,
         IF c.telemetry THEN {"telemetry"} ELSE {})

RelayChainInterface == Step("RelayChainInterface", TRUE, {"relayChain"}, {})

(* An embedded relay chain node makes a key for an authority only, the      *)
(* client of an external one always.                                        *)
CollatorKey(c) == Authority(c) \/ ~c.embedded

Network == Step("Network", TRUE, {}, {"network"})

OffchainWorkers == Step("OffchainWorkers", TRUE, {}, {"offchainWorkers"})

(* Two RPC modules that name one method do not merge.                       *)
CreateRpc == Step("CreateRpc", TRUE, {}, {})

SpawnTasks == Step("SpawnTasks", TRUE, {}, {"rpc"})

OverseerHandle == Step("OverseerHandle", TRUE, {}, {})

RelayChainTasks == Step("RelayChainTasks", TRUE, {"followRelayChain"}, {})

(* With a bug: authoring is one more task that may stop.                    *)
StartConsensusPlain ==
    [Step("StartConsensus", FALSE, {}, {"aura"}) EXCEPT !.needsKey = TRUE]

StartConsensus ==
    [Step("StartConsensus", FALSE, {"aura"}, {}) EXCEPT !.needsKey = TRUE]

When(condition, step) == IF condition THEN <<step>> ELSE <<>>

(* With a bug: every node starts consensus.                                 *)
StartParachainNodeAnyRole(c) ==
    <<NewPartial(c), RelayChainInterface, Network>>
        \o When(c.offchain, OffchainWorkers)
        \o <<CreateRpc, SpawnTasks, OverseerHandle, RelayChainTasks, StartConsensus>>

(* With a bug: consensus is started before what follows the relay chain.    *)
StartParachainNodeEager(c) ==
    <<NewPartial(c), RelayChainInterface, Network>>
        \o When(c.offchain, OffchainWorkers)
        \o <<CreateRpc, SpawnTasks, OverseerHandle>>
        \o When(Authority(c), StartConsensus)
        \o <<RelayChainTasks>>

StartParachainNode(c) ==
    <<NewPartial(c), RelayChainInterface, Network>>
        \o When(c.offchain, OffchainWorkers)
        \o <<CreateRpc, SpawnTasks, OverseerHandle, RelayChainTasks>>
        \o When(Authority(c), StartConsensus)

Steps(c) ==
    <<LoadSpec(c)>> \o
    CASE c.command = "node"     -> <<ParaId(c), RelayArguments>> \o StartParachainNode(c)
      [] c.command = "chainOps" -> <<NewPartial(c)>>
      [] c.command = "partials" -> <<NewPartial(c)>>
      [] c.command = "purge"    -> <<RelayArguments>>
      [] c.command = "plain"    -> <<>>

-----------------------------------------------------------------------------
(* Tasks of the current life *)

Plan == [c \in Configs |-> Steps(c)]

EssentialAfter == [c \in Configs |-> [n \in 0 .. Len(Plan[c]) |->
    UNION {Plan[c][i].essential : i \in 1 .. n}]]

SpawnedAfter == [c \in Configs |-> [n \in 0 .. Len(Plan[c]) |->
    EssentialAfter[c][n] \cup UNION {Plan[c][i].plain : i \in 1 .. n}]]

Essential == EssentialAfter[config][done]
Spawned   == SpawnedAfter[config][done]
Alive     == Spawned \ dead

IsNode == config.command = "node"
Over   == phase \in {"ended", "panicked"}

(* The process goes down, and its task manager with it.                     *)
GoesDown(end) ==
    /\ phase' = end
    /\ done' = 0
    /\ dead' = {}
    /\ UNCHANGED <<config, restarts>>

-----------------------------------------------------------------------------
NodeInit ==
    /\ config \in Configs
    /\ phase = "starting"
    /\ done = 0
    /\ dead = {}
    /\ restarts = 0

StartsNext == phase = "starting" /\ done < Len(Plan[config])

(* collator_key.expect(..) has no key.                                      *)
KeyMissing == StartsNext /\ Plan[config][done + 1].needsKey /\ ~CollatorKey(config)

StepDone ==
    /\ StartsNext
    /\ ~KeyMissing
    /\ done' = done + 1
    /\ UNCHANGED <<config, phase, dead, restarts>>

(* `?`: the error goes up to main.                                          *)
StepFails ==
    /\ StartsNext
    /\ Plan[config][done + 1].fails
    /\ GoesDown("ended")

StepPanics == KeyMissing /\ GoesDown("panicked")

Started ==
    /\ phase = "starting"
    /\ done = Len(Plan[config])
    /\ phase' = "running"
    /\ UNCHANGED <<config, done, dead, restarts>>

TaskEnds(t) ==
    /\ t \in Alive
    /\ Cardinality(dead) < MaxEnds
    /\ dead' = dead \cup {t}
    /\ UNCHANGED <<config, phase, done, restarts>>

(* run_node_until_exit polls the task manager, the runners of subcommands   *)
(* do not.                                                                  *)
EssentialNoticed ==
    /\ phase = "running" /\ IsNode
    /\ dead \cap Essential # {}
    /\ GoesDown("ended")

(* SIGINT or SIGTERM; during the start and in sync_run nobody looks at them. *)
Signal ==
    /\ phase = "running"
    /\ config.command \in {"node", "chainOps"}
    /\ GoesDown("ended")

(* The work of a subcommand is done.                                        *)
Finish == phase = "running" /\ ~IsNode /\ GoesDown("ended")

Crash == ~Over /\ GoesDown("ended")

Restart ==
    /\ phase = "ended"
    /\ restarts < MaxRestarts
    /\ phase' = "starting"
    /\ restarts' = restarts + 1
    /\ UNCHANGED <<config, done, dead>>

NodeNext ==
    \/ StepDone \/ StepFails \/ StepPanics \/ Started
    \/ \E t \in Spawned : TaskEnds(t)
    \/ EssentialNoticed \/ Signal \/ Finish \/ Crash \/ Restart
=============================================================================
