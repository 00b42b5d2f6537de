---------------------------- MODULE MCCollation ----------------------------
(* Collation on small constants: a collator as zombienet.toml starts it, a  *)
(* full node with an embedded and one with an external relay chain node,    *)
(* and the subcommands.  The other ways to be an authority (--validator,    *)
(* --dev) spawn the same tasks: a second one would only double the states.  *)
EXTENDS Collation

Collator ==
    [command |-> "node", validator |-> FALSE, collator |-> TRUE, dev |-> FALSE,
     embedded |-> TRUE, telemetry |-> FALSE, offchain |-> FALSE, chain |-> "preset"]

FullNode ==
    [Collator EXCEPT !.collator = FALSE, !.offchain = TRUE, !.telemetry = TRUE]

MCConfigs ==
    {Collator,
     FullNode,
     [FullNode EXCEPT !.embedded = FALSE, !.chain = "file"]}
    \cup {[Collator EXCEPT !.command = c] : c \in Commands \ {"node"}}
=============================================================================
