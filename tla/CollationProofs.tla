-------------------------- MODULE CollationProofs --------------------------
(***************************************************************************)
(* Four theorems about Collation, for every set of command lines and every *)
(* bound: its node never panics for want of a collator key, it never       *)
(* authors before what authoring needs has been started, the chain it      *)
(* builds implements LinearChain, and the database of blocks stays a tree  *)
(* of bounded depth.                                                       *)
(***************************************************************************)
EXTENDS Collation, SequenceProofs, FiniteSetTheorems, TLAPS

(* Every step of a start but the one that starts consensus.                 *)
Keyless ==
    {RelayArguments, RelayChainInterface, Network, OffchainWorkers, CreateRpc,
     SpawnTasks, OverseerHandle, RelayChainTasks}
      \cup {LoadSpec(c) : c \in CommandLines}
      \cup {ParaId(c) : c \in CommandLines}
      \cup {NewPartial(c) : c \in CommandLines}

(* None of them needs a key.                                                *)
LEMMA StepsKeyless ==
    ASSUME NEW s \in Keyless
    PROVE  ~s.needsKey
  BY DEF Keyless, LoadSpec, ParaId, RelayArguments, NewPartial, RelayChainInterface, Network,
     OffchainWorkers, CreateRpc, SpawnTasks, OverseerHandle, RelayChainTasks, Step

(* An optional step is a short sequence.                                    *)
LEMMA WhenKeyless ==
    ASSUME NEW condition \in BOOLEAN, NEW step \in Keyless
    PROVE  When(condition, step) \in Seq(Keyless)
  BY DEF When

(* A node that is no authority has no step that needs a key.                *)
LEMMA StartKeyless ==
    ASSUME NEW c \in CommandLines, ~Authority(c)
    PROVE  StartParachainNode(c) \in Seq(Keyless)
<1> DEFINE first == <<NewPartial(c), RelayChainInterface, Network>>
           offchain == When(c.offchain, OffchainWorkers)
           last == <<CreateRpc, SpawnTasks, OverseerHandle, RelayChainTasks>>
<1>1. first \in Seq(Keyless) /\ last \in Seq(Keyless)
  BY DEF Keyless
<1>2. offchain \in Seq(Keyless)
  BY WhenKeyless DEF CommandLines, Keyless
<1>3. When(Authority(c), StartConsensus) = <<>>
  BY DEF When
<1>4. (first \o offchain) \o last \in Seq(Keyless)
  <2> HIDE DEF first, offchain, last
  <2> QED  BY <1>1, <1>2
<1>5. ((first \o offchain) \o last) \o <<>> \in Seq(Keyless)
  <2> HIDE DEF first, offchain, last
  <2> QED  BY <1>4
<1> QED
  BY <1>3, <1>5 DEF StartParachainNode

(* Only a node starts consensus.                                            *)
LEMMA OthersKeyless ==
    ASSUME NEW c \in CommandLines, c.command # "node"
    PROVE  Steps(c) \in Seq(Keyless)
<1>1. <<LoadSpec(c)>> \in Seq(Keyless)
  BY DEF Keyless
<1>2. CASE c.command \in {"chainOps", "partials"}
  <2>1. <<NewPartial(c)>> \in Seq(Keyless)
    BY DEF Keyless
  <2>2. Steps(c) = <<LoadSpec(c)>> \o <<NewPartial(c)>>
    BY <1>2 DEF Steps
  <2> QED
    BY <1>1, <2>1, <2>2
<1>3. CASE c.command = "purge"
  <2>1. <<RelayArguments>> \in Seq(Keyless)
    BY DEF Keyless
  <2>2. Steps(c) = <<LoadSpec(c)>> \o <<RelayArguments>>
    BY <1>3 DEF Steps
  <2> QED
    BY <1>1, <2>1, <2>2
<1>4. CASE c.command = "plain"
  <2>1. Steps(c) = <<LoadSpec(c)>> \o <<>>
    BY <1>4 DEF Steps
  <2> QED
    BY <1>1, <2>1
<1> QED
  BY <1>2, <1>3, <1>4 DEF CommandLines, Commands

(* So a key is needed for an authority only.                                *)
LEMMA PlanKeyless ==
    ASSUME NEW c \in CommandLines, ~Authority(c)
    PROVE  Steps(c) \in Seq(Keyless)
<1>1. <<LoadSpec(c)>> \in Seq(Keyless)
  BY DEF Keyless
<1>2. CASE c.command = "node"
  <2>1. <<ParaId(c), RelayArguments>> \in Seq(Keyless)
    BY DEF Keyless
  <2>2. <<ParaId(c), RelayArguments>> \o StartParachainNode(c) \in Seq(Keyless)
    BY <2>1, StartKeyless
  <2> QED
    BY <1>1, <1>2, <2>2 DEF Steps
<1> QED
  BY <1>2, OthersKeyless

-----------------------------------------------------------------------------
(* Its strengthening: the node follows the plan of a command line.          *)
NodeInv ==
    /\ config \in Configs
    /\ done \in Nat
    /\ NoPanic

(* The step that expects the key is never the next one where it is missing. *)
LEMMA KeyNeverMissing ==
    ASSUME config \in Configs, done \in Nat
    PROVE  ~KeyMissing
<1>1. config \in CommandLines
  BY NodeAssumption
<1>2. CASE Authority(config)
  BY <1>2 DEF KeyMissing, CollatorKey
<1>3. CASE ~Authority(config)
  <2>1. Plan[config] \in Seq(Keyless)
    BY <1>1, <1>3, PlanKeyless DEF Plan
  <2>2. ASSUME StartsNext PROVE Plan[config][done + 1] \in Keyless
    <3> DEFINE p == Plan[config]
    <3>1. p \in Seq(Keyless) /\ done < Len(p)
      BY <2>1, <2>2 DEF StartsNext
    <3>2. done + 1 \in 1 .. Len(p)
      BY <3>1
    <3> HIDE DEF p
    <3>3. p[done + 1] \in Keyless
      BY <3>1, <3>2
    <3> QED
      BY <3>3 DEF p
  <2> QED
    BY <2>2, StepsKeyless DEF KeyMissing
<1> QED
  BY <1>2, <1>3

(* No step of the node panics or leaves its plan.                           *)
LEMMA NodeStep ==
    ASSUME NodeInv, NodeNext
    PROVE  NodeInv'
<1> USE DEF NodeInv, NoPanic
<1>1. CASE StepDone
  BY <1>1 DEF StepDone
<1>2. CASE StepFails
  BY <1>2 DEF StepFails, GoesDown
<1>3. CASE StepPanics
  BY <1>3, KeyNeverMissing DEF StepPanics
<1>4. CASE Started
  BY <1>4 DEF Started
<1>5. ASSUME NEW t \in Spawned, TaskEnds(t) PROVE NodeInv'
  BY <1>5 DEF TaskEnds
<1>6. CASE EssentialNoticed \/ Signal \/ Finish \/ Crash
  BY <1>6 DEF EssentialNoticed, Signal, Finish, Crash, GoesDown
<1>7. CASE Restart
  BY <1>7 DEF Restart
<1> QED
  BY <1>1, <1>2, <1>3, <1>4, <1>5, <1>6, <1>7 DEF NodeNext

(* "Command line arguments do not allow this" (service.rs:404) holds for    *)
(* every command line, and however the chain goes on meanwhile.             *)
THEOREM NeverPanics == Spec => []NoPanic
<1>1. Init => NodeInv
  BY DEF Init, NodeInit, NodeInv, NoPanic
<1>2. NodeInv /\ [Next]_vars => NodeInv'
  <2> SUFFICES ASSUME NodeInv, [Next]_vars PROVE NodeInv'
    OBVIOUS
  <2>1. CASE Node(NodeNext)
    BY <2>1, NodeStep DEF Node
  <2>2. CASE UNCHANGED nodeVars
    BY <2>2 DEF nodeVars, NodeInv, NoPanic
  <2>3. ASSUME Next, ~Node(NodeNext) PROVE UNCHANGED nodeVars
    BY <2>3 DEF Next, Author, Submit, BackSome, Back, Include, TimeOut, Finalize, Reorg,
       ExpireSome, Expire, Arrive
  <2> QED
    BY <2>1, <2>2, <2>3 DEF vars
<1>3. NodeInv => NoPanic
  BY DEF NodeInv
<1> QED
  BY <1>1, <1>2, <1>3, PTL DEF Spec
-----------------------------------------------------------------------------
(* What a node has started by the time it authors *)

(* All tasks that a step spawns.                                            *)
StepTasks(s) == s.essential \cup s.plain

(* None of the steps without a key spawns the authoring task.               *)
LEMMA KeylessNoAura ==
    ASSUME NEW s \in Keyless
    PROVE  "aura" \notin StepTasks(s)
  BY DEF StepTasks, Keyless, LoadSpec, ParaId, RelayArguments, NewPartial,
     RelayChainInterface, Network, OffchainWorkers, CreateRpc, SpawnTasks, OverseerHandle,
     RelayChainTasks, Step, ImportQueueTasks

(* What is spawned after n steps is what these steps spawn.                 *)
LEMMA SpawnedBySteps ==
    ASSUME NEW c \in Configs, NEW n \in 0 .. Len(Plan[c]), NEW t
    PROVE  t \in SpawnedAfter[c][n] <=> \E i \in 1 .. n : t \in StepTasks(Plan[c][i])
  BY DEF SpawnedAfter, EssentialAfter, StepTasks

(* Every step of a start.                                                   *)
AnyStep == Keyless \cup {StartConsensus}

(* What two sequences of steps give one after the other.                    *)
LEMMA ConcatSteps ==
    ASSUME NEW s \in Seq(AnyStep), NEW t \in Seq(AnyStep)
    PROVE  /\ s \o t \in Seq(AnyStep)
           /\ Len(s \o t) = Len(s) + Len(t)
           /\ \A i \in 1 .. Len(s) : (s \o t)[i] = s[i]
           /\ \A i \in 1 .. Len(t) : (s \o t)[Len(s) + i] = t[i]
  OBVIOUS

(* The start of an authority ends with consensus, the only step that needs  *)
(* a key and the one that spawns the authoring task.                        *)
LEMMA StartOfAuthority ==
    ASSUME NEW c \in CommandLines, Authority(c)
    PROVE  LET p == StartParachainNode(c)
               n == Len(p)
           IN  /\ p \in Seq(AnyStep) /\ n >= 8
               /\ p[1] = NewPartial(c) /\ p[2] = RelayChainInterface
               /\ p[n - 1] = RelayChainTasks
               /\ \A i \in 1 .. n - 1 : p[i] \in Keyless
<1> DEFINE first == <<NewPartial(c), RelayChainInterface, Network>>
           offchain == When(c.offchain, OffchainWorkers)
           then == <<CreateRpc, SpawnTasks, OverseerHandle, RelayChainTasks>>
           last == <<StartConsensus>>
<1>1. /\ first \in Seq(AnyStep) /\ Len(first) = 3
      /\ first[1] = NewPartial(c) /\ first[2] = RelayChainInterface
      /\ \A i \in 1 .. 3 : first[i] \in Keyless
  BY DEF AnyStep, Keyless
<1>2. /\ offchain \in Seq(AnyStep) /\ Len(offchain) \in Nat
      /\ \A i \in 1 .. Len(offchain) : offchain[i] \in Keyless
  <2>1. OffchainWorkers \in Keyless /\ OffchainWorkers \in AnyStep
    BY DEF AnyStep, Keyless
  <2>2. CASE c.offchain
    <3>1. offchain = <<OffchainWorkers>>
      BY <2>2 DEF When
    <3> HIDE DEF offchain
    <3> QED
      BY <2>1, <3>1
  <2>3. CASE ~c.offchain
    <3>1. offchain = <<>>
      BY <2>3 DEF When
    <3> HIDE DEF offchain
    <3> QED
      BY <3>1
  <2> QED
    BY <2>2, <2>3
<1>3. /\ then \in Seq(AnyStep) /\ Len(then) = 4 /\ then[4] = RelayChainTasks
      /\ \A i \in 1 .. 4 : then[i] \in Keyless
  BY DEF AnyStep, Keyless
<1>4. last \in Seq(AnyStep) /\ Len(last) = 1
  BY DEF AnyStep
<1>5. StartParachainNode(c) = ((first \o offchain) \o then) \o last
  <2>1. When(Authority(c), StartConsensus) = last
    BY DEF When
  <2> QED
    BY <2>1 DEF StartParachainNode
<1> HIDE DEF first, offchain, then, last
<1> DEFINE x == first \o offchain
           y == x \o then
           p == y \o last
<1>6. /\ x \in Seq(AnyStep) /\ Len(x) = Len(first) + Len(offchain)
      /\ \A i \in 1 .. Len(first) : x[i] = first[i]
      /\ \A i \in 1 .. Len(offchain) : x[Len(first) + i] = offchain[i]
  BY <1>1, <1>2, ConcatSteps
<1> HIDE DEF x
<1>7. /\ x \in Seq(AnyStep) /\ Len(x) \in Nat /\ Len(x) >= 3
      /\ x[1] = NewPartial(c) /\ x[2] = RelayChainInterface
      /\ \A i \in 1 .. Len(x) : x[i] \in Keyless
  <2>1. Len(x) \in Nat /\ Len(x) >= 3 /\ Len(x) = 3 + Len(offchain)
    BY <1>1, <1>2, <1>6
  <2>2. x[1] = NewPartial(c) /\ x[2] = RelayChainInterface
    BY <1>1, <1>6
  <2>3. ASSUME NEW i \in 1 .. Len(x) PROVE x[i] \in Keyless
    <3>1. CASE i \in 1 .. 3
      BY <3>1, <1>1, <1>6
    <3>2. CASE i \notin 1 .. 3
      <4>1. i - 3 \in 1 .. Len(offchain) /\ 3 + (i - 3) = i
        BY <3>2, <2>1, <1>2
      <4>2. x[i] = offchain[i - 3]
        BY <4>1, <1>1, <1>6
      <4> QED
        BY <4>1, <4>2, <1>2
    <3> QED
      BY <3>1, <3>2
  <2> QED
    BY <2>1, <2>2, <2>3, <1>6
<1>8. /\ y \in Seq(AnyStep) /\ Len(y) = Len(x) + Len(then)
      /\ \A i \in 1 .. Len(x) : y[i] = x[i]
      /\ \A i \in 1 .. Len(then) : y[Len(x) + i] = then[i]
  BY <1>7, <1>3, ConcatSteps
<1> HIDE DEF y
<1>9. Len(y) \in Nat /\ Len(y) >= 7 /\ Len(y) = Len(x) + 4
  <2>1. Len(x) \in Nat /\ Len(x) >= 3
    BY <1>7
  <2>2. Len(y) = Len(x) + 4
    BY <1>3, <1>8
  <2> QED
    BY <2>1, <2>2
<1>10. y[1] = NewPartial(c) /\ y[2] = RelayChainInterface
  <2>1. 1 \in 1 .. Len(x) /\ 2 \in 1 .. Len(x)
    BY <1>7
  <2> QED
    BY <2>1, <1>7, <1>8
<1>11. y[Len(y)] = RelayChainTasks
  <2>1. 4 \in 1 .. Len(then)
    BY <1>3
  <2>2. y[Len(x) + 4] = then[4]
    BY <2>1, <1>8
  <2>3. then[4] = RelayChainTasks
    BY <1>3
  <2>4. Len(y) = Len(x) + 4
    BY <1>9
  <2> QED
    BY <2>2, <2>3, <2>4
<1>12. ASSUME NEW i \in 1 .. Len(y) PROVE y[i] \in Keyless
  <2>1. CASE i \in 1 .. Len(x)
    BY <2>1, <1>7, <1>8
  <2>2. CASE i \notin 1 .. Len(x)
    <3>1. i - Len(x) \in 1 .. 4 /\ Len(x) + (i - Len(x)) = i
      BY <2>2, <1>7, <1>9
    <3>2. y[i] = then[i - Len(x)]
      BY <3>1, <1>3, <1>8
    <3> QED
      BY <3>1, <3>2, <1>3
  <2> QED
    BY <2>1, <2>2
<1>13. /\ p \in Seq(AnyStep) /\ Len(p) = Len(y) + Len(last)
       /\ \A i \in 1 .. Len(y) : p[i] = y[i]
  BY <1>4, <1>8, ConcatSteps
<1> HIDE DEF p
<1>14. StartParachainNode(c) = p
  BY <1>5 DEF p, y, x
<1>15. Len(p) >= 8 /\ Len(p) - 1 = Len(y)
  BY <1>4, <1>9, <1>13
<1>16. p[1] = NewPartial(c) /\ p[2] = RelayChainInterface /\ p[Len(y)] = RelayChainTasks
  <2>1. 1 \in 1 .. Len(y) /\ 2 \in 1 .. Len(y) /\ Len(y) \in 1 .. Len(y)
    BY <1>9
  <2> QED
    BY <2>1, <1>10, <1>11, <1>13
<1>17. \A i \in 1 .. Len(p) - 1 : p[i] \in Keyless
  BY <1>12, <1>13, <1>15
<1>18. p[Len(p) - 1] = RelayChainTasks
  BY <1>15, <1>16
<1> HIDE DEF Keyless, AnyStep
<1> QED
  BY <1>13, <1>14, <1>15, <1>16, <1>17, <1>18

(* The same with the steps before start_parachain_node (command.rs:113-265).*)
LEMMA PlanOfAuthority ==
    ASSUME NEW c \in CommandLines, c.command = "node", Authority(c)
    PROVE  LET p == Steps(c)
               n == Len(p)
           IN  /\ p \in Seq(AnyStep) /\ n >= 11
               /\ p[4] = NewPartial(c) /\ p[5] = RelayChainInterface
               /\ p[n - 1] = RelayChainTasks
               /\ \A i \in 1 .. n - 1 : p[i] \in Keyless
<1> DEFINE one == <<LoadSpec(c)>>
           two == <<ParaId(c), RelayArguments>>
           s == StartParachainNode(c)
           q == two \o s
           p == one \o q
<1>1. /\ one \in Seq(AnyStep) /\ Len(one) = 1 /\ one[1] \in Keyless
      /\ two \in Seq(AnyStep) /\ Len(two) = 2 /\ \A i \in 1 .. 2 : two[i] \in Keyless
  BY DEF AnyStep, Keyless
<1>2. /\ s \in Seq(AnyStep) /\ Len(s) >= 8
      /\ s[1] = NewPartial(c) /\ s[2] = RelayChainInterface
      /\ s[Len(s) - 1] = RelayChainTasks
      /\ \A i \in 1 .. Len(s) - 1 : s[i] \in Keyless
  BY StartOfAuthority
<1>3. Steps(c) = p
  BY DEF Steps
<1> HIDE DEF one, two, s
<1>4. /\ q \in Seq(AnyStep) /\ Len(q) = Len(two) + Len(s)
      /\ \A i \in 1 .. Len(two) : q[i] = two[i]
      /\ \A i \in 1 .. Len(s) : q[Len(two) + i] = s[i]
  BY <1>1, <1>2, ConcatSteps
<1> HIDE DEF q
<1>5. /\ p \in Seq(AnyStep) /\ Len(p) = Len(one) + Len(q)
      /\ \A i \in 1 .. Len(one) : p[i] = one[i]
      /\ \A i \in 1 .. Len(q) : p[Len(one) + i] = q[i]
  BY <1>1, <1>4, ConcatSteps
<1> HIDE DEF p
<1>6. /\ Len(p) = Len(s) + 3
      /\ p[1] \in Keyless /\ p[2] \in Keyless /\ p[3] \in Keyless
      /\ \A i \in 1 .. Len(s) : p[3 + i] = s[i]
  <2>1. \A i \in 1 .. Len(q) : p[1 + i] = q[i]
    BY <1>1, <1>5
  <2>2. \A i \in 1 .. Len(s) : 2 + i \in 1 .. Len(q) /\ 1 + (2 + i) = 3 + i
    BY <1>1, <1>2, <1>4
  <2>3. \A i \in 1 .. Len(s) : p[1 + (2 + i)] = s[i]
    BY <2>1, <2>2, <1>1, <1>4
  <2>4. 1 \in 1 .. Len(q) /\ 2 \in 1 .. Len(q) /\ 1 + 1 = 2 /\ 1 + 2 = 3
    BY <1>1, <1>2, <1>4
  <2>5. p[1 + 1] = two[1] /\ p[1 + 2] = two[2] /\ p[1] = one[1]
    BY <2>1, <2>4, <1>1, <1>4, <1>5
  <2>6. Len(p) = Len(s) + 3
    BY <1>1, <1>2, <1>4, <1>5
  <2> QED
    BY <2>2, <2>3, <2>4, <2>5, <2>6, <1>1
<1>7. Len(s) \in Nat /\ Len(s) >= 8 /\ Len(p) = Len(s) + 3
  BY <1>2, <1>6
<1>8. ASSUME NEW i \in 1 .. Len(p) - 1 PROVE p[i] \in Keyless
  <2>1. CASE i \in 1 .. 3
    BY <2>1, <1>6
  <2>2. CASE i \notin 1 .. 3
    <3>1. i - 3 \in 1 .. Len(s) - 1 /\ i - 3 \in 1 .. Len(s) /\ 3 + (i - 3) = i
      BY <2>2, <1>7
    <3>2. p[i] = s[i - 3]
      BY <3>1, <1>6
    <3> QED
      BY <3>1, <3>2, <1>2
  <2> QED
    BY <2>1, <2>2
<1>9. /\ p[4] = NewPartial(c) /\ p[5] = RelayChainInterface
      /\ p[Len(p) - 1] = RelayChainTasks
  <2>1. /\ 1 \in 1 .. Len(s) /\ 2 \in 1 .. Len(s) /\ Len(s) - 1 \in 1 .. Len(s)
        /\ 3 + 1 = 4 /\ 3 + 2 = 5 /\ 3 + (Len(s) - 1) = Len(p) - 1
    BY <1>7
  <2>2. p[4] = s[1] /\ p[5] = s[2]
    BY <2>1, <1>6
  <2>3. p[Len(p) - 1] = s[Len(s) - 1]
    BY <2>1, <1>6
  <2> QED
    BY <2>2, <2>3, <1>2
<1>10. Len(p) >= 11
  BY <1>7
<1> QED
  BY <1>3, <1>5, <1>8, <1>9, <1>10

(* The tasks of AuthorsWhole.                                               *)
Needed == {"transactionPool", "importQueue", "relayChain", "followRelayChain"}

(* Whoever has the authoring task has all that it needs: the one step that  *)
(* spawns it is the last of its start.                                      *)
LEMMA AuraLast ==
    ASSUME NEW c \in Configs, NEW n \in 0 .. Len(Plan[c]), "aura" \in SpawnedAfter[c][n]
    PROVE  Needed \subseteq SpawnedAfter[c][n]
<1> DEFINE p == Plan[c]
<1>1. c \in CommandLines /\ p = Steps(c)
  BY NodeAssumption DEF Plan
<1>2. PICK i \in 1 .. n : "aura" \in StepTasks(p[i])
  BY SpawnedBySteps
<1>3. p[i] \notin Keyless
  BY <1>2, KeylessNoAura
<1>4. c.command = "node" /\ Authority(c)
  <2>1. Steps(c) \notin Seq(Keyless)
    <3>1. ASSUME p \in Seq(Keyless) PROVE FALSE
      <4>1. Len(p) \in Nat /\ i \in 1 .. Len(p)
        BY <3>1
      <4> HIDE DEF p
      <4>2. p[i] \in Keyless
        BY <3>1, <4>1
      <4> QED
        BY <4>2, <1>3
    <3> QED
      BY <3>1, <1>1
  <2>2. Authority(c)
    BY <1>1, <2>1, PlanKeyless
  <2>3. CASE c.command # "node"
    BY <1>1, <2>1, <2>3, OthersKeyless
  <2> QED
    BY <2>2, <2>3
<1>5. /\ p \in Seq(AnyStep) /\ Len(p) >= 11
      /\ p[4] = NewPartial(c) /\ p[5] = RelayChainInterface
      /\ p[Len(p) - 1] = RelayChainTasks
      /\ \A k \in 1 .. Len(p) - 1 : p[k] \in Keyless
  BY <1>1, <1>4, PlanOfAuthority
<1> HIDE DEF p
<1>6. Len(p) \in Nat
  BY <1>5
<1>7. i = Len(p) /\ n = Len(p)
  <2>1. n \in 0 .. Len(p)
    BY DEF p
  <2>2. i \notin 1 .. Len(p) - 1
    BY <1>3, <1>5
  <2> QED
    BY <1>6, <2>1, <2>2
<1>8. 4 \in 1 .. n /\ 5 \in 1 .. n /\ Len(p) - 1 \in 1 .. n
  BY <1>5, <1>6, <1>7
<1>9. \A t : (\E k \in 1 .. n : t \in StepTasks(p[k])) => t \in SpawnedAfter[c][n]
  BY SpawnedBySteps DEF p
<1>10. /\ "transactionPool" \in StepTasks(p[4]) /\ "importQueue" \in StepTasks(p[4])
       /\ "relayChain" \in StepTasks(p[5])
       /\ "followRelayChain" \in StepTasks(p[Len(p) - 1])
  BY <1>5 DEF StepTasks, NewPartial, RelayChainInterface, RelayChainTasks, Step, ImportQueueTasks
<1> QED
  BY <1>8, <1>9, <1>10 DEF Needed

-----------------------------------------------------------------------------
(* Its strengthening: the block in hand is held by the authoring task.      *)
AuthorInv ==
    /\ config \in Configs
    /\ done \in 0 .. Len(Plan[config])
    /\ holding # NoBlock => "aura" \in Spawned

(* Every plan has an end.                                                   *)
LEMMA PlanFinite ==
    ASSUME NEW c \in Configs
    PROVE  Len(Plan[c]) \in Nat
<1>1. c \in CommandLines /\ Plan[c] = Steps(c)
  BY NodeAssumption DEF Plan
<1>2. CASE c.command = "node" /\ Authority(c)
  BY <1>1, <1>2, PlanOfAuthority
<1>3. CASE ~(c.command = "node" /\ Authority(c))
  <2>1. Steps(c) \in Seq(Keyless)
    BY <1>1, <1>3, PlanKeyless, OthersKeyless
  <2> QED
    BY <1>1, <2>1
<1> QED
  BY <1>2, <1>3

(* The steps done are steps of the plan.                                    *)
LEMMA NodeKeepsPlan ==
    ASSUME config \in Configs, done \in 0 .. Len(Plan[config]), NodeNext
    PROVE  config' \in Configs /\ done' \in 0 .. Len(Plan[config'])
<1>1. Len(Plan[config]) \in Nat
  BY PlanFinite
<1>2. CASE StepDone
  BY <1>1, <1>2 DEF StepDone, StartsNext
<1>3. CASE StepFails \/ StepPanics \/ EssentialNoticed \/ Signal \/ Finish \/ Crash
  BY <1>1, <1>3 DEF StepFails, StepPanics, EssentialNoticed, Signal, Finish, Crash, GoesDown
<1>4. CASE Started
  BY <1>4 DEF Started
<1>5. ASSUME NEW t \in Spawned, TaskEnds(t)
      PROVE  config' \in Configs /\ done' \in 0 .. Len(Plan[config'])
  BY <1>5 DEF TaskEnds
<1>6. CASE Restart
  BY <1>6 DEF Restart
<1> QED
  BY <1>2, <1>3, <1>4, <1>5, <1>6 DEF NodeNext

(* A node that holds a block of its own has started everything it needs to  *)
(* learn of the block's inclusion and to import others (service.rs:374-408),*)
(* however often it has gone down since.                                    *)
THEOREM WholeWhenAuthoring == Spec => []AuthorsWhole
<1>1. Init => AuthorInv
  <2> SUFFICES ASSUME Init PROVE AuthorInv
    OBVIOUS
  <2>1. config \in Configs /\ done = 0 /\ holding = NoBlock
    BY DEF Init, NodeInit
  <2> QED
    BY <2>1, PlanFinite DEF AuthorInv
<1>2. AuthorInv /\ [Next]_vars => AuthorInv'
  <2> SUFFICES ASSUME AuthorInv, [Next]_vars PROVE AuthorInv'
    OBVIOUS
  <2> USE DEF AuthorInv
  <2>1. CASE Node(NodeNext)
    <3>1. config' \in Configs /\ done' \in 0 .. Len(Plan[config'])
      BY <2>1, NodeKeepsPlan DEF Node
    <3>2. holding' # NoBlock => "aura" \in Spawned'
      BY <2>1 DEF Node, Authoring, Alive
    <3> QED
      BY <3>1, <3>2
  <2>2. ASSUME UNCHANGED nodeVars, holding' # NoBlock => (holding # NoBlock \/ Authoring)
        PROVE  AuthorInv'
    BY <2>2 DEF nodeVars, Spawned, Authoring, Alive, Plan, SpawnedAfter
  <2>3. CASE Author
    BY <2>2, <2>3 DEF Author
  <2>4. CASE Finalize
    BY <2>2, <2>4 DEF Finalize
  <2>5. CASE ExpireSome
    BY <2>2, <2>5 DEF ExpireSome, Expire
  <2>6. CASE Submit \/ BackSome \/ Include \/ TimeOut \/ Reorg \/ Arrive \/ UNCHANGED vars
    BY <2>2, <2>6 DEF Submit, BackSome, Back, Include, TimeOut, Reorg, Arrive, vars, chainVars
  <2> QED
    BY <2>1, <2>3, <2>4, <2>5, <2>6 DEF Next
<1>3. AuthorInv => AuthorsWhole
  BY AuraLast DEF AuthorInv, AuthorsWhole, Spawned, Needed
<1> QED
  BY <1>1, <1>2, <1>3, PTL DEF Spec
-----------------------------------------------------------------------------
(* Logs that are in order *)

Items  == [kind : {"message", "call"}, at : Nat]

(* What Legal says, with the operators of this module.                      *)
LEMMA LegalMeans ==
    ASSUME NEW l, NEW n
    PROVE  Linear!Legal(l, n) <=>
             /\ \A i \in Linear!Of("message", l) :
                   l[i].at = 1 + Cardinality(Linear!Before("message", l, i))
             /\ Cardinality(Linear!Of("message", l)) <= n
             /\ \A i \in Linear!Of("call", l) :
                   l[i].at = 0 + Cardinality(Linear!Before("call", l, i))
<1>1. \A S : Linear!Cardinality(S) = Cardinality(S)
  BY DEF Cardinality, Linear!Cardinality
<1> QED
  BY <1>1 DEF Linear!Legal, Linear!InOrder

(* The places of a log that grows by an item.                               *)
LEMMA OfAppend ==
    ASSUME NEW l \in Seq(Items), NEW x \in Items, NEW kind
    PROVE  LET m == Append(l, x)
           IN  /\ Count(kind, l) \in Nat
               /\ Linear!Of(kind, m) = IF x.kind = kind
                                        THEN Linear!Of(kind, l) \cup {Len(l) + 1}
                                        ELSE Linear!Of(kind, l)
               /\ Count(kind, m) = IF x.kind = kind THEN Count(kind, l) + 1 ELSE Count(kind, l)
               /\ \A i \in Linear!Of(kind, l) :
                     i \in 1 .. Len(l) /\ Linear!Before(kind, m, i) = Linear!Before(kind, l, i)
               /\ Linear!Before(kind, m, Len(l) + 1) = Linear!Of(kind, l)
<1> DEFINE m == Append(l, x)
           n == Len(l)
           O == Linear!Of(kind, l)
<1>1. /\ n \in Nat /\ DOMAIN l = 1 .. n /\ DOMAIN m = 1 .. n + 1
      /\ m[n + 1] = x /\ \A i \in 1 .. n : m[i] = l[i]
  OBVIOUS
<1> HIDE DEF m, n
<1>2. O \subseteq 1 .. n
  BY <1>1 DEF Linear!Of
<1>3. Linear!Of(kind, m) = IF x.kind = kind THEN O \cup {n + 1} ELSE O
  BY <1>1 DEF Linear!Of
<1>4. IsFiniteSet(O) /\ n + 1 \notin O
  <2>1. IsFiniteSet(1 .. n)
    <3>1. 1 \in Int /\ n \in Int
      BY <1>1
    <3> QED
      BY <3>1, FS_Interval, Zenon
  <2> QED
    BY <1>1, <1>2, <2>1, FS_Subset
<1>5. Count(kind, l) = Cardinality(O) /\ Count(kind, m) = Cardinality(Linear!Of(kind, m))
  BY DEF Count
<1> HIDE DEF O
<1>6. Cardinality(O) \in Nat /\ Cardinality(O \cup {n + 1}) = Cardinality(O) + 1
  BY <1>4, FS_CardinalityType, FS_AddElement
<1>7. Count(kind, m) = IF x.kind = kind THEN Count(kind, l) + 1 ELSE Count(kind, l)
  BY <1>3, <1>5, <1>6
<1>8. ASSUME NEW i \in O PROVE Linear!Before(kind, m, i) = Linear!Before(kind, l, i)
  <2>1. i \in 1 .. n /\ ~(n + 1 < i)
    BY <1>1, <1>2
  <2>2. \A j : j \in Linear!Of(kind, m) /\ j < i <=> j \in O /\ j < i
    BY <1>3, <2>1
  <2> QED
    BY <2>2 DEF Linear!Before, O
<1>9. Linear!Before(kind, m, n + 1) = O
  <2>1. \A j \in O : j < n + 1
    BY <1>1, <1>2
  <2>2. ~(n + 1 < n + 1)
    BY <1>1
  <2>3. \A j : j \in Linear!Of(kind, m) /\ j < n + 1 <=> j \in O
    BY <1>3, <2>1, <2>2
  <2> QED
    BY <2>3 DEF Linear!Before
<1> QED
  BY <1>2, <1>3, <1>5, <1>6, <1>7, <1>8, <1>9 DEF m, n, O

(* A log stays in order with the next message or the next call.             *)
LEMMA LegalAppend ==
    ASSUME NEW l \in Seq(Items), NEW n \in Nat, Linear!Legal(l, n), NEW x \in Items,
           \/ x = Message(Count("message", l) + 1) /\ Count("message", l) + 1 <= n
           \/ x = Call(Count("call", l))
    PROVE  Linear!Legal(Append(l, x), n)
<1> DEFINE m == Append(l, x)
<1>1. Len(l) \in Nat /\ m[Len(l) + 1] = x /\ \A i \in 1 .. Len(l) : m[i] = l[i]
  OBVIOUS
<1> HIDE DEF m
<1>2. /\ \A kind : /\ Count(kind, l) \in Nat
                   /\ Linear!Of(kind, m) = IF x.kind = kind
                                            THEN Linear!Of(kind, l) \cup {Len(l) + 1}
                                            ELSE Linear!Of(kind, l)
                   /\ Count(kind, m) = IF x.kind = kind THEN Count(kind, l) + 1
                                                        ELSE Count(kind, l)
                   /\ \A i \in Linear!Of(kind, l) :
                         /\ i \in 1 .. Len(l)
                         /\ Linear!Before(kind, m, i) = Linear!Before(kind, l, i)
                   /\ Linear!Before(kind, m, Len(l) + 1) = Linear!Of(kind, l)
  BY OfAppend DEF m
<1>3. /\ \A i \in Linear!Of("message", l) :
            l[i].at = 1 + Cardinality(Linear!Before("message", l, i))
      /\ Count("message", l) <= n
      /\ \A i \in Linear!Of("call", l) :
            l[i].at = 0 + Cardinality(Linear!Before("call", l, i))
  BY LegalMeans DEF Count
<1>4. \/ x.kind = "message" /\ x.at = Count("message", l) + 1 /\ Count("message", l) + 1 <= n
      \/ x.kind = "call" /\ x.at = Count("call", l)
  BY DEF Message, Call, Linear!Message, Linear!Call
<1>5. ASSUME NEW i \in Linear!Of("message", m)
      PROVE  m[i].at = 1 + Cardinality(Linear!Before("message", m, i))
  <2>1. CASE i \in Linear!Of("message", l)
    BY <1>1, <1>2, <1>3, <2>1
  <2>2. CASE i \notin Linear!Of("message", l)
    <3>1. x.kind = "message" /\ i = Len(l) + 1
      BY <1>2, <2>2
    <3>2. m[i] = x /\ Linear!Before("message", m, i) = Linear!Of("message", l)
      BY <1>1, <1>2, <3>1
    <3>3. x.at = Count("message", l) + 1
      BY <1>4, <3>1
    <3> QED
      BY <1>2, <3>2, <3>3 DEF Count
  <2> QED
    BY <2>1, <2>2
<1>6. ASSUME NEW i \in Linear!Of("call", m)
      PROVE  m[i].at = 0 + Cardinality(Linear!Before("call", m, i))
  <2>1. CASE i \in Linear!Of("call", l)
    BY <1>1, <1>2, <1>3, <2>1
  <2>2. CASE i \notin Linear!Of("call", l)
    <3>1. x.kind = "call" /\ i = Len(l) + 1
      BY <1>2, <2>2
    <3>2. m[i] = x /\ Linear!Before("call", m, i) = Linear!Of("call", l)
      BY <1>1, <1>2, <3>1
    <3>3. x.at = Count("call", l)
      BY <1>4, <3>1
    <3>4. Count("call", l) \in Nat /\ Count("call", l) = Cardinality(Linear!Of("call", l))
      BY <1>2 DEF Count
    <3> QED
      BY <3>2, <3>3, <3>4
  <2> QED
    BY <2>1, <2>2
<1>7. Count("message", m) <= n
  BY <1>2, <1>3, <1>4
<1> QED
  BY <1>5, <1>6, <1>7, LegalMeans DEF Count, m

LEMMA LegalMore ==
    ASSUME NEW l \in Seq(Items), NEW n \in Nat, Linear!Legal(l, n)
    PROVE  Linear!Legal(l, n + 1)
<1>1. PICK x : x \in Items
  <2>1. Message(0) \in Items
    BY DEF Message, Linear!Message, Items
  <2> QED
    BY <2>1
<1>2. \A kind : Count(kind, l) \in Nat
  BY <1>1, OfAppend
<1>3. Cardinality(Linear!Of("message", l)) <= n + 1
  BY <1>2, LegalMeans DEF Count
<1> QED
  BY <1>3, LegalMeans

-----------------------------------------------------------------------------
(* What a proposer makes *)

(* The body of Bodies: the inherents and the calls.                         *)
CallsOf(nonces) == [i \in DOMAIN nonces |-> Call(nonces[i])]

LEMMA InherentsLegal ==
    ASSUME NEW l \in Seq(Items), arrived \in Nat, Linear!Legal(l, arrived)
    PROVE  /\ Inherents(l) \in Seq(Items)
           /\ l \o Inherents(l) \in Seq(Items)
           /\ Linear!Legal(l \o Inherents(l), arrived)
<1> DEFINE c == Count("message", l)
           k == arrived - c
           s == Inherents(l)
           Upto(n) == SubSeq(s, 1, n)
           Good == {n \in 0 .. k : /\ Linear!Legal(l \o Upto(n), arrived)
                                   /\ Count("message", l \o Upto(n)) = c + n}
<1>1. c \in Nat
  <2>1. Message(0) \in Items
    BY DEF Message, Linear!Message, Items
  <2> QED
    BY <2>1, OfAppend
<1>2. c <= arrived
  BY LegalMeans DEF Count
<1>3. k \in Nat /\ c + k = arrived
  BY <1>1, <1>2
<1>4. s = [i \in 1 .. k |-> Message(c + i)]
  BY DEF Inherents
<1> HIDE DEF c, k
<1>5. \A i \in 1 .. k : Message(c + i) \in Items
  BY <1>1, <1>3 DEF Message, Linear!Message, Items
<1>6. s \in Seq(Items) /\ Len(s) = k
  <2> HIDE DEF s
  <2> QED
    BY <1>3, <1>4, <1>5
<1> HIDE DEF s
<1>7. 0 \in Good
  <2>1. Upto(0) = <<>>
    BY SubSeqEmpty
  <2>2. l \o <<>> = l
    OBVIOUS
  <2>3. l \o Upto(0) = l
    BY <2>1, <2>2
  <2>4. c + 0 = c /\ 0 \in 0 .. k
    BY <1>1, <1>3
  <2> HIDE DEF Upto
  <2>5. Count("message", l \o Upto(0)) = c + 0
    BY <2>3, <2>4 DEF c
  <2> QED
    BY <2>3, <2>4, <2>5
<1>8. ASSUME NEW n \in 0 .. k - 1, n \in Good PROVE n + 1 \in Good
  <2> DEFINE m == l \o Upto(n)
             x == Message(c + (n + 1))
  <2>1. n + 1 \in 0 .. k /\ n + 1 \in 1 .. k /\ n \in 0 .. Len(s) /\ n \in 0 .. Len(s) - 1
    BY <1>3, <1>6
  <2>2. s[n + 1] = x /\ x \in Items
    BY <1>4, <1>5, <2>1
  <2>3. Upto(n) \in Seq(Items) /\ Upto(n + 1) = Append(Upto(n), x)
    <3>1. SubSeq(s, 1, n + 1) = Append(SubSeq(s, 1, n), s[n + 1])
      BY <1>6, <2>1, OneMore
    <3>2. SubSeq(s, 1, n) \in Seq(Items)
      BY <1>6, <2>1, Pieces
    <3> HIDE DEF x
    <3> QED
      BY <2>2, <3>1, <3>2
  <2> HIDE DEF Upto, x
  <2>4. m \in Seq(Items) /\ l \o Upto(n + 1) = Append(m, x)
    <3>1. \A u \in Seq(Items) : l \o Append(u, x) = Append(l \o u, x) /\ l \o u \in Seq(Items)
      BY <2>2
    <3> QED
      BY <2>3, <3>1
  <2>5. Linear!Legal(m, arrived) /\ Count("message", m) = c + n
    BY <1>8
  <2> HIDE DEF m
  <2>6. x = Message(Count("message", m) + 1) /\ Count("message", m) + 1 <= arrived
    <3>1. c + (n + 1) = (c + n) + 1 /\ (c + n) + 1 <= arrived
      BY <1>1, <1>3, <2>1
    <3> QED
      BY <2>5, <3>1 DEF x
  <2>7. Linear!Legal(Append(m, x), arrived)
    BY <2>2, <2>4, <2>5, <2>6, LegalAppend
  <2>8. Count("message", Append(m, x)) = c + (n + 1)
    <3>1. x.kind = "message"
      BY DEF x, Message, Linear!Message
    <3>2. Count("message", Append(m, x)) = Count("message", m) + 1
      BY <2>2, <2>4, <3>1, OfAppend
    <3> QED
      BY <1>1, <2>1, <2>5, <3>2
  <2> QED
    BY <2>1, <2>4, <2>7, <2>8
<1>9. k \in Good
  <2> HIDE DEF Good
  <2>1. \A n \in 0 .. k : n \in Good
    BY <1>3, <1>7, <1>8, InductionUpTo
  <2> QED
    BY <1>3, <2>1
<1>10. Upto(k) = s
  BY <1>6, SubSeqFull
<1>11. l \o s \in Seq(Items)
  BY <1>6
<1> QED
  BY <1>6, <1>9, <1>10, <1>11 DEF s

(* Whatever a proposer makes of the pool, the log it leads to is in order.  *)
LEMMA BodiesLegal ==
    ASSUME NEW l \in Seq(Items), arrived \in Nat, Linear!Legal(l, arrived),
           NEW x \in Bodies(l)
    PROVE  x \in Seq(Items) /\ Linear!Legal(l \o x, arrived)
<1> DEFINE start == Inherents(l)
           body(nonces) == start \o [i \in DOMAIN nonces |-> Call(nonces[i])]
<1>1. PICK s \in BoundedSeq(0 .. MaxCalls - 1, MaxCallsPerBlock) :
          /\ \A i \in DOMAIN s : Applies(l \o body(SubSeq(s, 1, i - 1)), s[i])
          /\ x = body(s)
  BY DEF Bodies
<1>2. s \in Seq(Nat)
  <2>1. PICK m \in 0 .. MaxCallsPerBlock : s \in [1 .. m -> 0 .. MaxCalls - 1]
    BY DEF BoundedSeq, SeqOf
  <2>2. m \in Nat /\ MaxCalls \in Nat
    BY CollationAssumption
  <2>3. s \in Seq(0 .. MaxCalls - 1)
    BY <2>1, <2>2
  <2> QED
    BY <2>2, <2>3
<1>3. /\ start \in Seq(Items) /\ l \o start \in Seq(Items)
      /\ Linear!Legal(l \o start, arrived)
  BY InherentsLegal
<1> HIDE DEF start
<1>4. ASSUME NEW u \in Seq(Nat)
      PROVE  CallsOf(u) \in Seq(Items) /\ Len(CallsOf(u)) = Len(u) /\ body(u) = start \o CallsOf(u)
  <2>1. \A i \in DOMAIN u : Call(u[i]) \in Items
    BY DEF Call, Linear!Call, Items
  <2>2. DOMAIN u = 1 .. Len(u) /\ Len(u) \in Nat
    OBVIOUS
  <2>3. CallsOf(u) \in Seq(Items) /\ Len(CallsOf(u)) = Len(u)
    BY <2>1, <2>2 DEF CallsOf
  <2> QED
    BY <2>3 DEF CallsOf
<1>5. ASSUME NEW u \in Seq(Nat), NEW n \in Nat
      PROVE  CallsOf(Append(u, n)) = Append(CallsOf(u), Call(n))
  <2> DEFINE v == CallsOf(Append(u, n))
             c == Call(n)
             d == CallsOf(u)
             w == Append(d, c)
  <2>1. c \in Items /\ d \in Seq(Items) /\ Len(d) = Len(u)
    BY <1>4 DEF Call, Linear!Call, Items
  <2>2. Append(u, n) \in Seq(Nat) /\ Len(Append(u, n)) = Len(u) + 1 /\ Len(u) \in Nat
    OBVIOUS
  <2>3. v \in Seq(Items) /\ Len(v) = Len(u) + 1
    BY <1>4, <2>2
  <2> HIDE DEF c, d
  <2>4. /\ w \in Seq(Items) /\ Len(w) = Len(u) + 1 /\ w[Len(u) + 1] = c
        /\ \A i \in 1 .. Len(u) : w[i] = d[i]
    BY <2>1, <2>2
  <2>5. ASSUME NEW i \in 1 .. Len(u) + 1 PROVE v[i] = w[i]
    <3>1. v[i] = Call(Append(u, n)[i])
      BY <2>2 DEF CallsOf
    <3>2. CASE i = Len(u) + 1
      <4>1. w[i] = Call(n)
        BY <2>4, <3>2 DEF c
      <4>2. Append(u, n)[i] = n
        BY <3>2
      <4> QED
        BY <3>1, <4>1, <4>2
    <3>3. CASE i # Len(u) + 1
      <4>1. i \in 1 .. Len(u) /\ Append(u, n)[i] = u[i]
        BY <2>2, <3>3
      <4>2. w[i] = CallsOf(u)[i]
        BY <2>4, <4>1 DEF d
      <4>3. CallsOf(u)[i] = Call(u[i])
        BY <4>1 DEF CallsOf
      <4> QED
        BY <3>1, <4>1, <4>2, <4>3
    <3> QED
      BY <3>2, <3>3
  <2> HIDE DEF v, w
  <2>6. v = w
    BY <2>3, <2>4, <2>5, SeqEqual
  <2> QED
    BY <2>6 DEF v, w, c, d
<1> DEFINE k == Len(s)
           Upto(n) == l \o (start \o CallsOf(SubSeq(s, 1, n)))
           Good == {n \in 0 .. k : Linear!Legal(Upto(n), arrived)}
<1>6. k \in Nat
  BY <1>2
<1>7. 0 \in Good
  <2>1. SubSeq(s, 1, 0) = <<>>
    BY SubSeqEmpty
  <2>2. CallsOf(<<>>) = <<>>
    BY DEF CallsOf
  <2>3. start \o <<>> = start
    BY <1>3
  <2>4. Upto(0) = l \o start
    BY <2>1, <2>2, <2>3
  <2>5. 0 \in 0 .. k
    BY <1>6
  <2> HIDE DEF Upto, k
  <2>6. Linear!Legal(Upto(0), arrived)
    BY <1>3, <2>4
  <2> QED
    BY <2>5, <2>6
<1>8. ASSUME NEW n \in 0 .. k - 1, n \in Good PROVE n + 1 \in Good
  <2> DEFINE u == SubSeq(s, 1, n)
             c == Call(s[n + 1])
  <2>1. /\ n \in 0 .. Len(s) /\ n \in 0 .. Len(s) - 1 /\ n + 1 \in 0 .. k
        /\ n + 1 \in DOMAIN s /\ (n + 1) - 1 = n
    BY <1>2, <1>6
  <2>2. u \in Seq(Nat) /\ s[n + 1] \in Nat /\ SubSeq(s, 1, n + 1) = Append(u, s[n + 1])
    BY <1>2, <2>1, OneMore, Pieces
  <2>3. Applies(l \o body(u), s[n + 1])
    BY <1>1, <2>1
  <2>4. c \in Items
    BY <2>2 DEF Call, Linear!Call, Items
  <2> HIDE DEF u, c
  <2>5. CallsOf(u) \in Seq(Items) /\ body(u) = start \o CallsOf(u)
    BY <1>4, <2>2
  <2>6. CallsOf(SubSeq(s, 1, n + 1)) = Append(CallsOf(u), c)
    BY <1>5, <2>2 DEF c
  <2> DEFINE m == l \o (start \o CallsOf(u))
  <2>7. m \in Seq(Items) /\ Upto(n + 1) = Append(m, c)
    <3>1. \A a, b \in Seq(Items) :
             a \o b \in Seq(Items) /\ a \o Append(b, c) = Append(a \o b, c)
      BY <2>4
    <3>2. /\ start \o CallsOf(u) \in Seq(Items)
          /\ start \o Append(CallsOf(u), c) = Append(start \o CallsOf(u), c)
      BY <1>3, <2>5, <3>1
    <3>3. /\ m \in Seq(Items)
          /\ l \o Append(start \o CallsOf(u), c) = Append(m, c)
      BY <3>1, <3>2
    <3> HIDE DEF m
    <3> QED
      BY <2>6, <3>2, <3>3
  <2>8. Linear!Legal(m, arrived)
    BY <1>8 DEF u
  <2>9. c = Call(Count("call", m))
    BY <2>3, <2>5 DEF Applies, c
  <2> HIDE DEF m, Upto
  <2>10. Linear!Legal(Append(m, c), arrived)
    BY <2>4, <2>7, <2>8, <2>9, LegalAppend
  <2> QED
    BY <2>1, <2>7, <2>10
<1>9. k \in Good
  <2> HIDE DEF Good, k
  <2>1. \A n \in 0 .. k : n \in Good
    BY <1>6, <1>7, <1>8, InductionUpTo
  <2> QED
    BY <1>6, <2>1
<1>10. SubSeq(s, 1, k) = s
  BY <1>2, SubSeqFull
<1>11. CallsOf(s) \in Seq(Items) /\ x = start \o CallsOf(s)
  BY <1>1, <1>2, <1>4
<1>12. x \in Seq(Items)
  BY <1>3, <1>11
<1> QED
  BY <1>9, <1>10, <1>11, <1>12

-----------------------------------------------------------------------------
(* The inductive invariant of the chain *)

(* What the database, the relay chain's view and the finalized log are.     *)
Bodied == Seq(Seq(Items))
Tree   == blocks \cup {<<>>}

TreeTyped ==
    /\ log \in Seq(Items) /\ arrived \in 0 .. MaxMessages /\ reorgs \in 0 .. MaxReorgs
    /\ blocks \subseteq Bodied /\ <<>> \notin blocks
    /\ offered \subseteq blocks
    /\ holding \in Tree /\ head \in Tree /\ pending \in Tree

(* The database has the ancestors of its blocks, and the pending block is a *)
(* child of the included one.                                               *)
TreeShape ==
    /\ \A b \in blocks : \A n \in 0 .. Len(b) : SubSeq(b, 1, n) \in Tree
    /\ pending # NoBlock => Len(pending) = Len(head) + 1 /\ SubSeq(pending, 1, Len(head)) = head

(* How far the unincluded segment and the lag of finality let it grow.      *)
TreeBounded ==
    /\ Len(head) <= FinalityLag
    /\ \A b \in blocks : Len(b) <= FinalityLag + SegmentCapacity

(* Every block, included or not, leads to a log that may be final one day.  *)
TreeLegal == \A b \in Tree : Linear!Legal(LogOf(b), arrived)

TreeInv == TreeTyped /\ TreeShape /\ TreeBounded /\ TreeLegal

LEMMA InTree ==
    ASSUME TreeTyped, NEW b \in Tree
    PROVE  b \in Bodied /\ Len(b) \in Nat /\ FlattenSeq(b) \in Seq(Items) /\ LogOf(b) \in Seq(Items)
<1>1. b \in Bodied
  <2>1. <<>> \in Bodied
    BY DEF Bodied
  <2>2. blocks \subseteq Bodied
    BY DEF TreeTyped
  <2> QED
    BY <2>1, <2>2 DEF Tree
<1>2. FlattenSeq(b) \in Seq(Items)
  BY <1>1, FlattenType DEF Bodied
<1>3. LogOf(b) \in Seq(Items)
  BY <1>2 DEF LogOf, TreeTyped
<1> QED
  BY <1>1, <1>2, <1>3 DEF Bodied

LEMMA TreeInit ==
    ASSUME Init
    PROVE  TreeInv
<1>1. /\ log = <<>> /\ arrived = 0 /\ blocks = {} /\ offered = {}
      /\ holding = <<>> /\ head = <<>> /\ pending = <<>> /\ reorgs = 0
  BY DEF Init, NoBlock
<1>2. 0 \in 0 .. MaxMessages /\ 0 \in 0 .. MaxReorgs /\ FinalityLag \in Nat
  BY CollationAssumption
<1>3. TreeTyped
  BY <1>1, <1>2 DEF TreeTyped, Tree
<1>4. TreeShape /\ TreeBounded
  BY <1>1, <1>2 DEF TreeShape, TreeBounded, NoBlock
<1>5. Linear!Legal(<<>>, 0)
  <2>1. \A kind : Linear!Of(kind, <<>>) = {}
    BY DEF Linear!Of
  <2>2. Cardinality({}) <= 0
    BY FS_EmptySet
  <2> QED
    BY <2>1, <2>2, LegalMeans
<1>6. TreeLegal
  <2>1. LogOf(<<>>) = <<>>
    BY <1>1, FlattenEmpty DEF LogOf
  <2>2. Tree = {<<>>}
    BY <1>1 DEF Tree
  <2> QED
    BY <1>1, <1>5, <2>1, <2>2 DEF TreeLegal
<1> QED
  BY <1>3, <1>4, <1>6 DEF TreeInv

(* The steps that leave the database and the finalized log alone.           *)
LEMMA TreeStands ==
    ASSUME TreeInv, UNCHANGED <<log, blocks>>,
           arrived' \in 0 .. MaxMessages, arrived' = arrived \/ arrived' = arrived + 1,
           reorgs' \in 0 .. MaxReorgs, offered' \subseteq blocks,
           holding' \in Tree, head' \in Tree, pending' \in Tree, Len(head') <= FinalityLag,
           pending' # NoBlock =>
              Len(pending') = Len(head') + 1 /\ SubSeq(pending', 1, Len(head')) = head'
    PROVE  TreeInv'
<1>1. Tree' = Tree
  BY DEF Tree
<1>2. TreeTyped'
  BY <1>1 DEF TreeInv, TreeTyped
<1>3. TreeShape'
  BY <1>1 DEF TreeInv, TreeShape, NoBlock
<1>4. TreeBounded'
  BY DEF TreeInv, TreeBounded
<1>5. TreeLegal'
  <2> SUFFICES ASSUME NEW b \in Tree PROVE Linear!Legal(LogOf(b), arrived')
    BY <1>1 DEF TreeLegal, LogOf
  <2>1. LogOf(b) \in Seq(Items) /\ Linear!Legal(LogOf(b), arrived) /\ arrived \in Nat
    BY InTree DEF TreeInv, TreeLegal, TreeTyped
  <2> QED
    BY <2>1, LegalMore
<1> QED
  BY <1>2, <1>3, <1>4, <1>5 DEF TreeInv

(* A new block is no deeper than the included one and the segment after it, *)
(* and the log it leads to is in order, for that of its parent is.          *)
LEMMA AuthorKeepsTree ==
    ASSUME TreeInv, Author
    PROVE  TreeInv'
<1>1. PICK parent \in Parents :
          CanBuildUpon(parent) /\ \E body \in Bodies(LogOf(parent)) : holding' = Append(parent, body)
  BY DEF Author
<1>2. PICK body \in Bodies(LogOf(parent)) : holding' = Append(parent, body)
  BY <1>1
<1>3. parent \in Tree
  BY DEF Parents, Tree, TreeInv, TreeTyped
<1>4. /\ parent \in Seq(Seq(Items)) /\ Len(parent) \in Nat /\ FlattenSeq(parent) \in Seq(Items)
      /\ LogOf(parent) \in Seq(Items)
  BY <1>3, InTree DEF TreeInv, Bodied
<1>5. arrived \in Nat /\ Linear!Legal(LogOf(parent), arrived) /\ log \in Seq(Items)
  BY <1>3 DEF TreeInv, TreeTyped, TreeLegal
<1>6. body \in Seq(Items) /\ Linear!Legal(LogOf(parent) \o body, arrived)
  BY <1>4, <1>5, BodiesLegal
<1> DEFINE new == Append(parent, body)
<1>7. new \in Bodied /\ new # <<>> /\ Len(new) = Len(parent) + 1
  <2> DEFINE Pages == Seq(Items)
  <2> HIDE DEF Pages
  <2>1. parent \in Seq(Pages) /\ body \in Pages
    BY <1>4, <1>6 DEF Pages
  <2>2. new \in Seq(Pages) /\ Len(new) = Len(parent) + 1
    BY <2>1
  <2>3. new # <<>>
    BY <1>4, <2>2
  <2> QED
    BY <2>2, <2>3 DEF Bodied, Pages
<1>8. LogOf(new) = LogOf(parent) \o body
  <2>1. FlattenSeq(new) = FlattenSeq(parent) \o body
    BY <1>4, <1>6, FlattenAppend
  <2>2. \A a, b, c \in Seq(Items) : a \o (b \o c) = (a \o b) \o c
    OBVIOUS
  <2>3. log \o (FlattenSeq(parent) \o body) = (log \o FlattenSeq(parent)) \o body
    BY <1>4, <1>5, <1>6, <2>2
  <2> HIDE DEF new
  <2> QED
    BY <2>1, <2>3 DEF LogOf
<1>9. \A n \in 0 .. Len(new) : SubSeq(new, 1, n) \in Tree \cup {new}
  <2> SUFFICES ASSUME NEW n \in 0 .. Len(new) PROVE SubSeq(new, 1, n) \in Tree \cup {new}
    OBVIOUS
  <2>1. CASE n = Len(new)
    BY <1>7, <2>1, SubSeqFull DEF Bodied
  <2>2. CASE n # Len(new)
    <3> DEFINE u == SubSeq(new, 1, n)
               v == SubSeq(parent, 1, n)
    <3>1. n \in 0 .. Len(parent) /\ \A i \in 1 .. Len(parent) : new[i] = parent[i]
      BY <1>4, <1>6, <1>7, <2>2
    <3>2. v \in Seq(Seq(Items)) /\ Len(v) = n /\ \A i \in 1 .. n : v[i] = parent[i]
      BY <1>4, <3>1, Pieces
    <3> HIDE DEF new, v
    <3>3. u \in Seq(Seq(Items)) /\ Len(u) = n /\ \A i \in 1 .. n : u[i] = new[i]
      BY <1>7, Pieces DEF Bodied
    <3> HIDE DEF u
    <3>4. \A i \in 1 .. n : u[i] = v[i]
      BY <3>1, <3>2, <3>3, SMTT(20)
    <3>5. u = v
      BY <3>2, <3>3, <3>4, SeqEqual
    <3>6. v \in Tree
      <4>1. CASE parent \in blocks
        BY <3>1, <4>1 DEF TreeInv, TreeShape, v
      <4>2. CASE parent \notin blocks
        <5>1. Len(parent) = 0
          BY <1>3, <4>2 DEF Tree
        <5>2. Len(v) = 0
          BY <3>1, <3>2, <5>1
        <5> QED
          BY <3>2, <5>2 DEF Tree
      <4> QED
        BY <4>1, <4>2
    <3> QED
      BY <3>5, <3>6 DEF u
  <2> QED
    BY <2>1, <2>2
<1>10. Len(new) <= FinalityLag + SegmentCapacity
  <2>1. Len(parent) - Len(head) < SegmentCapacity /\ Len(head) <= FinalityLag
    BY <1>1 DEF CanBuildUpon, TreeInv, TreeBounded
  <2>2. Len(head) \in Nat /\ SegmentCapacity \in Nat /\ FinalityLag \in Nat
    BY InTree, CollationAssumption DEF TreeInv, TreeTyped
  <2> HIDE DEF new
  <2> QED
    BY <1>4, <1>7, <2>1, <2>2
<1>11. blocks' = blocks \cup {new} /\ holding' = new
  BY <1>2 DEF Author
<1>12. UNCHANGED <<log, arrived, offered, head, pending, reorgs>>
  BY DEF Author
<1> HIDE DEF new
<1>13. Tree' = Tree \cup {new}
  BY <1>11 DEF Tree
<1>14. TreeTyped'
  BY <1>7, <1>11, <1>12, <1>13 DEF TreeInv, TreeTyped
<1>15. TreeShape'
  BY <1>9, <1>11, <1>12, <1>13 DEF TreeInv, TreeShape, NoBlock
<1>16. TreeBounded'
  BY <1>10, <1>11, <1>12 DEF TreeInv, TreeBounded
<1>17. TreeLegal'
  <2> SUFFICES ASSUME NEW b \in Tree \cup {new} PROVE Linear!Legal(LogOf(b), arrived)
    BY <1>12, <1>13 DEF TreeLegal, LogOf
  <2> QED
    BY <1>6, <1>8 DEF TreeInv, TreeLegal
<1> QED
  BY <1>14, <1>15, <1>16, <1>17 DEF TreeInv

(* What follows the first k blocks of a chain of blocks.                    *)
LEMMA RestOfBlock ==
    ASSUME NEW b \in Bodied, NEW k \in 0 .. Len(b)
    PROVE  LET r == SubSeq(b, k + 1, Len(b))
           IN  /\ r \in Bodied /\ Len(r) = Len(b) - k
               /\ \A n \in 0 .. Len(r) :
                     /\ k + n \in 0 .. Len(b)
                     /\ SubSeq(b, 1, k + n) \in Bodied /\ Len(SubSeq(b, 1, k + n)) = k + n
                     /\ SubSeq(SubSeq(b, 1, k + n), 1, k) = SubSeq(b, 1, k)
                     /\ SubSeq(r, 1, n) = SubSeq(SubSeq(b, 1, k + n), k + 1, k + n)
<1> DEFINE Pages == Seq(Items)
           r == SubSeq(b, k + 1, Len(b))
<1> HIDE DEF Pages
<1>1. b \in Seq(Pages) /\ Len(b) \in Nat /\ k \in Nat
  BY DEF Bodied, Pages
<1>2. r \in Seq(Pages) /\ Len(r) = Len(b) - k
  BY <1>1, Pieces
<1> HIDE DEF r
<1>3. ASSUME NEW n \in 0 .. Len(r)
      PROVE  /\ k + n \in 0 .. Len(b)
             /\ SubSeq(b, 1, k + n) \in Seq(Pages) /\ Len(SubSeq(b, 1, k + n)) = k + n
             /\ SubSeq(SubSeq(b, 1, k + n), 1, k) = SubSeq(b, 1, k)
             /\ SubSeq(r, 1, n) = SubSeq(SubSeq(b, 1, k + n), k + 1, k + n)
  <2>1. n \in 0 .. Len(b) - k
    BY <1>2
  <2>2. /\ k + n \in 0 .. Len(b)
        /\ SubSeq(r, 1, n) = SubSeq(SubSeq(b, 1, k + n), k + 1, k + n)
    BY <1>1, <2>1, PrefixOfRest DEF r
  <2>3. SubSeq(b, 1, k + n) \in Seq(Pages) /\ Len(SubSeq(b, 1, k + n)) = k + n
    BY <1>1, <2>2, Pieces
  <2>4. k \in 0 .. k + n
    BY <1>1, <2>1
  <2>5. SubSeq(SubSeq(b, 1, k + n), 1, k) = SubSeq(b, 1, k)
    BY <1>1, <2>2, <2>4, PrefixOfPrefix
  <2> QED
    BY <2>2, <2>3, <2>5
<1>4. \A n \in 0 .. Len(r) :
          /\ k + n \in 0 .. Len(b)
          /\ SubSeq(b, 1, k + n) \in Bodied /\ Len(SubSeq(b, 1, k + n)) = k + n
          /\ SubSeq(SubSeq(b, 1, k + n), 1, k) = SubSeq(b, 1, k)
          /\ SubSeq(r, 1, n) = SubSeq(SubSeq(b, 1, k + n), k + 1, k + n)
  BY <1>3 DEF Bodied, Pages
<1> QED
  BY <1>2, <1>4 DEF Bodied, Pages, r

(* A block above another one: what it adds is not empty, and the log that   *)
(* it leads to is that of the other with what it adds.                      *)
LEMMA Above ==
    ASSUME TreeTyped, NEW b \in Tree, IsPrefix(head, b)
    PROVE  /\ Len(head) \in 0 .. Len(b) /\ SubSeq(b, 1, Len(head)) = head
           /\ LogOf(head) \o FlattenSeq(SubSeq(b, Len(head) + 1, Len(b))) = LogOf(b)
           /\ b # head => SubSeq(b, Len(head) + 1, Len(b)) # <<>>
           /\ b = head => SubSeq(b, Len(head) + 1, Len(b)) = <<>>
<1> DEFINE k == Len(head)
           r == SubSeq(b, k + 1, Len(b))
<1>1. head \in Tree /\ log \in Seq(Items)
  BY DEF TreeTyped
<1>2. b \in Bodied /\ head \in Bodied /\ Len(b) \in Nat /\ k \in Nat
  BY <1>1, InTree
<1>3. k <= Len(b) /\ SubSeq(b, 1, k) = head
  BY <1>2, PrefixMeans DEF Bodied
<1>4. k \in 0 .. Len(b)
  BY <1>2, <1>3
<1> HIDE DEF k
<1>5. r \in Bodied /\ Len(r) = Len(b) - k
  BY <1>2, <1>4, RestOfBlock
<1> HIDE DEF r
<1>6. FlattenSeq(b) = FlattenSeq(head) \o FlattenSeq(r)
  BY <1>2, <1>3, <1>4, FlattenSplit DEF Bodied, r
<1>7. FlattenSeq(head) \in Seq(Items) /\ FlattenSeq(r) \in Seq(Items)
  BY <1>2, <1>5, FlattenType DEF Bodied
<1>8. (log \o FlattenSeq(head)) \o FlattenSeq(r) = log \o (FlattenSeq(head) \o FlattenSeq(r))
  BY <1>1, <1>7, ConcatAssociative
<1>9. LogOf(head) \o FlattenSeq(r) = LogOf(b)
  BY <1>6, <1>8 DEF LogOf
<1>10. ASSUME r = <<>> PROVE b = head
  <2>1. Len(b) = k
    BY <1>2, <1>5, <1>10
  <2> QED
    BY <1>2, <1>3, <2>1, SubSeqFull DEF Bodied
<1>11. ASSUME b = head PROVE r = <<>>
  <2>1. Len(r) = 0
    BY <1>2, <1>5, <1>11 DEF k
  <2> QED
    BY <1>5, <2>1 DEF Bodied
<1> QED
  BY <1>3, <1>4, <1>9, <1>10, <1>11 DEF k, r

(* Finality only cuts the tree: what remains led to the same logs before.   *)
LEMMA FinalizeKeepsTree ==
    ASSUME TreeInv, Finalize
    PROVE  TreeInv'
<1> DEFINE k == Len(head)
           rest(b) == SubSeq(b, k + 1, Len(b))
           over(S) == {c \in S : IsStrictPrefix(head, c)}
           above(S) == {rest(b) : b \in over(S)}
<1>1. /\ log' = LogOf(head) /\ head' = <<>> /\ blocks' = above(blocks)
      /\ offered' = above(offered) /\ pending' = rest(pending)
      /\ holding' = IF holding # NoBlock /\ IsPrefix(head, holding) THEN rest(holding) ELSE NoBlock
      /\ UNCHANGED <<arrived, reorgs>>
  BY DEF Finalize
<1>2. TreeTyped /\ TreeShape /\ TreeBounded /\ TreeLegal
  BY DEF TreeInv
<1>3. /\ head \in Tree /\ pending \in Tree /\ holding \in Tree /\ offered \subseteq blocks
      /\ blocks \subseteq Tree /\ <<>> \notin blocks
  BY <1>2 DEF TreeTyped, Tree
<1>4. k \in Nat /\ LogOf(head) \in Seq(Items)
  BY <1>2, <1>3, InTree
<1>5. ASSUME NEW b \in over(blocks)
      PROVE  /\ b \in Bodied /\ k \in 0 .. Len(b) /\ SubSeq(b, 1, k) = head
             /\ rest(b) \in Bodied /\ rest(b) # <<>> /\ Len(rest(b)) = Len(b) - k
             /\ LogOf(head) \o FlattenSeq(rest(b)) = LogOf(b)
  <2>1. b \in Tree /\ b \in blocks /\ IsPrefix(head, b) /\ b # head
    BY <1>3 DEF IsStrictPrefix
  <2>2. /\ k \in 0 .. Len(b) /\ SubSeq(b, 1, k) = head /\ rest(b) # <<>>
        /\ LogOf(head) \o FlattenSeq(rest(b)) = LogOf(b)
    BY <1>2, <2>1, Above
  <2>3. b \in Bodied
    BY <1>2, <2>1, InTree
  <2> QED
    BY <2>2, <2>3, RestOfBlock
<1>6. ASSUME NEW b \in Tree, IsPrefix(head, b)
      PROVE  rest(b) \in Tree'
  <2>1. CASE b = head
    <3>1. rest(b) = <<>>
      BY <1>2, <1>6, <2>1, Above
    <3> QED
      BY <3>1 DEF Tree
  <2>2. CASE b # head
    <3>1. rest(b) # <<>> /\ Len(head) \in 0 .. Len(b)
      BY <1>2, <1>6, <2>2, Above
    <3>2. b # <<>>
      BY <1>2, <1>4, <3>1, <2>2, <1>3, InTree DEF Bodied
    <3>3. b \in over(blocks)
      BY <1>6, <2>2, <3>2 DEF IsStrictPrefix, Tree
    <3> HIDE DEF rest, over
    <3> QED
      BY <1>1, <3>3 DEF Tree
  <2> QED
    BY <2>1, <2>2
<1>7. pending' \in Tree' /\ (pending' # <<>> => Len(pending') = 1)
  <2>1. CASE pending = <<>>
    <3>1. rest(pending) = <<>>
      <4>1. Len(pending) = 0
        BY <2>1
      <4> QED
        BY <1>4, <4>1, SubSeqEmpty
    <3> QED
      BY <1>1, <3>1 DEF Tree
  <2>2. CASE pending # <<>>
    <3>1. Len(pending) = k + 1 /\ SubSeq(pending, 1, k) = head
      BY <1>2, <2>2 DEF TreeShape, NoBlock
    <3>2. pending \in Seq(Seq(Items)) /\ head \in Seq(Seq(Items))
      BY <1>2, <1>3, InTree DEF Bodied
    <3>3. IsPrefix(head, pending)
      <4>1. Len(head) <= Len(pending) /\ SubSeq(pending, 1, Len(head)) = head
        BY <1>4, <3>1
      <4> QED
        BY <3>2, <4>1, PrefixMeans
    <3>4. rest(pending) \in Tree'
      BY <1>3, <1>6, <3>3
    <3>5. Len(rest(pending)) = 1
      <4>1. pending \in Bodied /\ k \in 0 .. Len(pending)
        BY <1>4, <3>1, <3>2 DEF Bodied
      <4>2. Len(rest(pending)) = Len(pending) - k
        BY <4>1, RestOfBlock
      <4> HIDE DEF rest, k
      <4> QED
        BY <1>4, <3>1, <4>2
    <3> HIDE DEF rest
    <3> QED
      BY <1>1, <3>4, <3>5
  <2> QED
    BY <2>1, <2>2
<1>8. holding' \in Tree'
  <2>1. CASE holding # NoBlock /\ IsPrefix(head, holding)
    <3>1. rest(holding) \in Tree'
      BY <1>3, <1>6, <2>1
    <3> HIDE DEF rest
    <3> QED
      BY <1>1, <2>1, <3>1
  <2>2. CASE ~(holding # NoBlock /\ IsPrefix(head, holding))
    BY <1>1, <2>2 DEF Tree, NoBlock
  <2> QED
    BY <2>1, <2>2
<1>9. TreeTyped'
  <2>1. blocks' \subseteq Bodied /\ <<>> \notin blocks' /\ offered' \subseteq blocks'
    <3> HIDE DEF rest
    <3> QED
      BY <1>1, <1>3, <1>5
  <2>2. head' \in Tree'
    BY <1>1 DEF Tree
  <2>3. log' \in Seq(Items)
    BY <1>1, <1>4
  <2>4. arrived' \in 0 .. MaxMessages /\ reorgs' \in 0 .. MaxReorgs
    BY <1>1, <1>2 DEF TreeTyped
  <2> QED
    BY <1>7, <1>8, <2>1, <2>2, <2>3, <2>4 DEF TreeTyped
<1>10. TreeShape'
  <2>1. ASSUME NEW b \in over(blocks), NEW n \in 0 .. Len(rest(b))
        PROVE  SubSeq(rest(b), 1, n) \in Tree'
    <3> DEFINE p == SubSeq(b, 1, k + n)
    <3>1. /\ k + n \in 0 .. Len(b) /\ p \in Bodied /\ Len(p) = k + n
          /\ SubSeq(p, 1, k) = SubSeq(b, 1, k)
          /\ SubSeq(rest(b), 1, n) = SubSeq(p, k + 1, k + n)
      BY <1>5, RestOfBlock
    <3>2. SubSeq(p, 1, k) = head /\ head \in Bodied
      BY <1>2, <1>3, <1>5, <3>1, InTree
    <3>3. p \in Tree
      BY <1>2, <3>1 DEF TreeShape
    <3>4. SubSeq(rest(b), 1, n) = rest(p)
      BY <3>1
    <3>5. n \in Nat
      BY <1>4, <1>5
    <3> HIDE DEF p
    <3>6. Len(head) <= Len(p)
      BY <1>4, <3>1, <3>5
    <3>7. IsPrefix(head, p)
      BY <3>1, <3>2, <3>6, PrefixMeans DEF Bodied
    <3>8. rest(p) \in Tree'
      BY <1>6, <3>3, <3>7
    <3> HIDE DEF rest
    <3> QED
      BY <3>4, <3>8
  <2>2. \A c \in blocks' : \A n \in 0 .. Len(c) : SubSeq(c, 1, n) \in Tree'
    <3> HIDE DEF rest, over
    <3> QED
      BY <1>1, <2>1
  <2>3. pending' # NoBlock =>
           Len(pending') = Len(head') + 1 /\ SubSeq(pending', 1, Len(head')) = head'
    <3>1. head' = <<>> /\ Len(head') = 0 /\ SubSeq(pending', 1, 0) = <<>>
      BY <1>1, SubSeqEmpty
    <3> QED
      BY <1>7, <3>1 DEF NoBlock
  <2> QED
    BY <2>2, <2>3 DEF TreeShape, NoBlock
<1>11. TreeBounded'
  <2>1. Len(head') = 0 /\ FinalityLag \in Nat /\ SegmentCapacity \in Nat
    BY <1>1, CollationAssumption
  <2>2. ASSUME NEW b \in over(blocks) PROVE Len(rest(b)) <= FinalityLag + SegmentCapacity
    <3>1. Len(b) <= FinalityLag + SegmentCapacity
      BY <1>2 DEF TreeBounded
    <3>2. Len(rest(b)) = Len(b) - k /\ Len(b) \in Nat
      BY <1>5 DEF Bodied
    <3> HIDE DEF rest, k
    <3> QED
      BY <1>4, <2>1, <3>1, <3>2
  <2>3. \A c \in blocks' : Len(c) <= FinalityLag + SegmentCapacity
    <3> HIDE DEF rest, over
    <3> QED
      BY <1>1, <2>2
  <2> QED
    BY <2>1, <2>3 DEF TreeBounded
<1>12. TreeLegal'
  <2>1. ASSUME NEW b \in over(blocks)
        PROVE  Linear!Legal(log' \o FlattenSeq(rest(b)), arrived)
    <3>1. log' \o FlattenSeq(rest(b)) = LogOf(b) /\ b \in Tree
      BY <1>1, <1>3, <1>5
    <3> HIDE DEF rest
    <3> QED
      BY <1>2, <3>1 DEF TreeLegal
  <2>2. Linear!Legal(log' \o FlattenSeq(<<>>), arrived)
    <3>1. log' \o FlattenSeq(<<>>) = LogOf(head)
      BY <1>1, <1>4, FlattenEmpty
    <3> QED
      BY <1>2, <1>3, <3>1 DEF TreeLegal
  <2>3. \A c \in Tree' : Linear!Legal(log' \o FlattenSeq(c), arrived)
    <3> HIDE DEF rest, over
    <3> QED
      BY <1>1, <2>1, <2>2 DEF Tree
  <2> QED
    BY <1>1, <2>3 DEF TreeLegal, LogOf
<1> QED
  BY <1>9, <1>10, <1>11, <1>12 DEF TreeInv

(* What expires goes with all that is built on it.                          *)
LEMMA ExpireKeepsTree ==
    ASSUME TreeInv, NEW b \in blocks, Expire(b)
    PROVE  TreeInv'
<1> DEFINE keep(S) == {c \in S : ~IsPrefix(b, c)}
<1>1. /\ ~IsPrefix(b, head) /\ ~IsPrefix(b, pending)
      /\ blocks' = keep(blocks) /\ offered' = keep(offered)
      /\ holding' = IF IsPrefix(b, holding) THEN NoBlock ELSE holding
      /\ UNCHANGED <<log, arrived, head, pending, reorgs>>
  BY DEF Expire, Expirable
<1>2. TreeTyped /\ TreeShape /\ TreeBounded /\ TreeLegal
  BY DEF TreeInv
<1>3. ASSUME NEW c \in Tree, ~IsPrefix(b, c) PROVE c \in Tree'
  BY <1>1, <1>3 DEF Tree
<1>4. Tree' \subseteq Tree /\ blocks' \subseteq blocks
  BY <1>1 DEF Tree
<1>5. TreeTyped'
  <2>1. head' \in Tree' /\ pending' \in Tree'
    BY <1>1, <1>2, <1>3 DEF TreeTyped
  <2>2. holding' \in Tree'
    <3>1. CASE IsPrefix(b, holding)
      BY <1>1, <3>1 DEF Tree, NoBlock
    <3>2. CASE ~IsPrefix(b, holding)
      BY <1>1, <1>2, <1>3, <3>2 DEF TreeTyped
    <3> QED
      BY <3>1, <3>2
  <2>3. blocks' \subseteq Bodied /\ <<>> \notin blocks' /\ offered' \subseteq blocks'
    BY <1>1, <1>2 DEF TreeTyped
  <2> QED
    BY <1>1, <1>2, <2>1, <2>2, <2>3 DEF TreeTyped
<1>6. TreeShape'
  <2>1. ASSUME NEW c \in blocks', NEW n \in 0 .. Len(c)
        PROVE  SubSeq(c, 1, n) \in Tree'
    <3> DEFINE p == SubSeq(c, 1, n)
    <3>1. c \in blocks /\ ~IsPrefix(b, c)
      BY <1>1
    <3>2. c \in Seq(Seq(Items)) /\ b \in Seq(Seq(Items))
      BY <1>2, <3>1 DEF TreeTyped, Bodied
    <3>3. p \in Tree
      BY <1>2, <3>1 DEF TreeShape
    <3>4. p \in Seq(Seq(Items)) /\ Len(p) = n /\ \A i \in 1 .. n : p[i] = c[i]
      BY <3>2, Pieces
    <3> HIDE DEF p
    <3>5. ~IsPrefix(b, p)
      <4> SUFFICES ASSUME IsPrefix(b, p) PROVE FALSE
        OBVIOUS
      <4>1. Len(b) <= n /\ \A i \in 1 .. Len(b) : b[i] = p[i]
        BY <3>2, <3>4, PrefixMeans
      <4>2. Len(b) \in Nat /\ Len(c) \in Nat
        BY <3>2
      <4>3. Len(b) <= Len(c) /\ \A i \in 1 .. Len(b) : b[i] = c[i]
        BY <3>4, <4>1, <4>2
      <4> QED
        BY <3>1, <3>2, <4>3, PrefixMeans
    <3>6. p \in Tree'
      BY <1>3, <3>3, <3>5
    <3> QED
      BY <3>6 DEF p
  <2> QED
    BY <1>1, <1>2, <2>1 DEF TreeShape, NoBlock
<1>7. TreeBounded'
  BY <1>1, <1>2, <1>4 DEF TreeBounded
<1>8. TreeLegal'
  BY <1>1, <1>2, <1>4 DEF TreeLegal, LogOf
<1> QED
  BY <1>5, <1>6, <1>7, <1>8 DEF TreeInv

(* What the relay chain and the collator's submission do to the view.       *)
LEMMA ViewKeepsTree ==
    ASSUME TreeInv,
           \/ Submit \/ BackSome \/ Include \/ TimeOut \/ Reorg \/ Arrive
           \/ UNCHANGED chainVars
           \/ UNCHANGED <<log, arrived, blocks, offered, head, pending, reorgs>>
                 /\ holding' \in {holding, NoBlock}
    PROVE  TreeInv'
<1> USE DEF NoBlock
<1>1. TreeTyped /\ TreeShape /\ TreeBounded
  BY DEF TreeInv
<1>2. /\ arrived \in 0 .. MaxMessages /\ reorgs \in 0 .. MaxReorgs /\ offered \subseteq blocks
      /\ holding \in Tree /\ head \in Tree /\ pending \in Tree /\ <<>> \in Tree
      /\ Len(head) <= FinalityLag
      /\ pending # <<>> => Len(pending) = Len(head) + 1 /\ SubSeq(pending, 1, Len(head)) = head
  BY <1>1 DEF TreeTyped, TreeShape, TreeBounded, Tree
<1>3. CASE Submit
  <2>1. holding \in blocks
    BY <1>2, <1>3 DEF Submit, Tree
  <2> QED
    BY <1>2, <1>3, <2>1, TreeStands DEF Submit
<1>4. CASE BackSome
  <2>1. PICK b \in offered : Back(b)
    BY <1>4 DEF BackSome
  <2>2. b \in Tree /\ b # <<>> /\ Front(b) = head
    BY <1>2, <2>1 DEF Back, Tree
  <2>3. b \in Seq(Seq(Items)) /\ Len(b) \in Nat
    BY <1>1, <2>2, InTree DEF Bodied
  <2>4. Len(head) = Len(b) - 1
    BY <2>2, <2>3, FrontLast
  <2>5. Len(b) = Len(head) + 1 /\ SubSeq(b, 1, Len(head)) = head
    <3>1. SubSeq(b, 1, Len(b) - 1) = head
      BY <2>2 DEF Front
    <3> QED
      BY <2>3, <2>4, <3>1
  <2> QED
    BY <1>2, <2>1, <2>2, <2>5, TreeStands DEF Back
<1>5. CASE Include
  BY <1>2, <1>5, TreeStands DEF Include
<1>6. CASE TimeOut
  BY <1>2, <1>6, TreeStands DEF TimeOut
<1>7. CASE Reorg
  <2>1. PICK n \in 0 .. Len(head) - 1 : head' = SubSeq(head, 1, n)
    BY <1>7 DEF Reorg
  <2>2. head \in blocks
    BY <1>2, <1>7 DEF Reorg, Tree
  <2>3. head \in Seq(Seq(Items)) /\ Len(head) \in Nat
    BY <1>1, <1>2, InTree DEF Bodied
  <2>4. n \in 0 .. Len(head) /\ n < Len(head)
    BY <2>3
  <2>5. head' \in Tree /\ Len(head') = n
    BY <1>1, <2>1, <2>2, <2>3, <2>4, Pieces DEF TreeShape
  <2>6. Len(head') <= FinalityLag
    BY <1>2, <2>3, <2>4, <2>5, CollationAssumption
  <2>7. reorgs' \in 0 .. MaxReorgs
    BY <1>2, <1>7, CollationAssumption DEF Reorg
  <2> QED
    BY <1>2, <1>7, <2>5, <2>6, <2>7, TreeStands DEF Reorg
<1>8. CASE Arrive
  <2>1. arrived' \in 0 .. MaxMessages
    BY <1>2, <1>8, CollationAssumption DEF Arrive
  <2> QED
    BY <1>2, <1>8, <2>1, TreeStands DEF Arrive
<1>9. CASE \/ UNCHANGED chainVars
           \/ UNCHANGED <<log, arrived, blocks, offered, head, pending, reorgs>>
                 /\ holding' \in {holding, NoBlock}
  BY <1>2, <1>9, TreeStands DEF chainVars
<1> QED
  BY <1>3, <1>4, <1>5, <1>6, <1>7, <1>8, <1>9

LEMMA TreeStep ==
    ASSUME TreeInv, [Next]_vars
    PROVE  TreeInv'
<1>1. CASE Node(NodeNext)
  BY <1>1, ViewKeepsTree DEF Node
<1>2. CASE Author
  BY <1>2, AuthorKeepsTree
<1>3. CASE Finalize
  BY <1>3, FinalizeKeepsTree
<1>4. CASE ExpireSome
  BY <1>4, ExpireKeepsTree DEF ExpireSome
<1>5. CASE Submit \/ BackSome \/ Include \/ TimeOut \/ Reorg \/ Arrive \/ UNCHANGED vars
  <2>1. UNCHANGED vars => UNCHANGED chainVars
    BY DEF vars
  <2> QED
    BY <1>5, <2>1, ViewKeepsTree
<1> QED
  BY <1>1, <1>2, <1>3, <1>4, <1>5 DEF Next

-----------------------------------------------------------------------------
(* Only what is final extends the log, and it extends it in order.          *)
LEMMA LogStep ==
    ASSUME TreeInv, [Next]_vars
    PROVE  [Linear!Arrive \/ Linear!Grow]_<<log, arrived>>
<1>1. CASE Finalize
  <2> DEFINE more == FlattenSeq(head)
  <2>1. log' = log \o more /\ arrived' = arrived /\ LogOf(head) = log \o more
    BY <1>1 DEF Finalize, LogOf
  <2>2. head \in Tree /\ log \in Seq(Items)
    BY DEF TreeInv, TreeTyped
  <2>3. more \in Seq(Items)
    BY <2>2, InTree DEF TreeInv
  <2> HIDE DEF more
  <2>4. Linear!Legal(log', arrived)
    BY <2>1, <2>2 DEF TreeInv, TreeLegal
  <2>5. /\ log' \in Seq(Items) /\ Len(log) <= Len(log')
        /\ \A i \in 1 .. Len(log) : log[i] = log'[i]
    BY <2>1, <2>2, <2>3
  <2>6. IsPrefix(log, log')
    BY <2>2, <2>5, PrefixMeans
  <2>7. Linear!IsPrefix(log, log')
    BY <2>6 DEF IsPrefix, Linear!IsPrefix
  <2> QED
    BY <2>1, <2>4, <2>7 DEF Linear!Grow
<1>2. CASE Arrive
  BY <1>2 DEF Arrive, Linear!Arrive
<1>3. CASE \/ Node(NodeNext) \/ Author \/ Submit \/ BackSome \/ Include \/ TimeOut \/ Reorg
           \/ ExpireSome \/ UNCHANGED vars
  BY <1>3 DEF Node, Author, Submit, BackSome, Back, Include, TimeOut, Reorg, ExpireSome, Expire,
     vars, chainVars
<1> QED
  BY <1>1, <1>2, <1>3 DEF Next

(* Blocks that are built ahead, lost in a crash, given up, backed again or  *)
(* undone by the relay chain never show: what the collator authors          *)
(* (service.rs:187-227) under the consensus hook (lib.rs:224-244)           *)
(* implements one log that only grows and has each message and each signed  *)
(* call once and in order, whatever the bounds, the depth of the segment    *)
(* and the lag of finality are.                                             *)
THEOREM ImplementsLinearChain == Spec => LinearSpec
<1>1. Init => Linear!Init
  BY DEF Init, Linear!Init
<1>2. Init => TreeInv
  BY TreeInit
<1>3. TreeInv /\ [Next]_vars => TreeInv'
  BY TreeStep
<1>4. TreeInv /\ [Next]_vars => [Linear!Arrive \/ Linear!Grow]_<<log, arrived>>
  BY LogStep
<1> QED
  BY <1>1, <1>2, <1>3, <1>4, PTL DEF Spec, LinearSpec, Linear!Spec

-----------------------------------------------------------------------------
(* Type correctness *)

NodeTyped ==
    /\ config \in Configs /\ phase \in {"starting", "running", "ended", "panicked"}
    /\ done \in 0 .. Len(Plan[config]) /\ restarts \in 0 .. MaxRestarts
    /\ dead \subseteq Spawned /\ IsFiniteSet(dead) /\ Cardinality(dead) <= MaxEnds

LEMMA NodeTypedInit ==
    ASSUME Init
    PROVE  NodeTyped
<1>1. config \in Configs /\ phase = "starting" /\ done = 0 /\ dead = {} /\ restarts = 0
  BY DEF Init, NodeInit
<1>2. Len(Plan[config]) \in Nat
  BY <1>1, PlanFinite
<1>3. IsFiniteSet({}) /\ Cardinality({}) = 0
  BY FS_EmptySet
<1>4. 0 \in 0 .. MaxRestarts /\ 0 <= MaxEnds
  BY NodeAssumption
<1> QED
  BY <1>1, <1>2, <1>3, <1>4 DEF NodeTyped

LEMMA NodeTypedStep ==
    ASSUME NodeTyped, NodeNext \/ UNCHANGED nodeVars
    PROVE  NodeTyped'
<1>1. /\ config \in Configs /\ done \in 0 .. Len(Plan[config]) /\ restarts \in 0 .. MaxRestarts
      /\ phase \in {"starting", "running", "ended", "panicked"}
      /\ dead \subseteq Spawned /\ IsFiniteSet(dead) /\ Cardinality(dead) <= MaxEnds
  BY DEF NodeTyped
<1>2. ASSUME NEW end \in {"ended", "panicked"}, GoesDown(end) PROVE NodeTyped'
  <2>1. config' = config /\ phase' = end /\ done' = 0 /\ dead' = {} /\ restarts' = restarts
    BY <1>2 DEF GoesDown
  <2>2. Len(Plan[config]) \in Nat
    BY <1>1, PlanFinite
  <2>3. IsFiniteSet({}) /\ Cardinality({}) = 0 /\ 0 <= MaxEnds
    BY FS_EmptySet, NodeAssumption
  <2>4. Plan' = Plan
    BY DEF Plan
  <2> QED
    BY <1>1, <2>1, <2>2, <2>3, <2>4 DEF NodeTyped
<1>3. CASE UNCHANGED <<config, done, dead>> /\ restarts' \in 0 .. MaxRestarts
           /\ phase' \in {"starting", "running", "ended", "panicked"}
  <2>1. Spawned' = Spawned /\ Plan' = Plan
    BY <1>3 DEF Spawned, SpawnedAfter, EssentialAfter, Plan
  <2> QED
    BY <1>1, <1>3, <2>1 DEF NodeTyped
<1>4. CASE StepDone
  <2>1. config' = config /\ done' = done + 1 /\ UNCHANGED <<phase, dead, restarts>>
    BY <1>4 DEF StepDone
  <2>2. Len(Plan[config]) \in Nat
    BY <1>1, PlanFinite
  <2>3. done + 1 \in 0 .. Len(Plan[config])
    BY <1>1, <1>4, <2>2 DEF StepDone, StartsNext
  <2>4. SpawnedAfter[config][done] \subseteq SpawnedAfter[config][done + 1]
    <3> SUFFICES ASSUME NEW t \in SpawnedAfter[config][done]
                 PROVE  t \in SpawnedAfter[config][done + 1]
      OBVIOUS
    <3>1. PICK i \in 1 .. done : t \in StepTasks(Plan[config][i])
      BY <1>1, SpawnedBySteps
    <3>2. i \in 1 .. done + 1
      BY <1>1, <2>2
    <3> QED
      BY <1>1, <2>3, <3>1, <3>2, SpawnedBySteps
  <2>5. Plan' = Plan /\ SpawnedAfter' = SpawnedAfter
    BY DEF Plan, SpawnedAfter, EssentialAfter
  <2>6. dead' \subseteq Spawned'
    BY <1>1, <2>1, <2>4, <2>5 DEF Spawned
  <2> QED
    BY <1>1, <2>1, <2>3, <2>5, <2>6 DEF NodeTyped
<1>5. ASSUME NEW t \in Spawned, TaskEnds(t) PROVE NodeTyped'
  <2>1. /\ dead' = dead \cup {t} /\ Cardinality(dead) < MaxEnds
        /\ UNCHANGED <<config, phase, done, restarts>>
    BY <1>5 DEF TaskEnds
  <2>2. Spawned' = Spawned /\ Plan' = Plan
    BY <2>1 DEF Spawned, SpawnedAfter, EssentialAfter, Plan
  <2>3. IsFiniteSet(dead') /\ Cardinality(dead') <= MaxEnds
    <3>1. /\ IsFiniteSet(dead \cup {t})
          /\ Cardinality(dead \cup {t}) = IF t \in dead THEN Cardinality(dead)
                                                        ELSE Cardinality(dead) + 1
      BY <1>1, FS_AddElement
    <3>2. Cardinality(dead) \in Nat /\ MaxEnds \in Nat
      BY <1>1, FS_CardinalityType, NodeAssumption
    <3> QED
      BY <2>1, <3>1, <3>2
  <2> QED
    BY <1>1, <1>5, <2>1, <2>2, <2>3 DEF NodeTyped
<1>6. CASE StepFails \/ StepPanics \/ EssentialNoticed \/ Signal \/ Finish \/ Crash
  BY <1>2, <1>6 DEF StepFails, StepPanics, EssentialNoticed, Signal, Finish, Crash
<1>7. CASE Started \/ Restart \/ UNCHANGED nodeVars
  <2>1. restarts' \in 0 .. MaxRestarts
    BY <1>1, <1>7, NodeAssumption DEF Started, Restart, nodeVars
  <2> QED
    BY <1>1, <1>3, <1>7, <2>1 DEF Started, Restart, nodeVars
<1> QED
  BY <1>4, <1>5, <1>6, <1>7 DEF NodeNext

(* The database is a tree above the last finalized block that holds the     *)
(* included, the pending and every candidate block, no deeper than finality *)
(* may lag and the unincluded segment (lib.rs:228) may reach, and the      *)
(* node has done part of its plan, for every bound.                         *)
THEOREM ChainTypeCorrect == Spec => []TypeOK
<1>1. Init => TreeInv /\ NodeTyped
  BY TreeInit, NodeTypedInit
<1>2. TreeInv /\ NodeTyped /\ [Next]_vars => (TreeInv /\ NodeTyped)'
  <2> SUFFICES ASSUME TreeInv, NodeTyped, [Next]_vars PROVE NodeTyped'
    BY TreeStep
  <2>1. NodeNext \/ UNCHANGED nodeVars
    BY DEF Next, Node, Author, Submit, BackSome, Back, Include, TimeOut, Finalize, Reorg,
       ExpireSome, Expire, Arrive, vars
  <2> QED
    BY <2>1, NodeTypedStep
<1>3. TreeInv /\ NodeTyped => TypeOK
  <2> SUFFICES ASSUME TreeInv, NodeTyped PROVE TypeOK
    OBVIOUS
  <2>1. /\ arrived \in 0 .. MaxMessages /\ reorgs \in 0 .. MaxReorgs
        /\ <<>> \notin blocks /\ offered \subseteq blocks
        /\ {holding, head, pending} \subseteq blocks \cup {<<>>}
    BY DEF TreeInv, TreeTyped, Tree
  <2>2. ASSUME NEW b \in blocks
        PROVE  Len(b) <= FinalityLag + SegmentCapacity /\ Front(b) \in blocks \cup {<<>>}
    <3>1. b \in Seq(Seq(Items)) /\ b # <<>>
      BY DEF TreeInv, TreeTyped, Bodied
    <3>2. Len(b) - 1 \in 0 .. Len(b)
      BY <3>1
    <3>3. SubSeq(b, 1, Len(b) - 1) \in Tree
      BY <3>2 DEF TreeInv, TreeShape
    <3> QED
      BY <3>3 DEF Front, Tree, TreeInv, TreeBounded
  <2> QED
    BY <2>1, <2>2 DEF TypeOK, NodeTyped
<1> QED
  BY <1>1, <1>2, <1>3, PTL DEF Spec
=============================================================================
