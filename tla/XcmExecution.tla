---------------------------- MODULE XcmExecution ----------------------------
(***************************************************************************)
(* The execution of one message under XcmConfig, received from a chain or  *)
(* executed for a local account, instruction by instruction: the origin    *)
(* register and the holding of the executor, and the calls it has          *)
(* dispatched.  An instruction that fails ends the run.                    *)
(***************************************************************************)
EXTENDS XcmConfig

VARIABLES
    sender,      \* the location the queue or the signature vouches for
    program,     \* the instructions of the message
    status,      \* "received", "running", "denied", "failed" or "done"
    pc,          \* the next instruction
    origin,      \* the origin register, NoLocation once cleared
    paid,        \* whether WithdrawAsset has put the fee in holding
    dispatched   \* the calls dispatched: by Transact instructions

execVars == <<sender, program, status, pc, origin, paid, dispatched>>

Init ==
    /\ sender \in Senders
    /\ program \in Programs
    /\ status = "received"
    /\ pc = 1
    /\ origin = sender
    /\ paid = FALSE
    /\ dispatched = <<>>

Judge ==
    /\ status = "received"
    /\ status' = IF Barrier(sender, program) THEN "running" ELSE "denied"
    /\ UNCHANGED <<sender, program, pc, origin, paid, dispatched>>

At(op) == status = "running" /\ pc <= Len(program) /\ program[pc].op = op

Goes == pc' = pc + 1 /\ UNCHANGED <<sender, program, status>>

Fails ==
    /\ status' = "failed"
    /\ UNCHANGED <<sender, program, pc, origin, paid, dispatched>>

(* Without an effect on what is modelled here: no check_origin is set.      *)
Pass == (At("UnpaidExecution") \/ At("SetTopic")) /\ Goes
          /\ UNCHANGED <<origin, paid, dispatched>>

DescendOrigin ==
    /\ At("DescendOrigin")
    /\ IF origin = NoLocation THEN Fails
       ELSE Goes /\ origin' = Deeper(origin, program[pc].to) /\ UNCHANGED <<paid, dispatched>>

ClearOrigin ==
    At("ClearOrigin") /\ Goes /\ origin' = NoLocation /\ UNCHANGED <<paid, dispatched>>

WithdrawAsset ==
    /\ At("WithdrawAsset")
    /\ IF LocationToAccountId(origin) \in Funded
       THEN Goes /\ paid' = TRUE /\ UNCHANGED <<origin, dispatched>>
       ELSE Fails

BuyExecution ==
    /\ At("BuyExecution")
    /\ IF paid THEN Goes /\ UNCHANGED <<origin, paid, dispatched>> ELSE Fails

(* With a bug: the executor stays at the Transact it has dispatched.        *)
RunTransactAgain ==
    /\ At("Transact")
    /\ LET as == XcmOriginToTransactDispatchOrigin(origin, program[pc].kind) IN
       IF origin # NoLocation /\ SafeCallFilter(program[pc].call) /\ as # BadOrigin
       THEN /\ dispatched' = Append(dispatched, [as |-> as, call |-> program[pc].call])
            /\ UNCHANGED <<sender, program, status, pc, origin, paid>>
       ELSE Fails

(* The filter, then the conversion of the origin, then the dispatch; what   *)
(* the call returns does not fail the instruction.                          *)
RunTransact ==
    /\ At("Transact")
    /\ LET as == XcmOriginToTransactDispatchOrigin(origin, program[pc].kind) IN
       IF origin # NoLocation /\ SafeCallFilter(program[pc].call) /\ as # BadOrigin
       THEN /\ Goes
            /\ dispatched' = Append(dispatched, [as |-> as, call |-> program[pc].call])
            /\ UNCHANGED <<origin, paid>>
       ELSE Fails

Finish ==
    /\ status = "running" /\ pc > Len(program)
    /\ status' = "done"
    /\ UNCHANGED <<sender, program, pc, origin, paid, dispatched>>

Next ==
    \/ Judge \/ Pass \/ DescendOrigin \/ ClearOrigin
    \/ WithdrawAsset \/ BuyExecution \/ RunTransact \/ Finish

Spec == Init /\ [][Next]_execVars

-----------------------------------------------------------------------------
(* The registers have their types, and nothing runs before the Barrier.     *)
TypeOK ==
    /\ sender \in Senders
    /\ program \in Seq(Instructions)
    /\ status \in {"received", "running", "denied", "failed", "done"}
    /\ pc \in 1 .. Len(program) + 1
    /\ paid \in BOOLEAN
    /\ Len(dispatched) < pc

(* A sibling signs only as its own sovereign account and a local account    *)
(* only as itself, never as another user, the relay chain or another chain, *)
(* wherever the message moves the origin: the students of others are out of *)
(* reach of the calls that ask for their owner.                             *)
OnlyOwnSovereign ==
    \A i \in 1 .. Len(dispatched) :
        sender \in Siblings \cup Locals /\ dispatched[i].as.origin = "Signed"
            => dispatched[i].as.who = LocationToAccountId(sender)

(* A message that a chain sends on behalf of one of its accounts            *)
(* (PolkadotXcm::send puts the descent to it first) dispatches nothing: the *)
(* free execution of xcm_config.rs:104-122 is for the chains themselves,    *)
(* and such an account has no local account it could pay from.              *)
AccountsDispatchNothing ==
    sender \in Chains /\ program[1] \in {Descend(AccountId32(k)) : k \in Keys}
        => dispatched = <<>>

(* The message of graduate_student (lib.rs:229-239), with the topic that    *)
(* WithUniqueTopic adds, runs to its end on a chain that receives it from a *)
(* sibling, and dispatches the call once, signed by the sibling's account.  *)
GraduationMessage ==
    <<Simple("UnpaidExecution"), Transact("SovereignAccount", "TemplatePallet"),
      Simple("SetTopic")>>

GraduationMessageRuns ==
    sender \in Siblings /\ program = GraduationMessage =>
        /\ status \notin {"denied", "failed"}
        /\ status = "done" => dispatched =
              <<[as   |-> [origin |-> "Signed", who |-> LocationToAccountId(sender)],
                 call |-> "TemplatePallet"]>>
=============================================================================
