---------------------------- MODULE RankControl -----------------------------
(***************************************************************************)
(* The ranks of one cluster's job (src/src/pww/titan/flower_client.py and  *)
(* main() of train.py): rank 0 serves the central node, and before it      *)
(* enters any collective it broadcasts a command tuple to the workers,     *)
(* which then mirror its collectives, in the same order, on their own      *)
(* model, their own step counter and their own H.                          *)
(*                                                                         *)
(* A rank runs a script: the collectives still before it, and on rank 0    *)
(* the calls between them that can raise.  A collective happens when every *)
(* rank of the job is at it; nothing else frees a rank that waits in one.  *)
(* (The process groups' timeouts, which kill a job that hangs, are not     *)
(* modelled, nor is a failure that every rank has, nor the loss of a       *)
(* process or a device, which any rank may suffer anywhere.)               *)
(***************************************************************************)
EXTENDS Integers, Sequences

CONSTANTS
    Leader,         \* rank 0
    Workers,        \* every other rank
    TrainingSteps,  \* job_config.training.steps
    InnerSteps,     \* darl.inner_steps, until a server sends its own H
    MaxInner,       \* bounds what a server sends
    MaxCommands     \* bounds the rounds of a run

Ranks == {Leader} \cup Workers

ASSUME RanksAssumption ==
    /\ Leader \notin Workers /\ Workers # {}
    /\ {TrainingSteps, InnerSteps, MaxInner} \subseteq Nat \ {0}
    /\ MaxCommands \in Nat

VARIABLES
    job,        \* flower.transport, and whether the model outgrows a message
    script,     \* by rank: what it has yet to do for the command it is in
    left,       \* by rank: inner steps to go of its phase
    inner,      \* by rank: federated.inner_steps
    step,       \* by rank: trainer.step
    box,        \* the command tuple rank 0 is to broadcast next
    gone,       \* the ranks that left the command loop
    lost,       \* the call on which rank 0 raised, if it did
    served      \* how many commands the central node has sent

vars == <<job, script, left, inner, step, box, gone, lost, served>>

Unsent == -1

\* What every rank takes part in, and nobody completes alone.
Collectives ==
    {"command", "scatter", "apply", "write", "train", "total", "gather", "validate"}

\* The command tuple, as `_broadcast` builds it.
Tuple ==
    [command : {"none", "fit", "evaluate", "stop"}, params : BOOLEAN,
     gatherOnly : BOOLEAN, reference : BOOLEAN, writeFull : BOOLEAN,
     step : {Unsent} \cup 0..TrainingSteps, inner : {Unsent} \cup 1..MaxInner,
     eval : BOOLEAN]

\* A tuple with nothing but its command.
Order(command) ==
    [command |-> command, params |-> FALSE, gatherOnly |-> FALSE,
     reference |-> FALSE, writeFull |-> FALSE, step |-> Unsent,
     inner |-> Unsent, eval |-> FALSE]

NoOrder == Order("none")

When(condition, ops) == IF condition THEN ops ELSE <<>>

Phase == <<"train", "total">>

Validate == <<"validate", "total">>

-----------------------------------------------------------------------------
(* The leader's side of every command: its own calls and the collectives.  *)

\* _fit_blob, after the round's length is adopted.
FitBlob(o) ==
    When(~o.writeFull, <<"fetch">>) \o <<"command">>
      \o (IF o.writeFull THEN <<"write", "put_init">> ELSE <<"apply">>)
      \o Phase \o <<"gather", "close_delta">> \o When(o.eval, Validate)
      \o <<"put_delta", "report">>

\* _fit_inline.
FitInline(o) ==
    <<"ceiling", "command">> \o When(o.params, <<"scatter">>)
      \o Phase \o <<"gather", "subtract">> \o When(o.eval, Validate)
      \o <<"report">>

\* evaluate, in either transport.
Evaluate(o) ==
    When(o.reference, <<"fetch">>) \o <<"command">>
      \o When(o.reference, <<"apply">>) \o When(o.params, <<"scatter">>)
      \o Validate \o <<"report">>

\* get_parameters.
GetParameters == <<"command", "ceiling", "gather", "report">>

\* A request for the other transport is refused by `_require_transport`.
Mismatch == <<"transport">>

-----------------------------------------------------------------------------
(* The workers' side: run_worker_loop's reading of the tuple.              *)

\* Workers that never score their endpoint (mutant).
Mirrored_(o) ==
    IF o.command = "fit"
    THEN IF o.gatherOnly
         THEN <<"gather">>
         ELSE (IF o.reference
               THEN IF o.writeFull THEN <<"write">> ELSE <<"apply">>
               ELSE When(o.params, <<"scatter">>))
              \o Phase \o <<"gather">>
    ELSE (IF o.reference THEN <<"apply">> ELSE When(o.params, <<"scatter">>))
         \o Validate

\* The tuple, read.
Mirrored(o) ==
    IF o.command = "fit"
    THEN IF o.gatherOnly
         THEN <<"gather">>
         ELSE (IF o.reference
               THEN IF o.writeFull THEN <<"write">> ELSE <<"apply">>
               ELSE When(o.params, <<"scatter">>))
              \o Phase \o <<"gather">> \o When(o.eval, Validate)
    ELSE (IF o.reference THEN <<"apply">> ELSE When(o.params, <<"scatter">>))
         \o Validate

-----------------------------------------------------------------------------

At(r) == IF script[r] = <<>> THEN "idle" ELSE Head(script[r])

Advance(r) == Tail(script[r])

\* The phase's loop is over for a rank: its own count, or training.steps.
PhaseOver(r) == left[r] = 0 \/ step[r] >= TrainingSteps

Start(transport, tooBig) ==
    /\ job = [transport |-> transport, tooBig |-> tooBig]
    /\ script = [r \in Ranks |->
                    When(transport = "inline", <<"gather">>)
                      \o IF r = Leader THEN <<"construct">> ELSE <<"command">>]
    /\ left = [r \in Ranks |-> 0]
    /\ inner = [r \in Ranks |-> InnerSteps]
    /\ step = [r \in Ranks |-> 0]
    /\ box = NoOrder
    /\ gone = {}
    /\ lost = "nothing"
    /\ served = 0

Init == \E t \in {"blob", "inline"}, b \in BOOLEAN :
            (t = "blob" => ~b) /\ Start(t, b)

\* The central node's next fit: rank 0 adopts its H and aligns itself.
ServeFit(o) ==
    /\ script' = [script EXCEPT ![Leader] =
                    IF job.transport = "blob" THEN FitBlob(o) ELSE FitInline(o)]
    /\ inner' = [inner EXCEPT ![Leader] = IF o.inner > 0 THEN o.inner ELSE @]
    /\ step' = [step EXCEPT ![Leader] = o.step]
    /\ box' = o

ServeOther(ops, o) ==
    /\ script' = [script EXCEPT ![Leader] = ops]
    /\ box' = o
    /\ UNCHANGED <<inner, step>>

FitOrders ==
    {o \in Tuple :
        /\ o.command = "fit" /\ ~o.gatherOnly /\ o.step # Unsent
        /\ o.reference = (job.transport = "blob")
        /\ IF o.reference THEN ~o.params ELSE ~o.writeFull}

EvalOrders ==
    {o \in Tuple :
        /\ o.command = "evaluate" /\ o.step = Unsent /\ o.inner = Unsent
        /\ ~o.gatherOnly /\ ~o.writeFull /\ ~o.eval
        /\ o.reference = (job.transport = "blob")
        /\ o.reference => ~o.params}

Serve ==
    /\ At(Leader) = "idle" /\ Leader \notin gone
    /\ served < MaxCommands
    /\ served' = served + 1
    /\ \/ \E o \in FitOrders : ServeFit(o)
       \/ \E o \in EvalOrders : ServeOther(Evaluate(o), o)
       \/ job.transport = "inline"
            /\ ServeOther(GetParameters, [Order("fit") EXCEPT !.gatherOnly = TRUE])
       \/ ServeOther(Mismatch, NoOrder)
    /\ UNCHANGED <<job, left, gone, lost>>

\* An exception that escapes without a STOP (mutant).
Stopping_ == [script EXCEPT ![Leader] = <<>>]

\* Whatever ends rank 0's client, `finally` broadcasts the STOP: the last
\* round, and any exception, which nothing below main() survives.
Stopping == [script EXCEPT ![Leader] = <<"command">>]

Finished ==
    /\ At(Leader) = "idle" /\ Leader \notin gone
    /\ script' = Stopping
    /\ box' = Order("stop")
    /\ UNCHANGED <<job, left, inner, step, gone, lost, served>>

\* A call of rank 0's own between two collectives.
LocalCalls == {"construct", "fetch", "put_init", "ceiling", "subtract",
               "close_delta", "put_delta", "report"}

Refused(call) == call = "ceiling" /\ job.tooBig

CallReturns ==
    /\ At(Leader) \in LocalCalls
    /\ ~Refused(At(Leader))
    /\ script' = [script EXCEPT ![Leader] = Advance(Leader)]
    /\ UNCHANGED <<job, left, inner, step, box, gone, lost, served>>

\* A call raises: one of rank 0's own, the bytes that only rank 0 writes while
\* a model is gathered to a file, inside a training step the acquire of the
\* next leases, which only the session on rank 0 makes, or, when a model is
\* scattered, the decoding of the message and the look-up of its tensors, which
\* only the source does.
CallRaises ==
    /\ \/ At(Leader) \in (LocalCalls \ {"ceiling"}) \cup {"transport"}
       \/ Refused(At(Leader))
       \/ At(Leader) = "scatter"
       \/ At(Leader) \in {"write", "gather"} /\ box.reference
       \/ At(Leader) = "train" /\ ~PhaseOver(Leader)
    /\ script' = Stopping
    /\ box' = Order("stop")
    /\ lost' = IF At(Leader) = "ceiling" /\ box.gatherOnly
               THEN "late_ceiling" ELSE At(Leader)
    /\ UNCHANGED <<job, left, inner, step, gone, served>>

-----------------------------------------------------------------------------
(* The collectives.                                                        *)

AllAt(op) == gone = {} /\ \A r \in Ranks : At(r) = op

\* Only rank 0 is aligned to the run's step (mutant).
Command_ ==
    /\ AllAt("command")
    /\ IF box.command = "stop"
       THEN /\ gone' = Ranks
            /\ script' = [r \in Ranks |-> <<>>]
            /\ UNCHANGED <<inner, step, left>>
       ELSE /\ script' = [r \in Ranks |->
                IF r = Leader THEN Advance(r)
                ELSE Mirrored(box) \o <<"command">>]
            /\ inner' = [r \in Ranks |->
                IF r \in Workers /\ box.inner > 0 THEN box.inner ELSE inner[r]]
            /\ left' = [r \in Ranks |-> inner'[r]]
            /\ UNCHANGED <<gone, step>>
    /\ UNCHANGED <<job, box, lost, served>>

\* The broadcast: the workers adopt what it carries before they mirror it.
Command ==
    /\ AllAt("command")
    /\ IF box.command = "stop"
       THEN /\ gone' = Ranks
            /\ script' = [r \in Ranks |-> <<>>]
            /\ UNCHANGED <<inner, step, left>>
       ELSE /\ script' = [r \in Ranks |->
                IF r = Leader THEN Advance(r)
                ELSE Mirrored(box) \o <<"command">>]
            /\ step' = [r \in Ranks |->
                IF r \in Workers /\ box.step >= 0 THEN box.step ELSE step[r]]
            /\ inner' = [r \in Ranks |->
                IF r \in Workers /\ box.inner > 0 THEN box.inner ELSE inner[r]]
            /\ left' = [r \in Ranks |-> inner'[r]]
            /\ UNCHANGED gone
    /\ UNCHANGED <<job, box, lost, served>>

\* One optimiser step of all ranks; or there is no more data, for all.
TrainStep ==
    /\ AllAt("train") /\ \A r \in Ranks : ~PhaseOver(r)
    /\ \/ /\ step' = [r \in Ranks |-> step[r] + 1]
          /\ left' = [r \in Ranks |-> left[r] - 1]
       \/ /\ left' = [r \in Ranks |-> 0]
          /\ UNCHANGED step
    /\ UNCHANGED <<job, script, inner, box, gone, lost, served>>

\* A rank whose loop is over goes on to the totals by itself.
EndOfPhase(r) ==
    /\ At(r) = "train" /\ PhaseOver(r)
    /\ script' = [script EXCEPT ![r] = Advance(r)]
    /\ UNCHANGED <<job, left, inner, step, box, gone, lost, served>>

Together ==
    /\ \E op \in Collectives \ {"command", "train"} : AllAt(op)
    /\ script' = [r \in Ranks |-> Advance(r)]
    /\ UNCHANGED <<job, left, inner, step, box, gone, lost, served>>

Next ==
    \/ Serve \/ Finished \/ CallReturns \/ CallRaises
    \/ Command \/ TrainStep \/ Together
    \/ \E r \in Ranks : EndOfPhase(r)

Spec == Init /\ [][Next]_vars

\* The ranks run, and rank 0's calls return or raise; whether the central node
\* sends another command, or ends the run, is its own affair.
Fairness ==
    /\ WF_vars(CallReturns \/ CallRaises)
    /\ WF_vars(Command) /\ WF_vars(TrainStep) /\ WF_vars(Together)
    /\ \A r \in Ranks : WF_vars(EndOfPhase(r))

FairSpec == Spec /\ Fairness

-----------------------------------------------------------------------------

Ops == Collectives \cup LocalCalls \cup {"transport"}

TypeOK ==
    /\ job \in [transport : {"blob", "inline"}, tooBig : BOOLEAN]
    /\ script \in [Ranks -> Seq(Ops)]
    /\ left \in [Ranks -> Nat]
    /\ step \in [Ranks -> 0..TrainingSteps]
    /\ inner \in [Ranks -> Nat \ {0}]
    /\ box \in Tuple
    /\ gone \in {{}, Ranks}
    /\ lost \in Ops \cup {"nothing", "late_ceiling"}
    /\ served \in 0..MaxCommands

Blocked(r) ==
    /\ At(r) \in Collectives
    /\ At(r) = "train" => ~PhaseOver(r)

\* Every rank waits in a collective, and not all in the same one.
Stranded ==
    /\ gone = {} /\ \A r \in Ranks : Blocked(r)
    /\ \E r, q \in Ranks : At(r) # At(q)

\* The calls of rank 0 that can raise while the workers, already told to go
\* on, are in a collective it will not come to.
Unmirrored ==
    {"put_init", "late_ceiling", "scatter", "train", "write", "gather",
     "close_delta", "subtract"}

\* No order of commands, flags, lengths and failures leaves the ranks in
\* different collectives, other than an exception of rank 0 in one of those
\* calls: each of its other failures modelled here finds the workers where they
\* can be told of it.
NobodyIsStranded == Stranded => lost \in Unmirrored

\* Whenever the ranks train together they are at the same step, with the same
\* steps to go: the shards of one model share one LR schedule and one H.
OneSchedule ==
    AllAt("train") =>
        \A r, q \in Ranks : step[r] = step[q] /\ left[r] = left[q]

\* Once rank 0 has ended its run, or has failed where its workers can be told,
\* every rank leaves: the STOP of `finally` finds them waiting for it.
WorkersLeave ==
    (box.command = "stop" /\ lost \notin Unmirrored) ~> (gone = Ranks)

=============================================================================
