------------------------- MODULE RankControlProofs -------------------------
(***************************************************************************)
(* Type correctness of the ranks' control, that ranks which train together *)
(* are at the same step with the same steps to go, and that they meet in   *)
(* every collective, for any set of workers, any length of a phase and any *)
(* number of commands.                                                     *)
(*                                                                         *)
(* A step is taken by all ranks or by none, so only the leader's private   *)
(* adoption of a command's H and step can tell the ranks apart: from then  *)
(* to the broadcast it is ahead of its workers by what the command tuple   *)
(* says, and trains nothing.                                               *)
(***************************************************************************)
EXTENDS RankControl, SequenceTheorems, TLAPS

\* No broadcast is left in a script: the workers know all the leader does.
Told(s) == \A i \in 1..Len(s) : s[i] # "command"

\* The broadcast is to come, after nothing but the leader's own calls.
Untold(s) ==
    \E i \in 1..Len(s) :
        /\ s[i] = "command"
        /\ \A j \in 1..(i-1) : s[j] \in {"fetch", "ceiling"}
        /\ \A j \in (i+1)..Len(s) : s[j] # "command"

Agree ==
    \A r \in Workers :
        step[r] = step[Leader] /\ inner[r] = inner[Leader] /\ left[r] = left[Leader]

\* What the tuple says of the leader is how it differs from its workers.
Announced ==
    \A r \in Workers :
        /\ step[Leader] = IF box.step >= 0 THEN box.step ELSE step[r]
        /\ inner[Leader] = IF box.inner > 0 THEN box.inner ELSE inner[r]

InStep ==
    gone = {} =>
        IF box.command = "stop"
        THEN script[Leader] = <<"command">>
        ELSE \/ Told(script[Leader]) /\ Agree
             \/ Untold(script[Leader]) /\ Announced

Inv == TypeOK /\ InStep
-----------------------------------------------------------------------------
(* Scripts.                                                                *)

LEMMA ToldTail ==
    ASSUME NEW s \in Seq(Ops), s # <<>>, Told(s)
    PROVE  Tail(s) \in Seq(Ops) /\ Told(Tail(s))
BY DEF Told

LEMMA UntoldHead ==
    ASSUME NEW s \in Seq(Ops), Untold(s)
    PROVE  s # <<>> /\ Head(s) \in {"fetch", "ceiling", "command"}
<1>1. PICK i \in 1..Len(s) :
        /\ s[i] = "command"
        /\ \A j \in 1..(i-1) : s[j] \in {"fetch", "ceiling"}
      BY DEF Untold
<1>2. CASE i = 1 BY <1>1, <1>2
<1>3. CASE i > 1 BY <1>1, <1>3
<1> QED BY <1>2, <1>3

LEMMA UntoldTail ==
    ASSUME NEW s \in Seq(Ops), Untold(s), Head(s) # "command"
    PROVE  Tail(s) \in Seq(Ops) /\ Untold(Tail(s))
<1>1. PICK i \in 1..Len(s) :
        /\ s[i] = "command"
        /\ \A j \in 1..(i-1) : s[j] \in {"fetch", "ceiling"}
        /\ \A j \in (i+1)..Len(s) : s[j] # "command"
      BY DEF Untold
<1>2. s # <<>> /\ i > 1 BY <1>1
<1>3. /\ Tail(s) \in Seq(Ops) /\ Len(Tail(s)) = Len(s) - 1
      /\ \A j \in 1..Len(Tail(s)) : Tail(s)[j] = s[j+1]
      BY <1>2
<1>4. /\ i - 1 \in 1..Len(Tail(s)) /\ Tail(s)[i-1] = "command"
      /\ \A j \in 1..((i-1)-1) : Tail(s)[j] \in {"fetch", "ceiling"}
      /\ \A j \in ((i-1)+1)..Len(Tail(s)) : Tail(s)[j] # "command"
      BY <1>1, <1>2, <1>3
<1> QED BY <1>3, <1>4 DEF Untold

\* Once the broadcast is made, it is behind.
LEMMA BroadcastTells ==
    ASSUME NEW s \in Seq(Ops), Untold(s), Head(s) = "command"
    PROVE  Tail(s) \in Seq(Ops) /\ Told(Tail(s))
<1>1. PICK i \in 1..Len(s) :
        /\ s[i] = "command"
        /\ \A j \in 1..(i-1) : s[j] \in {"fetch", "ceiling"}
        /\ \A j \in (i+1)..Len(s) : s[j] # "command"
      BY DEF Untold
<1>2. s # <<>> /\ s[1] = "command" BY <1>1
<1>3. i = 1 BY <1>1, <1>2
<1>4. /\ Tail(s) \in Seq(Ops) /\ Len(Tail(s)) = Len(s) - 1
      /\ \A j \in 1..Len(Tail(s)) : Tail(s)[j] = s[j+1]
      BY <1>2
<1> QED BY <1>1, <1>3, <1>4 DEF Told

LEMMA ToldConcat ==
    ASSUME NEW a \in Seq(Ops), NEW b \in Seq(Ops), Told(a), Told(b)
    PROVE  a \o b \in Seq(Ops) /\ Told(a \o b)
BY DEF Told

LEMMA UntoldConcat ==
    ASSUME NEW a \in Seq(Ops), NEW b \in Seq(Ops), Untold(a), Told(b)
    PROVE  a \o b \in Seq(Ops) /\ Untold(a \o b)
<1>1. PICK i \in 1..Len(a) :
        /\ a[i] = "command"
        /\ \A j \in 1..(i-1) : a[j] \in {"fetch", "ceiling"}
        /\ \A j \in (i+1)..Len(a) : a[j] # "command"
      BY DEF Untold
<1>2. /\ a \o b \in Seq(Ops) /\ Len(a \o b) = Len(a) + Len(b)
      /\ \A j \in 1..Len(a) : (a \o b)[j] = a[j]
      /\ \A j \in (Len(a)+1)..(Len(a)+Len(b)) : (a \o b)[j] = b[j - Len(a)]
      OBVIOUS
<1>3. \A j \in (Len(a)+1)..(Len(a)+Len(b)) : (a \o b)[j] # "command"
      BY <1>2 DEF Told
<1>4. /\ i \in 1..Len(a \o b) /\ (a \o b)[i] = "command"
      /\ \A j \in 1..(i-1) : (a \o b)[j] \in {"fetch", "ceiling"}
      /\ \A j \in (i+1)..Len(a \o b) : (a \o b)[j] # "command"
      BY <1>1, <1>2, <1>3
<1> QED BY <1>2, <1>4 DEF Untold

LEMMA WhenTold ==
    ASSUME NEW b \in BOOLEAN, NEW x \in Seq(Ops), Told(x)
    PROVE  When(b, x) \in Seq(Ops) /\ Told(When(b, x))
<1>1. CASE b BY <1>1 DEF When
<1>2. CASE ~b
  <2>1. When(b, x) = <<>> BY <1>2 DEF When
  <2>2. <<>> \in Seq(Ops) /\ Told(<<>>) BY DEF Told
  <2> QED BY <2>1, <2>2
<1> QED BY <1>1, <1>2

\* The leader's own calls, and then the broadcast.
LEMMA FirstUntold ==
    ASSUME NEW x \in Seq(Ops), \A i \in 1..Len(x) : x[i] \in {"fetch", "ceiling"}
    PROVE  x \o <<"command">> \in Seq(Ops) /\ Untold(x \o <<"command">>)
<1> DEFINE s == x \o <<"command">>
<1>1. <<"command">> \in Seq(Ops) /\ Len(<<"command">>) = 1 /\ <<"command">>[1] = "command"
      BY DEF Ops, Collectives
<1>2. /\ s \in Seq(Ops) /\ Len(s) = Len(x) + 1
      /\ \A j \in 1..Len(x) : s[j] = x[j]
      /\ s[Len(x) + 1] = "command"
      BY <1>1
<1> QED BY <1>2 DEF Untold

\* Every tuple of calls a command is strung together from.
LEMMA Pieces ==
    ASSUME NEW b \in BOOLEAN
    PROVE  /\ Phase \in Seq(Ops) /\ Told(Phase)
           /\ When(b, Validate) \in Seq(Ops) /\ Told(When(b, Validate))
           /\ When(b, <<"scatter">>) \in Seq(Ops) /\ Told(When(b, <<"scatter">>))
           /\ When(b, <<"apply">>) \in Seq(Ops) /\ Told(When(b, <<"apply">>))
           /\ When(b, <<"fetch">>) \o <<"command">> \in Seq(Ops)
           /\ Untold(When(b, <<"fetch">>) \o <<"command">>)
<1>1. Phase \in Seq(Ops) /\ Told(Phase)
      BY DEF Phase, Told, Ops, Collectives
<1>2. Validate \in Seq(Ops) /\ Told(Validate)
      BY DEF Validate, Told, Ops, Collectives
<1>3. <<"scatter">> \in Seq(Ops) /\ Told(<<"scatter">>)
      BY DEF Told, Ops, Collectives
<1>4. <<"apply">> \in Seq(Ops) /\ Told(<<"apply">>)
      BY DEF Told, Ops, Collectives
<1>5. /\ When(b, <<"fetch">>) \in Seq(Ops)
      /\ \A i \in 1..Len(When(b, <<"fetch">>)) : When(b, <<"fetch">>)[i] = "fetch"
  <2>1. CASE b BY <2>1 DEF When, Ops, LocalCalls
  <2>2. CASE ~b
    <3>1. When(b, <<"fetch">>) = <<>> BY <2>2 DEF When
    <3> QED BY <3>1
  <2> QED BY <2>1, <2>2
<1> QED BY <1>1, <1>2, <1>3, <1>4, <1>5, WhenTold, FirstUntold

-----------------------------------------------------------------------------
(* The leader's script for every command tells its workers once.           *)

LEMMA FitBlobUntold ==
    ASSUME NEW o \in Tuple
    PROVE  FitBlob(o) \in Seq(Ops) /\ Untold(FitBlob(o))
<1> o.eval \in BOOLEAN BY DEF Tuple
<1> DEFINE told == When(~o.writeFull, <<"fetch">>) \o <<"command">>
           load == IF o.writeFull THEN <<"write", "put_init">> ELSE <<"apply">>
           tail == <<"gather", "close_delta">>
           sent == <<"put_delta", "report">>
<1>1. told \in Seq(Ops) /\ Untold(told)
  <2>1. (~o.writeFull) \in BOOLEAN OBVIOUS
  <2> QED BY <2>1, Pieces
<1>2. load \in Seq(Ops) /\ Told(load)
  <2>1. <<"apply">> \in Seq(Ops) /\ Told(<<"apply">>)
        BY DEF Told, Ops, Collectives
  <2>2. <<"write", "put_init">> \in Seq(Ops) /\ Told(<<"write", "put_init">>)
        BY DEF Told, Ops, Collectives, LocalCalls
  <2> QED BY <2>1, <2>2
<1>3. tail \in Seq(Ops) /\ Told(tail)
      BY DEF Told, Ops, Collectives, LocalCalls
<1>4. sent \in Seq(Ops) /\ Told(sent)
      BY DEF Told, Ops, Collectives, LocalCalls
<1>5. FitBlob(o) = told \o load \o Phase \o tail \o When(o.eval, Validate) \o sent
      BY DEF FitBlob
<1> HIDE DEF told, load, tail, sent
<1>6. told \o load \in Seq(Ops) /\ Untold(told \o load)
      BY <1>1, <1>2, UntoldConcat
<1>7. told \o load \o Phase \in Seq(Ops) /\ Untold(told \o load \o Phase)
      BY <1>6, UntoldConcat, Pieces
<1>8. /\ told \o load \o Phase \o tail \in Seq(Ops)
      /\ Untold(told \o load \o Phase \o tail)
      BY <1>7, <1>3, UntoldConcat
<1>9. /\ told \o load \o Phase \o tail \o When(o.eval, Validate) \in Seq(Ops)
      /\ Untold(told \o load \o Phase \o tail \o When(o.eval, Validate))
      BY <1>8, UntoldConcat, Pieces
<1> QED BY <1>4, <1>5, <1>9, UntoldConcat

LEMMA FitInlineUntold ==
    ASSUME NEW o \in Tuple
    PROVE  FitInline(o) \in Seq(Ops) /\ Untold(FitInline(o))
<1> o.params \in BOOLEAN /\ o.eval \in BOOLEAN BY DEF Tuple
<1> DEFINE told == <<"ceiling", "command">>
           tail == <<"gather", "subtract">>
           sent == <<"report">>
<1>1. told \in Seq(Ops) /\ Untold(told)
      BY DEF Untold, Ops, Collectives, LocalCalls
<1>2. tail \in Seq(Ops) /\ Told(tail)
      BY DEF Told, Ops, Collectives, LocalCalls
<1>3. sent \in Seq(Ops) /\ Told(sent)
      BY DEF Told, Ops, Collectives, LocalCalls
<1>4. FitInline(o) = told \o When(o.params, <<"scatter">>) \o Phase \o tail
                       \o When(o.eval, Validate) \o sent
      BY DEF FitInline
<1> HIDE DEF told, tail, sent
<1>5. /\ told \o When(o.params, <<"scatter">>) \in Seq(Ops)
      /\ Untold(told \o When(o.params, <<"scatter">>))
      BY <1>1, UntoldConcat, Pieces
<1>6. /\ told \o When(o.params, <<"scatter">>) \o Phase \in Seq(Ops)
      /\ Untold(told \o When(o.params, <<"scatter">>) \o Phase)
      BY <1>5, UntoldConcat, Pieces
<1>7. /\ told \o When(o.params, <<"scatter">>) \o Phase \o tail \in Seq(Ops)
      /\ Untold(told \o When(o.params, <<"scatter">>) \o Phase \o tail)
      BY <1>2, <1>6, UntoldConcat
<1>8. /\ told \o When(o.params, <<"scatter">>) \o Phase \o tail
           \o When(o.eval, Validate) \in Seq(Ops)
      /\ Untold(told \o When(o.params, <<"scatter">>) \o Phase \o tail
                  \o When(o.eval, Validate))
      BY <1>7, UntoldConcat, Pieces
<1> QED BY <1>3, <1>4, <1>8, UntoldConcat

LEMMA EvaluateUntold ==
    ASSUME NEW o \in Tuple
    PROVE  Evaluate(o) \in Seq(Ops) /\ Untold(Evaluate(o))
<1> o.params \in BOOLEAN /\ o.reference \in BOOLEAN BY DEF Tuple
<1> DEFINE told == When(o.reference, <<"fetch">>) \o <<"command">>
           sent == <<"report">>
<1>1. told \in Seq(Ops) /\ Untold(told) BY Pieces
<1>2. sent \in Seq(Ops) /\ Told(sent)
      BY DEF Told, Ops, Collectives, LocalCalls
<1>3. Validate \in Seq(Ops) /\ Told(Validate)
      BY DEF Validate, Told, Ops, Collectives
<1>4. Evaluate(o) = told \o When(o.reference, <<"apply">>)
                      \o When(o.params, <<"scatter">>) \o Validate \o sent
      BY DEF Evaluate
<1> HIDE DEF told, sent
<1>5. /\ told \o When(o.reference, <<"apply">>) \in Seq(Ops)
      /\ Untold(told \o When(o.reference, <<"apply">>))
      BY <1>1, UntoldConcat, Pieces
<1>6. /\ told \o When(o.reference, <<"apply">>) \o When(o.params, <<"scatter">>)
           \in Seq(Ops)
      /\ Untold(told \o When(o.reference, <<"apply">>)
                  \o When(o.params, <<"scatter">>))
      BY <1>5, UntoldConcat, Pieces
<1>7. /\ told \o When(o.reference, <<"apply">>) \o When(o.params, <<"scatter">>)
           \o Validate \in Seq(Ops)
      /\ Untold(told \o When(o.reference, <<"apply">>)
                  \o When(o.params, <<"scatter">>) \o Validate)
      BY <1>3, <1>6, UntoldConcat
<1> QED BY <1>2, <1>4, <1>7, UntoldConcat

LEMMA OtherScripts ==
    /\ GetParameters \in Seq(Ops) /\ Untold(GetParameters)
    /\ Mismatch \in Seq(Ops) /\ Told(Mismatch)
    /\ <<"command">> \in Seq(Ops)
<1>1. GetParameters \in Seq(Ops)
      BY DEF GetParameters, Ops, Collectives, LocalCalls
<1>2. Untold(GetParameters)
      BY DEF GetParameters, Untold
<1>3. Mismatch \in Seq(Ops) /\ Told(Mismatch)
      BY DEF Mismatch, Told, Ops
<1>4. <<"command">> \in Seq(Ops)
      BY DEF Ops, Collectives
<1> QED BY <1>1, <1>2, <1>3, <1>4

LEMMA MirroredTyped ==
    ASSUME NEW o \in Tuple
    PROVE  Mirrored(o) \o <<"command">> \in Seq(Ops)
<1> /\ o.params \in BOOLEAN /\ o.eval \in BOOLEAN /\ o.reference \in BOOLEAN
    /\ o.gatherOnly \in BOOLEAN /\ o.writeFull \in BOOLEAN
    BY DEF Tuple
<1>1. /\ <<"gather">> \in Seq(Ops) /\ <<"write">> \in Seq(Ops)
      /\ <<"apply">> \in Seq(Ops) /\ <<"command">> \in Seq(Ops)
      /\ Validate \in Seq(Ops)
      BY DEF Ops, Collectives, Validate
<1>2. /\ Phase \in Seq(Ops) /\ When(o.eval, Validate) \in Seq(Ops)
      /\ When(o.params, <<"scatter">>) \in Seq(Ops)
      BY Pieces
<1> DEFINE load == IF o.reference
                   THEN IF o.writeFull THEN <<"write">> ELSE <<"apply">>
                   ELSE When(o.params, <<"scatter">>)
           base == IF o.reference THEN <<"apply">> ELSE When(o.params, <<"scatter">>)
<1>3. load \in Seq(Ops) /\ base \in Seq(Ops) BY <1>1, <1>2
<1>4. Mirrored(o) = IF o.command = "fit"
                    THEN IF o.gatherOnly THEN <<"gather">>
                         ELSE load \o Phase \o <<"gather">> \o When(o.eval, Validate)
                    ELSE base \o Validate
      BY DEF Mirrored
<1> HIDE DEF load, base
<1>5. /\ load \o Phase \o <<"gather">> \o When(o.eval, Validate) \in Seq(Ops)
      /\ base \o Validate \in Seq(Ops)
      BY <1>1, <1>2, <1>3
<1>6. Mirrored(o) \in Seq(Ops) BY <1>1, <1>4, <1>5
<1> QED BY <1>1, <1>6

-----------------------------------------------------------------------------
(* The type invariant.                                                     *)

LEMMA OrderTyped ==
    ASSUME NEW c \in {"none", "fit", "evaluate", "stop"}
    PROVE  /\ Order(c) \in Tuple /\ Order(c).command = c
           /\ Order(c).step = Unsent /\ Order(c).inner = Unsent
           /\ [Order(c) EXCEPT !.gatherOnly = TRUE] \in Tuple
           /\ [Order(c) EXCEPT !.gatherOnly = TRUE].command = c
           /\ [Order(c) EXCEPT !.gatherOnly = TRUE].step = Unsent
           /\ [Order(c) EXCEPT !.gatherOnly = TRUE].inner = Unsent
BY DEF Order, Tuple, Unsent

LEMMA InitInv == Init => Inv
<1> SUFFICES ASSUME Init PROVE Inv OBVIOUS
<1> USE RanksAssumption DEF RanksAssumption
<1>1. PICK t \in {"blob", "inline"}, b \in BOOLEAN : Start(t, b) BY DEF Init
<1>2. (t = "inline") \in BOOLEAN OBVIOUS
<1> DEFINE first == When(t = "inline", <<"gather">>)
           last(r) == IF r = Leader THEN <<"construct">> ELSE <<"command">>
<1>3. <<"gather">> \in Seq(Ops) /\ Told(<<"gather">>)
      BY DEF Ops, Collectives, Told
<1>4. first \in Seq(Ops) /\ Told(first) BY <1>2, <1>3, WhenTold
<1>5. /\ <<"construct">> \in Seq(Ops) /\ <<"command">> \in Seq(Ops)
      /\ \A r \in Ranks : last(r) \in Seq(Ops)
  <2>1. <<"construct">> \in Seq(Ops) BY DEF Ops, LocalCalls
  <2>2. <<"command">> \in Seq(Ops) BY DEF Ops, Collectives
  <2> QED BY <2>1, <2>2
<1>6. Told(<<"construct">>) /\ last(Leader) = <<"construct">>
      BY DEF Told
<1>7. Leader \in Ranks BY DEF Ranks
<1> HIDE DEF first, last
<1>8. script = [r \in Ranks |-> first \o last(r)] BY <1>1 DEF Start, first, last
<1>9. script \in [Ranks -> Seq(Ops)] BY <1>4, <1>5, <1>8
<1>10. Told(script[Leader]) BY <1>4, <1>5, <1>6, <1>7, <1>8, ToldConcat
<1>11. TypeOK
  <2>1. box \in Tuple BY <1>1 DEF Start, NoOrder, Order, Tuple, Unsent
  <2> QED BY <1>1, <1>9, <2>1 DEF Start, TypeOK
<1>12. InStep BY <1>1, <1>10 DEF Start, InStep, Agree, NoOrder, Order, Ranks
<1> QED BY <1>11, <1>12 DEF Inv

-----------------------------------------------------------------------------
(* Every step keeps the invariant.                                         *)

LEMMA LeaderIn == Leader \in Ranks /\ Workers \subseteq Ranks /\ Leader \notin Workers
BY RanksAssumption DEF RanksAssumption, Ranks

\* The leader takes on a command: it is ahead by what the tuple announces.
LEMMA ServeInv == Inv /\ Serve => Inv'
<1> SUFFICES ASSUME Inv, Serve PROVE Inv' OBVIOUS
<1> USE LeaderIn
<1>1. /\ gone = {} /\ box.command # "stop"
      /\ script[Leader] = <<>> /\ Agree
  <2>1. gone = {} BY DEF Inv, TypeOK, Serve
  <2>2. script[Leader] \in Seq(Ops) BY DEF Inv, TypeOK
  <2>3. "idle" \notin Ops BY DEF Ops, Collectives, LocalCalls
  <2>4. script[Leader] = <<>> BY <2>2, <2>3 DEF Serve, At
  <2>5. <<"command">> # <<>> /\ ~Untold(<<>>) BY DEF Untold
  <2> QED BY <2>1, <2>4, <2>5 DEF Inv, InStep
<1>2. /\ gone' = {} /\ left' = left /\ job' = job /\ lost' = lost
      /\ served' \in 0..MaxCommands
      BY <1>1, RanksAssumption DEF Serve, Inv, TypeOK, RanksAssumption
<1>3. CASE \E o \in FitOrders : ServeFit(o)
  <2>1. PICK o \in FitOrders : ServeFit(o) BY <1>3
  <2>2. /\ o \in Tuple /\ o.command = "fit" /\ o.step \in 0..TrainingSteps
        /\ o.inner \in {Unsent} \cup 1..MaxInner
        BY DEF FitOrders, Tuple
  <2> DEFINE ops == IF job.transport = "blob" THEN FitBlob(o) ELSE FitInline(o)
  <2>3. ops \in Seq(Ops) /\ Untold(ops) BY <2>2, FitBlobUntold, FitInlineUntold
  <2>4. /\ script' = [script EXCEPT ![Leader] = ops]
        /\ inner' = [inner EXCEPT ![Leader] = IF o.inner > 0 THEN o.inner ELSE @]
        /\ step' = [step EXCEPT ![Leader] = o.step]
        /\ box' = o
        BY <2>1 DEF ServeFit
  <2> HIDE DEF ops
  <2>5. script' \in [Ranks -> Seq(Ops)] /\ script'[Leader] = ops
        BY <2>3, <2>4 DEF Inv, TypeOK
  <2>6. /\ step' \in [Ranks -> 0..TrainingSteps] /\ inner' \in [Ranks -> Nat \ {0}]
        BY <2>2, <2>4 DEF Inv, TypeOK, Unsent
  <2>7. TypeOK' BY <1>1, <1>2, <2>2, <2>4, <2>5, <2>6 DEF Inv, TypeOK
  <2>8. Announced'
        BY <1>1, <2>2, <2>4 DEF Inv, TypeOK, Announced, Agree, Unsent
  <2> QED BY <2>2, <2>3, <2>4, <2>5, <2>7, <2>8 DEF Inv, InStep
<1>4. ASSUME NEW ops \in Seq(Ops), NEW o \in Tuple, ServeOther(ops, o),
             o.command # "stop", o.step = Unsent, o.inner = Unsent,
             Untold(ops) \/ Told(ops)
      PROVE  Inv'
  <2>1. /\ script' = [script EXCEPT ![Leader] = ops] /\ box' = o
        /\ inner' = inner /\ step' = step
        BY <1>4 DEF ServeOther
  <2>2. script' \in [Ranks -> Seq(Ops)] /\ script'[Leader] = ops
        BY <2>1 DEF Inv, TypeOK
  <2>3. TypeOK' BY <1>1, <1>2, <2>1, <2>2 DEF Inv, TypeOK
  <2>4. Agree' /\ Announced'
        BY <1>1, <1>2, <1>4, <2>1 DEF Agree, Announced, Unsent
  <2> QED BY <1>4, <2>1, <2>2, <2>3, <2>4 DEF Inv, InStep
<1>5. CASE \E o \in EvalOrders : ServeOther(Evaluate(o), o)
  <2>1. PICK o \in EvalOrders : ServeOther(Evaluate(o), o) BY <1>5
  <2>2. /\ o \in Tuple /\ o.command # "stop" /\ o.step = Unsent /\ o.inner = Unsent
        BY DEF EvalOrders
  <2> QED BY <1>4, <2>1, <2>2, EvaluateUntold
<1>6. CASE ServeOther(GetParameters, [Order("fit") EXCEPT !.gatherOnly = TRUE])
  <2> DEFINE o == [Order("fit") EXCEPT !.gatherOnly = TRUE]
  <2>1. /\ o \in Tuple /\ o.command # "stop" /\ o.step = Unsent /\ o.inner = Unsent
        BY OrderTyped
  <2> HIDE DEF o
  <2>2. ServeOther(GetParameters, o) BY <1>6 DEF o
  <2> QED BY <1>4, <2>1, <2>2, OtherScripts
<1>7. CASE ServeOther(Mismatch, NoOrder)
  <2>1. /\ NoOrder \in Tuple /\ NoOrder.command # "stop"
        /\ NoOrder.step = Unsent /\ NoOrder.inner = Unsent
        BY OrderTyped DEF NoOrder
  <2> QED BY <1>4, <1>7, <2>1, OtherScripts
<1> QED BY <1>3, <1>5, <1>6, <1>7 DEF Serve

\* The STOP of `finally`.
LEMMA StopInv ==
    ASSUME Inv, script' = Stopping, box' = Order("stop"),
           UNCHANGED <<job, left, inner, step, gone, served>>,
           lost' \in Ops \cup {"nothing", "late_ceiling"}
    PROVE  Inv'
<1>1. script' \in [Ranks -> Seq(Ops)] /\ script'[Leader] = <<"command">>
      BY LeaderIn, OtherScripts DEF Inv, TypeOK, Stopping
<1>2. box' \in Tuple /\ box'.command = "stop" BY OrderTyped
<1> QED BY <1>1, <1>2 DEF Inv, TypeOK, InStep

\* A rank drops the head of its script, other than a broadcast.
LEMMA AdvanceInv ==
    ASSUME Inv, NEW R \in SUBSET Ranks,
           \A r \in R : script[r] # <<>> /\ Head(script[r]) # "command",
           script' = [r \in Ranks |-> IF r \in R THEN Tail(script[r]) ELSE script[r]],
           UNCHANGED <<job, left, inner, step, box, gone, lost, served>>
    PROVE  Inv'
<1> USE LeaderIn
<1>1. \A r \in Ranks : script[r] \in Seq(Ops) BY DEF Inv, TypeOK
<1>2. script' \in [Ranks -> Seq(Ops)] BY <1>1
<1>3. TypeOK' BY <1>2 DEF Inv, TypeOK
<1>4. Told(script[Leader]) => Told(script'[Leader])
      BY <1>1, ToldTail
<1>5. Untold(script[Leader]) => Untold(script'[Leader])
      BY <1>1, UntoldTail
<1>6. script[Leader] = <<"command">> => script'[Leader] = <<"command">>
      OBVIOUS
<1>7. (Agree => Agree') /\ (Announced => Announced')
      BY DEF Agree, Announced
<1> QED BY <1>3, <1>4, <1>5, <1>6, <1>7 DEF Inv, InStep

\* The broadcast makes the ranks agree, or ends the run.
LEMMA CommandInv == Inv /\ Command => Inv'
<1> SUFFICES ASSUME Inv, Command PROVE Inv' OBVIOUS
<1> USE LeaderIn
<1>1. /\ gone = {} /\ \A r \in Ranks : At(r) = "command"
      /\ job' = job /\ box' = box /\ lost' = lost /\ served' = served
      BY DEF Command, AllAt
<1>2. \A r \in Ranks : script[r] \in Seq(Ops) /\ script[r] # <<>>
                        /\ Head(script[r]) = "command"
      BY <1>1 DEF At, Inv, TypeOK
<1>3. CASE box.command = "stop"
  <2>1. /\ gone' = Ranks /\ script' = [r \in Ranks |-> <<>>]
        /\ inner' = inner /\ step' = step /\ left' = left
        BY <1>3 DEF Command
  <2>2. script' \in [Ranks -> Seq(Ops)] BY <2>1
  <2> QED BY <1>1, <2>1, <2>2 DEF Inv, TypeOK, InStep
<1>4. CASE box.command # "stop"
  <2>1. /\ script' = [r \in Ranks |->
              IF r = Leader THEN Advance(r) ELSE Mirrored(box) \o <<"command">>]
        /\ step' = [r \in Ranks |->
              IF r \in Workers /\ box.step >= 0 THEN box.step ELSE step[r]]
        /\ inner' = [r \in Ranks |->
              IF r \in Workers /\ box.inner > 0 THEN box.inner ELSE inner[r]]
        /\ left' = [r \in Ranks |-> inner'[r]]
        /\ gone' = gone
        BY <1>4 DEF Command
  <2>2. box \in Tuple BY DEF Inv, TypeOK
  <2>3. Untold(script[Leader]) /\ Announced
    <3>1. ~Told(script[Leader]) BY <1>2 DEF Told
    <3> QED BY <1>1, <1>4, <3>1 DEF Inv, InStep
  <2>4. Advance(Leader) \in Seq(Ops) /\ Told(Advance(Leader))
        BY <1>2, <2>3, BroadcastTells DEF Advance
  <2>5. Mirrored(box) \o <<"command">> \in Seq(Ops) BY <2>2, MirroredTyped
  <2>6. script' \in [Ranks -> Seq(Ops)] /\ Told(script'[Leader])
        BY <2>1, <2>4, <2>5
  <2>7. /\ box.step \in {Unsent} \cup 0..TrainingSteps
        /\ box.inner \in {Unsent} \cup 1..MaxInner
        BY <2>2 DEF Tuple
  <2>8. step' \in [Ranks -> 0..TrainingSteps]
        BY <2>1, <2>7 DEF Inv, TypeOK, Unsent
  <2>9. inner' \in [Ranks -> Nat \ {0}]
        BY <2>1, <2>7 DEF Inv, TypeOK, Unsent
  <2>10. left' \in [Ranks -> Nat] BY <2>1, <2>9
  <2>11. TypeOK' BY <1>1, <2>1, <2>6, <2>8, <2>9, <2>10 DEF Inv, TypeOK
  <2>12. Agree' BY <2>1, <2>3 DEF Agree, Announced
  <2> QED BY <1>1, <1>4, <2>6, <2>11, <2>12 DEF Inv, InStep
<1> QED BY <1>3, <1>4

\* A step is everybody's.
LEMMA TrainInv == Inv /\ TrainStep => Inv'
<1> SUFFICES ASSUME Inv, TrainStep PROVE Inv' OBVIOUS
<1> USE LeaderIn
<1>1. /\ gone = {} /\ At(Leader) = "train"
      /\ \A r \in Ranks : left[r] # 0 /\ step[r] < TrainingSteps
      /\ UNCHANGED <<job, script, inner, box, gone, lost, served>>
  <2>1. TrainingSteps \in Nat BY RanksAssumption DEF RanksAssumption
  <2> QED BY <2>1 DEF TrainStep, AllAt, PhaseOver, Inv, TypeOK
<1>2. script[Leader] \in Seq(Ops) /\ script[Leader] # <<>>
      /\ Head(script[Leader]) = "train"
      BY <1>1 DEF At, Inv, TypeOK
<1>3. box.command # "stop" /\ Told(script[Leader]) /\ Agree
  <2>1. Head(<<"command">>) = "command" OBVIOUS
  <2>2. ~Untold(script[Leader]) BY <1>2, UntoldHead
  <2> QED BY <1>1, <1>2, <2>1, <2>2 DEF Inv, InStep
<1>4. \/ /\ step' = [r \in Ranks |-> step[r] + 1]
         /\ left' = [r \in Ranks |-> left[r] - 1]
      \/ step' = step /\ left' = [r \in Ranks |-> 0]
      BY DEF TrainStep
<1>5. step' \in [Ranks -> 0..TrainingSteps] /\ left' \in [Ranks -> Nat]
  <2>1. TrainingSteps \in Nat BY RanksAssumption DEF RanksAssumption
  <2>2. \A r \in Ranks : /\ step[r] \in Nat /\ step[r] + 1 \in 0..TrainingSteps
                         /\ left[r] \in Nat /\ left[r] - 1 \in Nat
        BY <1>1, <2>1 DEF Inv, TypeOK
  <2>3. CASE /\ step' = [r \in Ranks |-> step[r] + 1]
             /\ left' = [r \in Ranks |-> left[r] - 1]
        BY <2>2, <2>3
  <2>4. CASE step' = step /\ left' = [r \in Ranks |-> 0]
        BY <2>4 DEF Inv, TypeOK
  <2> QED BY <1>4, <2>3, <2>4
<1>6. TypeOK' BY <1>1, <1>5 DEF Inv, TypeOK
<1>7. Agree' BY <1>1, <1>3, <1>4 DEF Agree
<1> QED BY <1>1, <1>3, <1>6, <1>7 DEF Inv, InStep

LEMMA NextInv == Inv /\ [Next]_vars => Inv'
<1> SUFFICES ASSUME Inv, [Next]_vars PROVE Inv' OBVIOUS
<1> USE LeaderIn
<1>1. \A r \in Ranks : At(r) # "idle" /\ At(r) # "command" =>
            script[r] # <<>> /\ Head(script[r]) # "command"
      BY DEF At
<1>2. script \in [Ranks -> Seq(Ops)] BY DEF Inv, TypeOK
<1>3. CASE Serve BY <1>3, ServeInv
<1>4. CASE Finished
  <2>1. lost \in Ops \cup {"nothing", "late_ceiling"} BY DEF Inv, TypeOK
  <2>2. /\ script' = Stopping /\ box' = Order("stop") /\ lost' = lost
        /\ UNCHANGED <<job, left, inner, step, gone, served>>
        BY <1>4 DEF Finished
  <2> QED BY <2>1, <2>2, StopInv
<1>5. CASE CallReturns
  <2>1. At(Leader) # "idle" /\ At(Leader) # "command"
        BY <1>5 DEF CallReturns, LocalCalls
  <2>2. script' = [r \in Ranks |-> IF r \in {Leader} THEN Tail(script[r]) ELSE script[r]]
        BY <1>2, <1>5 DEF CallReturns, Advance
  <2>3. /\ {Leader} \in SUBSET Ranks
        /\ \A r \in {Leader} : script[r] # <<>> /\ Head(script[r]) # "command"
        BY <1>1, <2>1
  <2>4. UNCHANGED <<job, left, inner, step, box, gone, lost, served>>
        BY <1>5 DEF CallReturns
  <2> QED BY <2>2, <2>3, <2>4, AdvanceInv
<1>6. CASE CallRaises
  <2>1. At(Leader) \in Ops
        BY <1>6 DEF CallRaises, Refused, Ops, LocalCalls, Collectives
  <2> QED BY <1>6, <2>1, StopInv DEF CallRaises
<1>7. CASE Command BY <1>7, CommandInv
<1>8. CASE TrainStep BY <1>8, TrainInv
<1>9. CASE Together
  <2>1. \A r \in Ranks : At(r) # "idle" /\ At(r) # "command"
        BY <1>9 DEF Together, AllAt, Collectives
  <2>2. script' = [r \in Ranks |-> IF r \in Ranks THEN Tail(script[r]) ELSE script[r]]
        BY <1>9 DEF Together, Advance
  <2>3. UNCHANGED <<job, left, inner, step, box, gone, lost, served>>
        BY <1>9 DEF Together
  <2> QED BY <1>1, <2>1, <2>2, <2>3, AdvanceInv
<1>10. CASE \E r \in Ranks : EndOfPhase(r)
  <2>1. PICK p \in Ranks : EndOfPhase(p) BY <1>10
  <2>2. At(p) # "idle" /\ At(p) # "command" BY <2>1 DEF EndOfPhase
  <2>3. script' = [r \in Ranks |-> IF r \in {p} THEN Tail(script[r]) ELSE script[r]]
        BY <1>2, <2>1 DEF EndOfPhase, Advance
  <2>4. /\ {p} \in SUBSET Ranks
        /\ \A r \in {p} : script[r] # <<>> /\ Head(script[r]) # "command"
        BY <1>1, <2>2
  <2>5. UNCHANGED <<job, left, inner, step, box, gone, lost, served>>
        BY <2>1 DEF EndOfPhase
  <2> QED BY <2>3, <2>4, <2>5, AdvanceInv
<1>11. CASE UNCHANGED vars
  <2>1. UNCHANGED <<job, script, left, inner, step, box, gone, lost, served>>
        BY <1>11 DEF vars
  <2> QED BY <2>1 DEF Inv, TypeOK, InStep, Agree, Announced
<1> QED BY <1>3, <1>4, <1>5, <1>6, <1>7, <1>8, <1>9, <1>10, <1>11 DEF Next

LEMMA InvOneSchedule == Inv => OneSchedule
<1> SUFFICES ASSUME Inv, AllAt("train")
             PROVE  \A r, q \in Ranks : step[r] = step[q] /\ left[r] = left[q]
    BY DEF OneSchedule
<1> USE LeaderIn
<1>1. gone = {} /\ At(Leader) = "train" BY DEF AllAt
<1>2. script[Leader] \in Seq(Ops) /\ Head(script[Leader]) = "train"
      BY <1>1 DEF At, Inv, TypeOK
<1>3. Head(<<"command">>) = "command" OBVIOUS
<1>4. Agree BY <1>1, <1>2, <1>3, UntoldHead DEF Inv, InStep
<1> QED BY <1>4 DEF Agree, Ranks

\* The invariant that carries both theorems, in every reachable state.
THEOREM RanksInvariance == Spec => []Inv
BY InitInv, NextInv, PTL DEF Spec

\* Scripts, counters and the command tuple keep their types, and the ranks
\* leave the command loop together.
THEOREM RanksTypeCorrect == Spec => []TypeOK
<1>1. Inv => TypeOK BY DEF Inv
<1> QED BY <1>1, RanksInvariance, PTL

\* Ranks that train together are at the same step with the same steps to go.
THEOREM OneScheduleHolds == Spec => []OneSchedule
BY InvOneSchedule, RanksInvariance, PTL

-----------------------------------------------------------------------------
(* Nobody is stranded.                                                     *)
(*                                                                         *)
(* Types and counters do not say that the two sides of a command, built in *)
(* two places, are the same sequence of collectives.  They are at first,   *)
(* and stay so but for a rank that has left its loop of training steps     *)
(* before the others have: it then waits at the totals for them.           *)

\* No rank leaves its loop for anything but the totals.
Paired(s) == \A i \in 1..Len(s) : s[i] = "train" => i < Len(s) /\ s[i+1] = "total"

\* w is what s has of collectives, in order: m is where each of them is in s.
Mirrors(s, w) ==
    /\ w \in Seq(Collectives)
    /\ Paired(s) /\ Paired(w)
    /\ \E m \in [1..Len(w) -> 1..Len(s)] :
          /\ \A i, j \in 1..Len(w) : i < j => m[i] < m[j]
          /\ \A i \in 1..Len(w) : w[i] = s[m[i]]
          /\ \A i \in 1..Len(s) : s[i] \in Collectives => \E j \in 1..Len(w) : m[j] = i

\* The leader's calls that only come when the workers have done their part.
Closers == {"construct", "put_delta", "report", "transport"}

\* What may follow the broadcast of o: after a closer, nothing that the workers
\* take part in, and a message's ceiling only where weights alone are asked for.
Closing(s, o) ==
    \A i \in 1..Len(s) :
        /\ s[i] # "fetch"
        /\ s[i] = "ceiling" => o.gatherOnly
        /\ s[i] \in Closers => \A j \in (i+1)..Len(s) : s[j] \notin Collectives

Follows(s, w, o) == s \in Seq(Ops) /\ Mirrors(s, w) /\ Closing(s, o)

\* No closer is among these.
Open(s) == \A i \in 1..Len(s) : s[i] \notin Closers

\* The broadcast is to come, and then a script that those follow who do w.
Pending(s, w, o) ==
    \E pre, post \in Seq(Ops) :
        /\ s = (pre \o <<"command">>) \o post
        /\ \A i \in 1..Len(pre) : pre[i] \in {"fetch", "ceiling"}
        /\ Follows(post, w, o)

\* A worker with w to do before its next broadcast, beside a leader with s: at
\* the same place, or, when their loops are over, still in its own or out of it.
Abreast(s, over, w, o) ==
    \/ Follows(s, w, o)
    \/ /\ over /\ Len(w) > 1 /\ w[1] = "train" /\ w[2] = "total"
       /\ Follows(s, Tail(w), o)
    \/ /\ over /\ Len(w) > 0 /\ w[1] = "total"
       /\ Follows(s, <<"train">> \o w, o)

Beside(r) ==
    \E w \in Seq(Collectives) :
        script[r] = w \o <<"command">> /\ Abreast(script[Leader], PhaseOver(r), w, box)

Waiting == \A r \in Workers : script[r] = <<"command">>

Lined ==
    gone = {} =>
        IF box.command = "stop"
        THEN lost \notin Unmirrored => Waiting
        ELSE /\ lost = "nothing"
             /\ \/ Told(script[Leader]) /\ (\A r \in Workers : Beside(r))
                \/ Pending(script[Leader], Mirrored(box), box) /\ Waiting

-----------------------------------------------------------------------------
(* Two scripts side by side.                                               *)

\* A call of the leader's own is in no worker's script.
LEMMA MirrorsCall ==
    ASSUME NEW s \in Seq(Ops), NEW w, Mirrors(s, w), s # <<>>, Head(s) \notin Collectives
    PROVE  Mirrors(Tail(s), w)
<1>1. PICK m \in [1..Len(w) -> 1..Len(s)] :
          /\ \A i, j \in 1..Len(w) : i < j => m[i] < m[j]
          /\ \A i \in 1..Len(w) : w[i] = s[m[i]]
          /\ \A i \in 1..Len(s) : s[i] \in Collectives => \E j \in 1..Len(w) : m[j] = i
      BY DEF Mirrors
<1>2. /\ Tail(s) \in Seq(Ops) /\ Len(Tail(s)) = Len(s) - 1 /\ Len(s) > 0
      /\ \A j \in 1..Len(Tail(s)) : Tail(s)[j] = s[j+1]
      /\ Head(s) = s[1]
      OBVIOUS
<1>3. w \in Seq(Collectives) /\ Paired(w) BY DEF Mirrors
<1>4. \A i \in 1..Len(w) : m[i] \in 2..Len(s)
  <2> TAKE i \in 1..Len(w)
  <2>1. w[i] \in Collectives /\ m[i] \in 1..Len(s) BY <1>3
  <2>2. m[i] # 1 BY <1>1, <1>2, <2>1
  <2> QED BY <2>1, <2>2
<1> DEFINE n == [i \in 1..Len(w) |-> m[i] - 1]
<1>5. n \in [1..Len(w) -> 1..Len(Tail(s))] BY <1>2, <1>4
<1>6. \A i, j \in 1..Len(w) : i < j => n[i] < n[j] BY <1>1, <1>4
<1>7. \A i \in 1..Len(w) : w[i] = Tail(s)[n[i]] BY <1>1, <1>2, <1>4
<1>8. \A i \in 1..Len(Tail(s)) : Tail(s)[i] \in Collectives => \E j \in 1..Len(w) : n[j] = i
  <2> SUFFICES ASSUME NEW i \in 1..Len(Tail(s)), Tail(s)[i] \in Collectives
               PROVE  \E j \in 1..Len(w) : n[j] = i
      OBVIOUS
  <2>1. i + 1 \in 1..Len(s) /\ s[i+1] \in Collectives BY <1>2
  <2>2. PICK j \in 1..Len(w) : m[j] = i + 1 BY <1>1, <2>1
  <2>3. n[j] = i BY <2>2
  <2> QED BY <2>3
<1>9. Paired(Tail(s))
  <2> SUFFICES ASSUME NEW i \in 1..Len(Tail(s)), Tail(s)[i] = "train"
               PROVE  i < Len(Tail(s)) /\ Tail(s)[i+1] = "total"
      BY DEF Paired
  <2>1. i + 1 \in 1..Len(s) /\ s[i+1] = "train" BY <1>2
  <2>2. i + 1 < Len(s) /\ s[i+2] = "total"
        BY <2>1 DEF Mirrors, Paired
  <2> QED BY <1>2, <2>2
<1> HIDE DEF n
<1> QED BY <1>3, <1>5, <1>6, <1>7, <1>8, <1>9 DEF Mirrors

\* A collective that the leader is at is the one its workers are at.
LEMMA MirrorsBoth ==
    ASSUME NEW s \in Seq(Ops), NEW w, Mirrors(s, w), s # <<>>, Head(s) \in Collectives
    PROVE  /\ Len(w) > 0 /\ w[1] = Head(s)
           /\ Mirrors(Tail(s), Tail(w))
<1>1. PICK m \in [1..Len(w) -> 1..Len(s)] :
          /\ \A i, j \in 1..Len(w) : i < j => m[i] < m[j]
          /\ \A i \in 1..Len(w) : w[i] = s[m[i]]
          /\ \A i \in 1..Len(s) : s[i] \in Collectives => \E j \in 1..Len(w) : m[j] = i
      BY DEF Mirrors
<1>2. /\ Tail(s) \in Seq(Ops) /\ Len(Tail(s)) = Len(s) - 1 /\ Len(s) > 0
      /\ \A j \in 1..Len(Tail(s)) : Tail(s)[j] = s[j+1]
      /\ Head(s) = s[1]
      OBVIOUS
<1>3. w \in Seq(Collectives) /\ Paired(w) /\ Len(w) \in Nat BY DEF Mirrors
<1>4. PICK k \in 1..Len(w) : m[k] = 1 BY <1>1, <1>2
<1>5. \A i \in 1..Len(w) : m[i] \in 1..Len(s) OBVIOUS
<1>6. Len(w) > 0 /\ k = 1
  <2>1. Len(w) > 0 /\ 1 \in 1..Len(w) BY <1>3, <1>4
  <2>2. 1 < k => m[1] < 1 BY <1>1, <1>4, <2>1
  <2>3. m[1] \in 1..Len(s) BY <1>5, <2>1
  <2> QED BY <2>1, <2>2, <2>3
<1>7. w[1] = Head(s) BY <1>1, <1>2, <1>4, <1>6
<1>8. /\ Tail(w) \in Seq(Collectives) /\ Len(Tail(w)) = Len(w) - 1
      /\ \A j \in 1..Len(Tail(w)) : Tail(w)[j] = w[j+1] /\ j + 1 \in 1..Len(w)
      BY <1>3, <1>6
<1> DEFINE n == [i \in 1..Len(Tail(w)) |-> m[i+1] - 1]
<1>9. \A i \in 1..Len(Tail(w)) : m[i+1] \in 2..Len(s)
  <2> TAKE i \in 1..Len(Tail(w))
  <2>1. i + 1 \in 1..Len(w) /\ 1 \in 1..Len(w) /\ 1 < i + 1 BY <1>8, <1>3
  <2>2. m[1] < m[i+1] /\ m[i+1] \in 1..Len(s) BY <1>1, <1>5, <2>1
  <2> QED BY <1>4, <1>6, <2>2
<1>10. n \in [1..Len(Tail(w)) -> 1..Len(Tail(s))] BY <1>2, <1>9
<1>11. \A i, j \in 1..Len(Tail(w)) : i < j => n[i] < n[j]
  <2> TAKE i, j \in 1..Len(Tail(w))
  <2>1. i + 1 \in 1..Len(w) /\ j + 1 \in 1..Len(w) BY <1>8
  <2>2. i < j => m[i+1] < m[j+1] BY <1>1, <2>1
  <2> QED BY <1>9, <2>2
<1>12. \A i \in 1..Len(Tail(w)) : Tail(w)[i] = Tail(s)[n[i]]
  <2> TAKE i \in 1..Len(Tail(w))
  <2>1. Tail(w)[i] = s[m[i+1]] BY <1>1, <1>8
  <2>2. n[i] \in 1..Len(Tail(s)) /\ n[i] + 1 = m[i+1] BY <1>9, <1>10
  <2> QED BY <1>2, <2>1, <2>2
<1>13. \A i \in 1..Len(Tail(s)) : Tail(s)[i] \in Collectives => \E j \in 1..Len(Tail(w)) : n[j] = i
  <2> SUFFICES ASSUME NEW i \in 1..Len(Tail(s)), Tail(s)[i] \in Collectives
               PROVE  \E j \in 1..Len(Tail(w)) : n[j] = i
      OBVIOUS
  <2>1. i + 1 \in 1..Len(s) /\ s[i+1] \in Collectives BY <1>2
  <2>2. PICK j \in 1..Len(w) : m[j] = i + 1 BY <1>1, <2>1
  <2>3. j # 1 BY <1>4, <1>6, <2>2
  <2>4. j - 1 \in 1..Len(Tail(w)) /\ (j - 1) + 1 = j BY <1>8, <1>3, <2>3
  <2>5. n[j-1] = i BY <2>2, <2>4
  <2> QED BY <2>4, <2>5
<1>14. Paired(Tail(s))
  <2> SUFFICES ASSUME NEW i \in 1..Len(Tail(s)), Tail(s)[i] = "train"
               PROVE  i < Len(Tail(s)) /\ Tail(s)[i+1] = "total"
      BY DEF Paired
  <2>1. i + 1 \in 1..Len(s) /\ s[i+1] = "train" BY <1>2
  <2>2. i + 1 < Len(s) /\ s[i+2] = "total"
        BY <2>1 DEF Mirrors, Paired
  <2> QED BY <1>2, <2>2
<1>15. Paired(Tail(w))
  <2> SUFFICES ASSUME NEW i \in 1..Len(Tail(w)), Tail(w)[i] = "train"
               PROVE  i < Len(Tail(w)) /\ Tail(w)[i+1] = "total"
      BY DEF Paired
  <2>1. i + 1 \in 1..Len(w) /\ w[i+1] = "train" BY <1>8
  <2>2. i + 1 < Len(w) /\ w[i+2] = "total"
        BY <1>3, <2>1 DEF Paired
  <2> QED BY <1>8, <1>3, <2>2
<1> HIDE DEF n
<1>16. Mirrors(Tail(s), Tail(w))
      BY <1>8, <1>10, <1>11, <1>12, <1>13, <1>14, <1>15 DEF Mirrors
<1> QED BY <1>6, <1>7, <1>16

\* A leader with nothing left for the workers has workers with nothing left.
LEMMA MirrorsNothing ==
    ASSUME NEW s, NEW w, Mirrors(s, w), \A i \in 1..Len(s) : s[i] \notin Collectives
    PROVE  w = <<>>
<1>1. PICK m \in [1..Len(w) -> 1..Len(s)] : \A i \in 1..Len(w) : w[i] = s[m[i]]
      BY DEF Mirrors
<1>2. w \in Seq(Collectives) BY DEF Mirrors
<1>3. \A i \in 1..Len(w) : FALSE
  <2> SUFFICES ASSUME NEW i \in 1..Len(w) PROVE FALSE OBVIOUS
  <2>1. w[i] \in Collectives /\ m[i] \in 1..Len(s) BY <1>2
  <2> QED BY <1>1, <2>1
<1>4. Len(w) \in Nat /\ Len(w) = 0
  <2>1. Len(w) \in Nat BY <1>2
  <2> QED BY <1>3, <2>1
<1> QED BY <1>2, <1>4

\* Where the elements of a concatenation come from.
LEMMA ConcatParts ==
    ASSUME NEW S, NEW a \in Seq(S), NEW b \in Seq(S)
    PROVE  /\ a \o b \in Seq(S) /\ Len(a \o b) = Len(a) + Len(b)
           /\ Len(a) \in Nat /\ Len(b) \in Nat
           /\ \A j \in 1..Len(a) : (a \o b)[j] = a[j]
           /\ \A j \in 1..Len(b) : (a \o b)[Len(a) + j] = b[j]
<1>1. /\ a \o b \in Seq(S) /\ Len(a \o b) = Len(a) + Len(b)
      /\ Len(a) \in Nat /\ Len(b) \in Nat
      OBVIOUS
<1>2. \A i \in 1..(Len(a) + Len(b)) :
          (a \o b)[i] = IF i <= Len(a) THEN a[i] ELSE b[i - Len(a)]
      OBVIOUS
<1>3. ASSUME NEW j \in 1..Len(b) PROVE (a \o b)[Len(a) + j] = b[j]
  <2>1. /\ Len(a) + j \in 1..(Len(a) + Len(b))
        /\ ~(Len(a) + j <= Len(a)) /\ (Len(a) + j) - Len(a) = j
        BY <1>1
  <2> QED BY <1>2, <2>1
<1> QED BY <1>1, <1>2, <1>3

LEMMA PairedConcat ==
    ASSUME NEW a \in Seq(Ops), NEW b \in Seq(Ops), Paired(a), Paired(b)
    PROVE  Paired(a \o b)
<1>1. /\ Len(a \o b) = Len(a) + Len(b) /\ Len(a) \in Nat /\ Len(b) \in Nat
      /\ \A j \in 1..Len(a) : (a \o b)[j] = a[j]
      /\ \A j \in 1..Len(b) : (a \o b)[Len(a) + j] = b[j]
      BY ConcatParts
<1> SUFFICES ASSUME NEW i \in 1..Len(a \o b), (a \o b)[i] = "train"
             PROVE  i < Len(a \o b) /\ (a \o b)[i+1] = "total"
    BY DEF Paired
<1>2. CASE i \in 1..Len(a)
  <2>1. i < Len(a) /\ a[i+1] = "total" BY <1>1, <1>2 DEF Paired
  <2>2. i + 1 \in 1..Len(a) BY <1>1, <1>2, <2>1
  <2> QED BY <1>1, <2>1, <2>2
<1>3. CASE i \notin 1..Len(a)
  <2> DEFINE k == i - Len(a)
  <2>1. k \in 1..Len(b) /\ Len(a) + k = i BY <1>1, <1>3
  <2>2. b[k] = "train" BY <1>1, <2>1
  <2>3. k < Len(b) /\ b[k+1] = "total" BY <2>1, <2>2 DEF Paired
  <2>4. k + 1 \in 1..Len(b) /\ Len(a) + (k + 1) = i + 1 BY <1>1, <2>1, <2>3
  <2>5. (a \o b)[Len(a) + (k + 1)] = "total" BY <1>1, <2>3, <2>4
  <2> HIDE DEF k
  <2> QED BY <1>1, <2>1, <2>3, <2>4, <2>5
<1> QED BY <1>2, <1>3

\* What mirrors its part mirrors the whole.
LEMMA MirrorsConcat ==
    ASSUME NEW a \in Seq(Ops), NEW b \in Seq(Ops), NEW x, NEW y, Mirrors(a, x), Mirrors(b, y)
    PROVE  Mirrors(a \o b, x \o y)
<1> DEFINE s == a \o b
           w == x \o y
           la == Len(a)
           lx == Len(x)
<1>1. PICK p \in [1..Len(x) -> 1..Len(a)] :
          /\ \A i, j \in 1..Len(x) : i < j => p[i] < p[j]
          /\ \A i \in 1..Len(x) : x[i] = a[p[i]]
          /\ \A i \in 1..Len(a) : a[i] \in Collectives => \E j \in 1..Len(x) : p[j] = i
      BY DEF Mirrors
<1>2. PICK q \in [1..Len(y) -> 1..Len(b)] :
          /\ \A i, j \in 1..Len(y) : i < j => q[i] < q[j]
          /\ \A i \in 1..Len(y) : y[i] = b[q[i]]
          /\ \A i \in 1..Len(b) : b[i] \in Collectives => \E j \in 1..Len(y) : q[j] = i
      BY DEF Mirrors
<1>3. x \in Seq(Collectives) /\ y \in Seq(Collectives) BY DEF Mirrors
<1>4. /\ s \in Seq(Ops) /\ Len(s) = la + Len(b) /\ la \in Nat /\ Len(b) \in Nat
      /\ \A j \in 1..la : s[j] = a[j]
      /\ \A j \in 1..Len(b) : s[la + j] = b[j]
      BY ConcatParts
<1>5. /\ w \in Seq(Collectives) /\ Len(w) = lx + Len(y) /\ lx \in Nat /\ Len(y) \in Nat
      /\ \A j \in 1..lx : w[j] = x[j]
      /\ \A j \in 1..Len(y) : w[lx + j] = y[j]
      BY <1>3, ConcatParts
<1> DEFINE m == [i \in 1..Len(w) |-> IF i <= lx THEN p[i] ELSE la + q[i - lx]]
<1>6. \A i \in 1..lx : p[i] \in 1..la OBVIOUS
<1>7. \A i \in 1..Len(y) : q[i] \in 1..Len(b) OBVIOUS
<1>8. \A i \in 1..Len(w) : \/ i \in 1..lx /\ m[i] = p[i] /\ m[i] \in 1..la
                           \/ /\ i - lx \in 1..Len(y) /\ i > lx
                              /\ m[i] = la + q[i - lx]
                              /\ m[i] \in (la+1)..(la + Len(b))
  <2> TAKE i \in 1..Len(w)
  <2>1. CASE i <= lx
    <3>1. i \in 1..lx /\ m[i] = p[i] BY <1>5, <2>1
    <3> QED BY <1>6, <3>1
  <2>2. CASE ~(i <= lx)
    <3>1. i - lx \in 1..Len(y) /\ i > lx BY <1>5, <2>2
    <3>2. m[i] = la + q[i - lx] BY <2>2
    <3>3. q[i - lx] \in 1..Len(b) BY <1>7, <3>1
    <3> HIDE DEF m, la, lx
    <3> QED BY <1>4, <3>1, <3>2, <3>3
  <2> QED BY <2>1, <2>2
<1>9. /\ \A i \in 1..lx : i \in 1..Len(w) /\ m[i] = p[i]
      /\ \A i \in 1..Len(y) : lx + i \in 1..Len(w) /\ m[lx + i] = la + q[i]
  <2>1. ASSUME NEW i \in 1..lx PROVE i \in 1..Len(w) /\ m[i] = p[i]
        BY <1>5
  <2>2. ASSUME NEW i \in 1..Len(y) PROVE lx + i \in 1..Len(w) /\ m[lx + i] = la + q[i]
    <3>1. lx + i \in 1..Len(w) /\ ~(lx + i <= lx) /\ (lx + i) - lx = i BY <1>5
    <3> QED BY <3>1
  <2> QED BY <2>1, <2>2
<1>10. m \in [1..Len(w) -> 1..Len(s)]
  <2>1. \A i \in 1..Len(w) : m[i] \in 1..Len(s)
    <3> HIDE DEF m, la, lx, s, w
    <3> QED BY <1>4, <1>8
  <2> QED BY <2>1
<1> HIDE DEF m, s, w, la, lx
<1>11. \A i, j \in 1..Len(w) : i < j => m[i] < m[j]
  <2> SUFFICES ASSUME NEW i \in 1..Len(w), NEW j \in 1..Len(w), i < j
               PROVE  m[i] < m[j]
      OBVIOUS
  <2>1. CASE i \in 1..lx /\ j \in 1..lx
    <3>1. p[i] < p[j] BY <1>1, <2>1 DEF lx
    <3> QED BY <1>9, <2>1, <3>1
  <2>2. CASE i \in 1..lx /\ j \notin 1..lx
    <3>1. m[i] \in 1..la BY <1>8, <1>5, <2>2
    <3>2. m[j] \in (la+1)..(la + Len(b)) BY <1>8, <2>2
    <3> QED BY <1>4, <3>1, <3>2
  <2>3. CASE i \notin 1..lx
    <3>1. /\ i - lx \in 1..Len(y) /\ m[i] = la + q[i - lx]
          /\ i > lx
          BY <1>8, <2>3
    <3>2. j \notin 1..lx BY <1>5, <3>1
    <3>3. j - lx \in 1..Len(y) /\ m[j] = la + q[j - lx] BY <1>8, <3>2
    <3>4. i - lx < j - lx BY <1>5
    <3>5. q[i - lx] < q[j - lx] BY <1>2, <3>1, <3>3, <3>4
    <3>6. q[i - lx] \in Nat /\ q[j - lx] \in Nat BY <1>7, <3>1, <3>3
    <3> QED BY <1>4, <3>1, <3>3, <3>5, <3>6
  <2> QED BY <2>1, <2>2, <2>3
<1>12. \A i \in 1..Len(w) : w[i] = s[m[i]]
  <2> TAKE i \in 1..Len(w)
  <2>1. CASE i \in 1..lx
    <3>1. m[i] = p[i] /\ p[i] \in 1..la BY <1>9, <1>6, <2>1
    <3>2. x[i] = a[p[i]] BY <1>1, <2>1 DEF lx
    <3> QED BY <1>4, <1>5, <2>1, <3>1, <3>2
  <2>2. CASE i \notin 1..lx
    <3> DEFINE k == i - lx
    <3>1. k \in 1..Len(y) /\ lx + k = i BY <1>8, <1>5, <2>2
    <3>2. m[i] = la + q[k] /\ q[k] \in 1..Len(b) BY <1>9, <1>7, <3>1
    <3>3. y[k] = b[q[k]] BY <1>2, <3>1
    <3> HIDE DEF k
    <3> QED BY <1>4, <1>5, <3>1, <3>2, <3>3
  <2> QED BY <2>1, <2>2
<1>13. \A i \in 1..Len(s) : s[i] \in Collectives => \E j \in 1..Len(w) : m[j] = i
  <2> SUFFICES ASSUME NEW i \in 1..Len(s), s[i] \in Collectives
               PROVE  \E j \in 1..Len(w) : m[j] = i
      OBVIOUS
  <2>1. CASE i \in 1..la
    <3>1. a[i] \in Collectives BY <1>4, <2>1
    <3>2. PICK j \in 1..Len(x) : p[j] = i BY <1>1, <2>1, <3>1 DEF la
    <3>3. j \in 1..Len(w) /\ m[j] = i BY <1>9, <3>2 DEF lx
    <3> QED BY <3>3
  <2>2. CASE i \notin 1..la
    <3> DEFINE k == i - la
    <3>1. k \in 1..Len(b) /\ la + k = i BY <1>4, <2>2
    <3>2. b[k] \in Collectives BY <1>4, <3>1
    <3>3. PICK j \in 1..Len(y) : q[j] = k BY <1>2, <3>1, <3>2
    <3>4. lx + j \in 1..Len(w) /\ m[lx + j] = i BY <1>9, <3>1, <3>3
    <3> QED BY <3>4
  <2> QED BY <2>1, <2>2
<1>14. Paired(s) BY PairedConcat DEF Mirrors, s
<1>15. Paired(w)
  <2>1. x \in Seq(Ops) /\ y \in Seq(Ops) BY <1>3 DEF Ops
  <2> QED BY <2>1, PairedConcat DEF Mirrors, w
<1>16. Mirrors(s, w) BY <1>5, <1>10, <1>11, <1>12, <1>13, <1>14, <1>15 DEF Mirrors
<1> QED BY <1>16 DEF s, w

LEMMA ClosingConcat ==
    ASSUME NEW a \in Seq(Ops), NEW b \in Seq(Ops), NEW o,
           Closing(a, o), Open(a), Closing(b, o)
    PROVE  Closing(a \o b, o)
<1> DEFINE s == a \o b
<1>1. /\ Len(s) = Len(a) + Len(b) /\ Len(a) \in Nat /\ Len(b) \in Nat
      /\ \A j \in 1..Len(a) : s[j] = a[j]
      /\ \A j \in 1..Len(b) : s[Len(a) + j] = b[j]
      BY ConcatParts
<1> HIDE DEF s
<1> SUFFICES ASSUME NEW i \in 1..Len(s)
             PROVE  /\ s[i] # "fetch"
                    /\ s[i] = "ceiling" => o.gatherOnly
                    /\ s[i] \in Closers => \A j \in (i+1)..Len(s) : s[j] \notin Collectives
    BY DEF Closing, s
<1>2. CASE i \in 1..Len(a) BY <1>1, <1>2 DEF Closing, Open
<1>3. CASE i \notin 1..Len(a)
  <2> DEFINE k == i - Len(a)
  <2>1. k \in 1..Len(b) /\ Len(a) + k = i BY <1>1, <1>3
  <2>2. s[i] = b[k] BY <1>1, <2>1
  <2>3. s[i] # "fetch" /\ (s[i] = "ceiling" => o.gatherOnly)
        BY <2>1, <2>2 DEF Closing
  <2>4. ASSUME s[i] \in Closers, NEW j \in (i+1)..Len(s) PROVE s[j] \notin Collectives
    <3>1. /\ j - Len(a) \in (k+1)..Len(b) /\ j - Len(a) \in 1..Len(b)
          /\ Len(a) + (j - Len(a)) = j
          BY <1>1, <2>1
    <3>2. b[j - Len(a)] \notin Collectives BY <2>1, <2>2, <2>4, <3>1 DEF Closing
    <3> QED BY <1>1, <3>1, <3>2
  <2> QED BY <2>3, <2>4
<1> QED BY <1>2, <1>3

\* Two parts, of which only the second closes.
LEMMA FollowsConcat ==
    ASSUME NEW a, NEW x, NEW b, NEW y, NEW o, Follows(a, x, o), Open(a), Follows(b, y, o)
    PROVE  Follows(a \o b, x \o y, o)
<1>1. a \in Seq(Ops) /\ b \in Seq(Ops) BY DEF Follows
<1>2. a \o b \in Seq(Ops) BY <1>1
<1> QED BY <1>1, <1>2, MirrorsConcat, ClosingConcat DEF Follows

LEMMA OpenConcat ==
    ASSUME NEW a \in Seq(Ops), NEW b \in Seq(Ops), Open(a), Open(b)
    PROVE  Open(a \o b)
BY DEF Open

-----------------------------------------------------------------------------
(* What the scripts are made of.                                           *)

\* Collectives that both sides run, word for word.
LEMMA FollowsSame ==
    ASSUME NEW x \in Seq(Collectives), Paired(x), NEW o
    PROVE  Follows(x, x, o) /\ Open(x)
<1>1. x \in Seq(Ops) BY DEF Ops
<1>2. \A i \in 1..Len(x) : x[i] \in Collectives OBVIOUS
<1> DEFINE m == [i \in 1..Len(x) |-> i]
<1>3. m \in [1..Len(x) -> 1..Len(x)] OBVIOUS
<1>4. /\ \A i, j \in 1..Len(x) : i < j => m[i] < m[j]
      /\ \A i \in 1..Len(x) : x[i] = x[m[i]]
      /\ \A i \in 1..Len(x) : x[i] \in Collectives => \E j \in 1..Len(x) : m[j] = i
      OBVIOUS
<1> HIDE DEF m
<1>5. Mirrors(x, x) BY <1>3, <1>4 DEF Mirrors
<1>6. Closing(x, o) /\ Open(x) BY <1>2 DEF Closing, Open, Closers, Collectives
<1> QED BY <1>1, <1>5, <1>6 DEF Follows

\* Calls of the leader's own.
LEMMA FollowsCalls ==
    ASSUME NEW x \in Seq((LocalCalls \cup {"transport"}) \ {"fetch", "ceiling"}), NEW o
    PROVE  Follows(x, <<>>, o)
<1>1. x \in Seq(Ops) BY DEF Ops
<1>2. \A i \in 1..Len(x) : /\ x[i] \notin Collectives /\ x[i] # "train"
                           /\ x[i] # "fetch" /\ x[i] # "ceiling"
      BY DEF LocalCalls, Collectives
<1> DEFINE m == [i \in 1..Len(<<>>) |-> i]
<1>3. /\ m \in [1..Len(<<>>) -> 1..Len(x)]
      /\ \A i, j \in 1..Len(<<>>) : i < j => m[i] < m[j]
      /\ \A i \in 1..Len(<<>>) : <<>>[i] = x[m[i]]
      /\ \A i \in 1..Len(x) : x[i] \in Collectives => \E j \in 1..Len(<<>>) : m[j] = i
      BY <1>2
<1> HIDE DEF m
<1>4. <<>> \in Seq(Collectives) /\ Paired(x) /\ Paired(<<>>) BY <1>2 DEF Paired
<1>5. Mirrors(x, <<>>) BY <1>3, <1>4 DEF Mirrors
<1>6. Closing(x, o) BY <1>2 DEF Closing
<1> QED BY <1>1, <1>5, <1>6 DEF Follows

LEMMA FollowsWhen ==
    ASSUME NEW b \in BOOLEAN, NEW x \in Seq(Collectives), Paired(x), NEW o
    PROVE  /\ Follows(When(b, x), When(b, x), o) /\ Open(When(b, x))
           /\ When(b, x) \in Seq(Collectives)
<1>1. CASE b BY <1>1, FollowsSame DEF When
<1>2. CASE ~b
  <2>1. When(b, x) = <<>> BY <1>2 DEF When
  <2>2. <<>> \in Seq(Collectives) /\ Paired(<<>>) BY DEF Paired
  <2> QED BY <2>1, <2>2, FollowsSame
<1> QED BY <1>1, <1>2

\* Every tuple of calls a command is strung together from.
LEMMA Parts ==
    ASSUME NEW b \in BOOLEAN, NEW o
    PROVE  /\ Follows(Phase, Phase, o) /\ Open(Phase)
           /\ Follows(Validate, Validate, o) /\ Open(Validate)
           /\ Follows(When(b, Validate), When(b, Validate), o) /\ Open(When(b, Validate))
           /\ Follows(When(b, <<"scatter">>), When(b, <<"scatter">>), o)
           /\ Open(When(b, <<"scatter">>))
           /\ Follows(When(b, <<"apply">>), When(b, <<"apply">>), o)
           /\ Open(When(b, <<"apply">>))
           /\ Follows(<<"gather">>, <<"gather">>, o) /\ Open(<<"gather">>)
           /\ Follows(<<"write">>, <<"write">>, o) /\ Open(<<"write">>)
           /\ Follows(<<"apply">>, <<"apply">>, o) /\ Open(<<"apply">>)
<1>1. /\ Phase \in Seq(Collectives) /\ Validate \in Seq(Collectives)
      /\ <<"scatter">> \in Seq(Collectives) /\ <<"apply">> \in Seq(Collectives)
      /\ <<"gather">> \in Seq(Collectives) /\ <<"write">> \in Seq(Collectives)
      BY DEF Phase, Validate, Collectives
<1>2. Paired(Phase) BY DEF Phase, Paired
<1>3. Paired(Validate) BY DEF Validate, Paired
<1>4. /\ Paired(<<"scatter">>) /\ Paired(<<"apply">>)
      /\ Paired(<<"gather">>) /\ Paired(<<"write">>)
      BY DEF Paired
<1> QED BY <1>1, <1>2, <1>3, <1>4, FollowsSame, FollowsWhen

LEMMA PairOf ==
    ASSUME NEW a, NEW b
    PROVE  <<a>> \o <<b>> = <<a, b>>
<1> DEFINE s == <<a>> \o <<b>>
           p == <<a, b>>
<1>1. <<a>> \in Seq({a, b}) /\ <<b>> \in Seq({a, b}) OBVIOUS
<1>2. /\ s \in Seq({a, b}) /\ Len(s) = Len(<<a>>) + Len(<<b>>)
      /\ \A i \in 1..(Len(<<a>>) + Len(<<b>>)) :
            s[i] = IF i <= Len(<<a>>) THEN <<a>>[i] ELSE <<b>>[i - Len(<<a>>)]
      BY <1>1, ConcatProperties
<1>3. Len(<<a>>) = 1 /\ Len(<<b>>) = 1 /\ <<a>>[1] = a /\ <<b>>[1] = b OBVIOUS
<1>4. p \in Seq({a, b}) /\ Len(p) = 2 /\ p[1] = a /\ p[2] = b OBVIOUS
<1>5. Len(s) = 2 /\ s[1] = a /\ s[2] = b
  <2> HIDE DEF s
  <2>1. 1 \in 1..(Len(<<a>>) + Len(<<b>>)) /\ 2 \in 1..(Len(<<a>>) + Len(<<b>>))
        BY <1>3
  <2>2. s[1] = <<a>>[1] BY <1>2, <1>3, <2>1
  <2>3. s[2] = <<b>>[2 - Len(<<a>>)] BY <1>2, <1>3, <2>1
  <2> QED BY <1>2, <1>3, <2>2, <2>3
<1> HIDE DEF s, p
<1>6. \A i \in 1..Len(s) : s[i] = p[i]
  <2> TAKE i \in 1..Len(s)
  <2>1. i = 1 \/ i = 2 BY <1>5
  <2> QED BY <1>4, <1>5, <2>1
<1>7. s = p BY <1>2, <1>4, <1>5, <1>6, SeqEqual
<1> QED BY <1>7 DEF s, p

\* A part with a call of the leader's own at its end.
LEMMA WithCall ==
    ASSUME NEW op \in {"gather", "write"}, NEW call \in {"close_delta", "subtract", "put_init"},
           NEW o
    PROVE  Follows(<<op, call>>, <<op>>, o) /\ Open(<<op, call>>)
<1>1. Follows(<<op>>, <<op>>, o) /\ Open(<<op>>) BY Parts
<1>2. <<call>> \in Seq((LocalCalls \cup {"transport"}) \ {"fetch", "ceiling"})
      BY DEF LocalCalls
<1>3. Follows(<<call>>, <<>>, o) BY <1>2, FollowsCalls
<1>4. Follows(<<op>> \o <<call>>, <<op>> \o <<>>, o) BY <1>1, <1>3, FollowsConcat
<1>5. <<op>> \o <<call>> = <<op, call>> /\ <<op>> \o <<>> = <<op>>
  <2>1. <<op>> \in Seq({op}) OBVIOUS
  <2>2. <<op>> \o <<>> = <<op>> BY <2>1, ConcatEmptySeq
  <2> QED BY <2>2, PairOf
<1>6. Open(<<op, call>>) BY DEF Open, Closers
<1> QED BY <1>4, <1>5, <1>6

\* The broadcast is to come and what follows it closes nothing yet.
Opening(s, w, o) ==
    \E pre, post \in Seq(Ops) :
        /\ s = (pre \o <<"command">>) \o post
        /\ \A i \in 1..Len(pre) : pre[i] \in {"fetch", "ceiling"}
        /\ Follows(post, w, o) /\ Open(post)

LEMMA CommandIn == <<"command">> \in Seq(Ops)
BY DEF Ops, Collectives

LEMMA OpeningConcat ==
    ASSUME NEW s, NEW x, NEW b, NEW y, NEW o, Opening(s, x, o), Follows(b, y, o)
    PROVE  Pending(s \o b, x \o y, o) /\ (Open(b) => Opening(s \o b, x \o y, o))
<1>1. PICK pre \in Seq(Ops), post \in Seq(Ops) :
        /\ s = (pre \o <<"command">>) \o post
        /\ \A i \in 1..Len(pre) : pre[i] \in {"fetch", "ceiling"}
        /\ Follows(post, x, o) /\ Open(post)
      BY DEF Opening
<1>2. b \in Seq(Ops) BY DEF Follows
<1>3. /\ pre \o <<"command">> \in Seq(Ops) /\ post \o b \in Seq(Ops)
      BY <1>2, CommandIn
<1>4. s \o b = (pre \o <<"command">>) \o (post \o b)
      BY <1>1, <1>2, <1>3, ConcatAssociative
<1>5. Follows(post \o b, x \o y, o) BY <1>1, FollowsConcat
<1>6. Open(b) => Open(post \o b) BY <1>1, <1>2, OpenConcat
<1> QED BY <1>1, <1>3, <1>4, <1>5, <1>6 DEF Pending, Opening

\* The leader's own calls, the broadcast, and the first part after it.
LEMMA OpeningFirst ==
    ASSUME NEW pre \in Seq(Ops), \A i \in 1..Len(pre) : pre[i] \in {"fetch", "ceiling"},
           NEW a, NEW x, NEW o, Follows(a, x, o), Open(a)
    PROVE  Opening((pre \o <<"command">>) \o a, x, o)
<1>1. a \in Seq(Ops) BY DEF Follows
<1> QED BY <1>1 DEF Opening

LEMMA FirstFetch ==
    ASSUME NEW b \in BOOLEAN
    PROVE  /\ When(b, <<"fetch">>) \in Seq(Ops)
           /\ \A i \in 1..Len(When(b, <<"fetch">>)) :
                 When(b, <<"fetch">>)[i] \in {"fetch", "ceiling"}
<1>1. CASE b BY <1>1 DEF When, Ops, LocalCalls
<1>2. CASE ~b
  <2>1. When(b, <<"fetch">>) = <<>> BY <1>2 DEF When
  <2> QED BY <2>1
<1> QED BY <1>1, <1>2

-----------------------------------------------------------------------------
(* What the workers mirror of each command is what the leader does.        *)

LEMMA FitBlobPending ==
    ASSUME NEW o \in Tuple, o.command = "fit", ~o.gatherOnly, o.reference
    PROVE  Pending(FitBlob(o), Mirrored(o), o)
<1> o.eval \in BOOLEAN /\ o.writeFull \in BOOLEAN BY DEF Tuple
<1> DEFINE pre == When(~o.writeFull, <<"fetch">>)
           load == IF o.writeFull THEN <<"write", "put_init">> ELSE <<"apply">>
           base == IF o.writeFull THEN <<"write">> ELSE <<"apply">>
           tail == <<"gather", "close_delta">>
           score == When(o.eval, Validate)
           sent == <<"put_delta", "report">>
<1>1. Follows(load, base, o) /\ Open(load) BY WithCall, Parts
<1>2. Follows(tail, <<"gather">>, o) /\ Open(tail) BY WithCall
<1>3. Follows(score, score, o) /\ Open(score) BY Parts
<1>4. Follows(sent, <<>>, o)
  <2>1. sent \in Seq((LocalCalls \cup {"transport"}) \ {"fetch", "ceiling"})
        BY DEF LocalCalls
  <2> QED BY <2>1, FollowsCalls
<1>5. /\ pre \in Seq(Ops)
      /\ \A i \in 1..Len(pre) : pre[i] \in {"fetch", "ceiling"}
  <2>1. (~o.writeFull) \in BOOLEAN OBVIOUS
  <2> QED BY <2>1, FirstFetch
<1>6. FitBlob(o) = (pre \o <<"command">>) \o load \o Phase \o tail \o score \o sent
      BY DEF FitBlob
<1>7. Mirrored(o) = base \o Phase \o <<"gather">> \o score
      BY DEF Mirrored
<1> HIDE DEF pre, load, base, tail, score, sent
<1>8. Opening((pre \o <<"command">>) \o load, base, o) BY <1>1, <1>5, OpeningFirst
<1>9. Opening((pre \o <<"command">>) \o load \o Phase, base \o Phase, o)
      BY <1>8, Parts, OpeningConcat
<1>10. Opening((pre \o <<"command">>) \o load \o Phase \o tail,
               base \o Phase \o <<"gather">>, o)
      BY <1>9, <1>2, OpeningConcat
<1>11. Opening((pre \o <<"command">>) \o load \o Phase \o tail \o score,
               base \o Phase \o <<"gather">> \o score, o)
      BY <1>10, <1>3, OpeningConcat
<1>12. Pending(FitBlob(o), Mirrored(o) \o <<>>, o)
      BY <1>4, <1>6, <1>7, <1>11, OpeningConcat
<1>13. Mirrored(o) \o <<>> = Mirrored(o)
  <2>1. /\ base \in Seq(Collectives) /\ score \in Seq(Collectives)
        /\ Phase \in Seq(Collectives) /\ <<"gather">> \in Seq(Collectives)
        BY <1>1, <1>3, Parts DEF Follows, Mirrors
  <2>2. Mirrored(o) \in Seq(Collectives) BY <1>7, <2>1
  <2> QED BY <2>2, ConcatEmptySeq
<1> QED BY <1>12, <1>13

LEMMA FitInlinePending ==
    ASSUME NEW o \in Tuple, o.command = "fit", ~o.gatherOnly, ~o.reference
    PROVE  Pending(FitInline(o), Mirrored(o), o)
<1> o.eval \in BOOLEAN /\ o.params \in BOOLEAN BY DEF Tuple
<1> DEFINE base == When(o.params, <<"scatter">>)
           tail == <<"gather", "subtract">>
           score == When(o.eval, Validate)
<1>1. Follows(base, base, o) /\ Open(base) BY Parts
<1>2. Follows(tail, <<"gather">>, o) /\ Open(tail) BY WithCall
<1>3. Follows(score, score, o) /\ Open(score) BY Parts
<1>4. Follows(<<"report">>, <<>>, o)
  <2>1. <<"report">> \in Seq((LocalCalls \cup {"transport"}) \ {"fetch", "ceiling"})
        BY DEF LocalCalls
  <2> QED BY <2>1, FollowsCalls
<1>5. /\ <<"ceiling">> \in Seq(Ops)
      /\ \A i \in 1..Len(<<"ceiling">>) : <<"ceiling">>[i] \in {"fetch", "ceiling"}
      /\ <<"ceiling">> \o <<"command">> = <<"ceiling", "command">>
      BY PairOf DEF Ops, LocalCalls
<1>6. FitInline(o) = <<"ceiling", "command">> \o base \o Phase \o tail \o score
                       \o <<"report">>
      BY DEF FitInline
<1>7. Mirrored(o) = base \o Phase \o <<"gather">> \o score
      BY DEF Mirrored
<1> HIDE DEF base, tail, score
<1>8. Opening(<<"ceiling", "command">> \o base, base, o)
  <2>1. Opening((<<"ceiling">> \o <<"command">>) \o base, base, o)
        BY <1>1, <1>5, OpeningFirst
  <2> QED BY <1>5, <2>1
<1>9. Opening(<<"ceiling", "command">> \o base \o Phase, base \o Phase, o)
      BY <1>8, Parts, OpeningConcat
<1>10. Opening(<<"ceiling", "command">> \o base \o Phase \o tail,
               base \o Phase \o <<"gather">>, o)
      BY <1>9, <1>2, OpeningConcat
<1>11. Opening(<<"ceiling", "command">> \o base \o Phase \o tail \o score,
               base \o Phase \o <<"gather">> \o score, o)
      BY <1>10, <1>3, OpeningConcat
<1>12. Pending(FitInline(o), Mirrored(o) \o <<>>, o)
      BY <1>4, <1>6, <1>7, <1>11, OpeningConcat
<1>13. Mirrored(o) \o <<>> = Mirrored(o)
  <2>1. /\ base \in Seq(Collectives) /\ score \in Seq(Collectives)
        /\ Phase \in Seq(Collectives) /\ <<"gather">> \in Seq(Collectives)
        BY <1>1, <1>3, Parts DEF Follows, Mirrors
  <2>2. Mirrored(o) \in Seq(Collectives) BY <1>7, <2>1
  <2> QED BY <2>2, ConcatEmptySeq
<1> QED BY <1>12, <1>13

LEMMA EvaluatePending ==
    ASSUME NEW o \in Tuple, o.command = "evaluate", o.reference => ~o.params
    PROVE  Pending(Evaluate(o), Mirrored(o), o)
<1> o.reference \in BOOLEAN /\ o.params \in BOOLEAN BY DEF Tuple
<1> DEFINE pre == When(o.reference, <<"fetch">>)
           load == When(o.reference, <<"apply">>)
           base == When(o.params, <<"scatter">>)
<1>1. Follows(load, load, o) /\ Open(load) BY Parts
<1>2. Follows(base, base, o) /\ Open(base) BY Parts
<1>3. Follows(Validate, Validate, o) /\ Open(Validate) BY Parts
<1>4. Follows(<<"report">>, <<>>, o)
  <2>1. <<"report">> \in Seq((LocalCalls \cup {"transport"}) \ {"fetch", "ceiling"})
        BY DEF LocalCalls
  <2> QED BY <2>1, FollowsCalls
<1>5. /\ pre \in Seq(Ops)
      /\ \A i \in 1..Len(pre) : pre[i] \in {"fetch", "ceiling"}
      BY FirstFetch
<1>6. Evaluate(o) = (pre \o <<"command">>) \o load \o base \o Validate \o <<"report">>
      BY DEF Evaluate
<1>7. /\ load \in Seq(Collectives) /\ base \in Seq(Collectives)
      /\ Validate \in Seq(Collectives)
      BY <1>1, <1>2, <1>3 DEF Follows, Mirrors
<1>8. Mirrored(o) = load \o base \o Validate
  <2>1. CASE o.reference
    <3>1. Mirrored(o) = <<"apply">> \o Validate BY <2>1 DEF Mirrored
    <3>2. load = <<"apply">> /\ base = <<>> BY <2>1 DEF When
    <3>3. load \o base = <<"apply">> BY <1>7, <3>2, ConcatEmptySeq
    <3> HIDE DEF load, base
    <3> QED BY <3>1, <3>3
  <2>2. CASE ~o.reference
    <3>1. Mirrored(o) = base \o Validate BY <2>2 DEF Mirrored
    <3>2. load = <<>> BY <2>2 DEF When
    <3>3. load \o base = base BY <1>7, <3>2, ConcatEmptySeq
    <3> HIDE DEF load, base
    <3> QED BY <3>1, <3>3
  <2> QED BY <2>1, <2>2
<1> HIDE DEF pre, load, base
<1>9. Opening((pre \o <<"command">>) \o load, load, o) BY <1>1, <1>5, OpeningFirst
<1>10. Opening((pre \o <<"command">>) \o load \o base, load \o base, o)
      BY <1>9, <1>2, OpeningConcat
<1>11. Opening((pre \o <<"command">>) \o load \o base \o Validate,
               load \o base \o Validate, o)
      BY <1>10, <1>3, OpeningConcat
<1>12. Pending(Evaluate(o), Mirrored(o) \o <<>>, o)
      BY <1>4, <1>6, <1>8, <1>11, OpeningConcat
<1>13. Mirrored(o) \o <<>> = Mirrored(o)
  <2>1. Mirrored(o) \in Seq(Collectives) BY <1>7, <1>8
  <2> QED BY <2>1, ConcatEmptySeq
<1> QED BY <1>12, <1>13

-----------------------------------------------------------------------------
(* One step of one script, or of both.                                     *)

LEMMA TailParts ==
    ASSUME NEW S, NEW s \in Seq(S), s # <<>>
    PROVE  /\ Tail(s) \in Seq(S) /\ Len(Tail(s)) = Len(s) - 1
           /\ Len(s) \in Nat /\ Len(s) > 0 /\ Head(s) = s[1] /\ Head(s) \in S
           /\ \A j \in 1..Len(Tail(s)) : Tail(s)[j] = s[j+1] /\ j + 1 \in 1..Len(s)
OBVIOUS

LEMMA HeadOfConcat ==
    ASSUME NEW S, NEW a \in Seq(S), a # <<>>, NEW b \in Seq(S)
    PROVE  a \o b # <<>> /\ Head(a \o b) = a[1] /\ Tail(a \o b) = Tail(a) \o b
OBVIOUS

LEMMA ClosingTail ==
    ASSUME NEW s \in Seq(Ops), s # <<>>, NEW o, Closing(s, o)
    PROVE  Closing(Tail(s), o)
<1>1. /\ Tail(s) \in Seq(Ops) /\ Len(Tail(s)) = Len(s) - 1 /\ Len(s) \in Nat
      /\ \A j \in 1..Len(Tail(s)) : Tail(s)[j] = s[j+1] /\ j + 1 \in 1..Len(s)
      BY TailParts
<1> SUFFICES ASSUME NEW i \in 1..Len(Tail(s))
             PROVE  /\ Tail(s)[i] # "fetch"
                    /\ Tail(s)[i] = "ceiling" => o.gatherOnly
                    /\ Tail(s)[i] \in Closers =>
                          \A j \in (i+1)..Len(Tail(s)) : Tail(s)[j] \notin Collectives
    BY DEF Closing
<1>2. /\ s[i+1] # "fetch" /\ (s[i+1] = "ceiling" => o.gatherOnly)
      /\ s[i+1] \in Closers => \A j \in ((i+1)+1)..Len(s) : s[j] \notin Collectives
      BY <1>1 DEF Closing
<1>3. ASSUME s[i+1] \in Closers, NEW j \in (i+1)..Len(Tail(s))
      PROVE  Tail(s)[j] \notin Collectives
  <2>1. j \in 1..Len(Tail(s)) /\ j + 1 \in ((i+1)+1)..Len(s) BY <1>1
  <2> QED BY <1>1, <1>2, <1>3, <2>1
<1> QED BY <1>1, <1>2, <1>3

LEMMA FollowsCall ==
    ASSUME NEW s, NEW w, NEW o, Follows(s, w, o), s # <<>>, Head(s) \notin Collectives
    PROVE  Follows(Tail(s), w, o)
<1>1. s \in Seq(Ops) /\ Tail(s) \in Seq(Ops) BY DEF Follows
<1> QED BY <1>1, MirrorsCall, ClosingTail DEF Follows

LEMMA FollowsBoth ==
    ASSUME NEW s, NEW w, NEW o, Follows(s, w, o), s # <<>>, Head(s) \in Collectives
    PROVE  Len(w) > 0 /\ w[1] = Head(s) /\ Follows(Tail(s), Tail(w), o)
<1>1. s \in Seq(Ops) /\ Tail(s) \in Seq(Ops) BY DEF Follows
<1> QED BY <1>1, MirrorsBoth, ClosingTail DEF Follows

LEMMA PendingCall ==
    ASSUME NEW s, NEW w, NEW o, Pending(s, w, o)
    PROVE  /\ s # <<>> /\ Head(s) \in {"fetch", "ceiling", "command"}
           /\ Head(s) = "command" => Follows(Tail(s), w, o)
           /\ Head(s) # "command" => Pending(Tail(s), w, o)
<1>1. PICK pre \in Seq(Ops), post \in Seq(Ops) :
        /\ s = (pre \o <<"command">>) \o post
        /\ \A i \in 1..Len(pre) : pre[i] \in {"fetch", "ceiling"}
        /\ Follows(post, w, o)
      BY DEF Pending
<1>2. <<"command">> \in Seq(Ops) /\ <<"command">> # <<>> /\ <<"command">>[1] = "command"
      BY CommandIn
<1>3. CASE pre = <<>>
  <2>1. s = <<"command">> \o post BY <1>1, <1>2, <1>3, ConcatEmptySeq
  <2>2. s # <<>> /\ Head(s) = "command" /\ Tail(s) = Tail(<<"command">>) \o post
        BY <1>2, <2>1, HeadOfConcat
  <2>3. Tail(<<"command">>) = <<>> OBVIOUS
  <2>4. Tail(s) = post BY <2>2, <2>3, ConcatEmptySeq
  <2> QED BY <1>1, <2>2, <2>4
<1>4. CASE pre # <<>>
  <2>1. pre \o <<"command">> \in Seq(Ops) BY <1>2
  <2>2. /\ pre \o <<"command">> # <<>> /\ Head(pre \o <<"command">>) = pre[1]
        /\ Tail(pre \o <<"command">>) = Tail(pre) \o <<"command">>
        BY <1>2, <1>4, HeadOfConcat
  <2>3. (pre \o <<"command">>)[1] = pre[1] BY <2>1, <2>2, TailParts
  <2>4. /\ s # <<>> /\ Head(s) = pre[1]
        /\ Tail(s) = (Tail(pre) \o <<"command">>) \o post
    <3> DEFINE first == pre \o <<"command">>
    <3>1. first \in Seq(Ops) /\ first # <<>> /\ s = first \o post BY <1>1, <2>1, <2>2
    <3> HIDE DEF first
    <3>2. s # <<>> /\ Head(s) = first[1] /\ Tail(s) = Tail(first) \o post
          BY <3>1, HeadOfConcat
    <3> USE DEF first
    <3> QED BY <3>2, <2>2, <2>3
  <2>5. /\ Tail(pre) \in Seq(Ops) /\ 1 \in 1..Len(pre)
        /\ \A i \in 1..Len(Tail(pre)) : Tail(pre)[i] = pre[i+1] /\ i + 1 \in 1..Len(pre)
        BY <1>4, TailParts
  <2>6. pre[1] \in {"fetch", "ceiling"} BY <1>1, <2>5
  <2>7. \A i \in 1..Len(Tail(pre)) : Tail(pre)[i] \in {"fetch", "ceiling"} BY <1>1, <2>5
  <2>8. Pending(Tail(s), w, o) BY <1>1, <2>4, <2>5, <2>7 DEF Pending
  <2> QED BY <2>4, <2>6, <2>8
<1> QED BY <1>3, <1>4

-----------------------------------------------------------------------------
(* Abreast.                                                                *)

LEMMA AbreastTyped ==
    ASSUME NEW s, NEW over, NEW w \in Seq(Collectives), NEW o, Abreast(s, over, w, o)
    PROVE  /\ s \in Seq(Ops)
           /\ <<"train">> \o w \in Seq(Collectives) /\ <<"train">> \o w # <<>>
           /\ (<<"train">> \o w)[1] = "train" /\ Tail(<<"train">> \o w) = w
<1>1. s \in Seq(Ops) BY DEF Abreast, Follows
<1>2. <<"train">> \in Seq(Collectives) /\ <<"train">> # <<>> /\ <<"train">>[1] = "train"
      BY DEF Collectives
<1>3. Tail(<<"train">>) = <<>> OBVIOUS
<1>4. /\ <<"train">> \o w \in Seq(Collectives) /\ <<"train">> \o w # <<>>
      /\ Head(<<"train">> \o w) = "train" /\ Tail(<<"train">> \o w) = <<>> \o w
      BY <1>2, <1>3, HeadOfConcat
<1>5. <<>> \o w = w BY ConcatEmptySeq
<1> QED BY <1>1, <1>4, <1>5, TailParts

LEMMA AbreastNothing ==
    ASSUME NEW s, NEW over, NEW w \in Seq(Collectives), NEW o, Abreast(s, over, w, o),
           \A i \in 1..Len(s) : s[i] \notin Collectives
    PROVE  w = <<>>
<1>1. CASE Follows(s, w, o) BY <1>1, MirrorsNothing DEF Follows
<1>2. CASE Len(w) > 1 /\ Follows(s, Tail(w), o)
  <2> DEFINE t == Tail(w)
  <2>1. w # <<>> /\ Len(<<>>) = 0 BY <1>2
  <2>2. t = <<>> BY <1>2, MirrorsNothing DEF Follows
  <2>3. Len(t) = Len(w) - 1 /\ Len(w) \in Nat BY <2>1, TailParts
  <2> HIDE DEF t
  <2>4. Len(t) = 0 BY <2>1, <2>2
  <2>5. Len(w) = 1 BY <2>3, <2>4
  <2> QED BY <1>2, <2>5
<1>3. CASE Follows(s, <<"train">> \o w, o)
  <2>1. <<"train">> \o w = <<>> BY <1>3, MirrorsNothing DEF Follows
  <2> QED BY <2>1, AbreastTyped
<1> QED BY <1>1, <1>2, <1>3 DEF Abreast

\* The leader is done with a call of its own.
LEMMA AbreastCall ==
    ASSUME NEW s, NEW over, NEW w \in Seq(Collectives), NEW o, Abreast(s, over, w, o),
           s # <<>>, Head(s) \notin Collectives
    PROVE  Abreast(Tail(s), over, w, o)
BY FollowsCall DEF Abreast

\* The leader leaves its loop.
LEMMA AbreastLeader ==
    ASSUME NEW s, NEW over, NEW w \in Seq(Collectives), NEW o, over, Abreast(s, over, w, o),
           s # <<>>, Head(s) = "train"
    PROVE  Abreast(Tail(s), over, w, o)
<1>1. "train" \in Collectives BY DEF Collectives
<1>2. CASE Follows(s, w, o)
  <2>1. Len(w) > 0 /\ w[1] = "train" /\ Follows(Tail(s), Tail(w), o)
        BY <1>1, <1>2, FollowsBoth
  <2>2. Paired(w) /\ 1 \in 1..Len(w) BY <1>2, <2>1 DEF Follows, Mirrors
  <2>3. 1 < Len(w) /\ w[1+1] = "total" BY <2>1, <2>2 DEF Paired
  <2>4. Len(w) > 1 /\ w[2] = "total" BY <2>3
  <2> QED BY <2>1, <2>4 DEF Abreast
<1>3. CASE Len(w) > 1 /\ w[2] = "total" /\ Follows(s, Tail(w), o)
  <2>1. Len(Tail(w)) > 0 /\ Tail(w)[1] = "train" BY <1>1, <1>3, FollowsBoth
  <2>2. w # <<>> BY <1>3
  <2>3. 1 \in 1..Len(Tail(w)) /\ Tail(w)[1] = w[1+1] BY <1>3, <2>2, TailParts
  <2> QED BY <1>3, <2>1, <2>3
<1>4. CASE Follows(s, <<"train">> \o w, o)
  <2>1. Follows(Tail(s), Tail(<<"train">> \o w), o) BY <1>1, <1>4, FollowsBoth
  <2>2. Follows(Tail(s), w, o) BY <2>1, AbreastTyped
  <2> QED BY <2>2 DEF Abreast
<1> QED BY <1>2, <1>3, <1>4 DEF Abreast

\* A worker leaves its loop.
LEMMA AbreastWorker ==
    ASSUME NEW s, NEW over, NEW w \in Seq(Collectives), NEW o, over, Abreast(s, over, w, o),
           w # <<>>, w[1] = "train"
    PROVE  Abreast(s, over, Tail(w), o)
<1>1. /\ Tail(w) \in Seq(Collectives) /\ Len(Tail(w)) = Len(w) - 1
      /\ Len(w) \in Nat /\ Len(w) > 0
      /\ \A j \in 1..Len(Tail(w)) : Tail(w)[j] = w[j+1]
      BY TailParts
<1>2. CASE Follows(s, w, o)
  <2>1. Paired(w) /\ 1 \in 1..Len(w) BY <1>1, <1>2 DEF Follows, Mirrors
  <2>2. 1 < Len(w) /\ w[1+1] = "total" BY <2>1 DEF Paired
  <2>3. Len(Tail(w)) > 0 /\ Tail(w)[1] = "total" BY <1>1, <2>2
  <2> DEFINE v == <<"train">> \o Tail(w)
  <2>4. v = w
    <3>1. <<"train">> \in Seq(Collectives) /\ Len(<<"train">>) = 1 /\ <<"train">>[1] = "train"
          BY DEF Collectives
    <3>2. /\ v \in Seq(Collectives) /\ Len(v) = 1 + Len(Tail(w)) /\ v[1] = "train"
          /\ \A j \in 1..Len(Tail(w)) : v[1 + j] = Tail(w)[j]
          BY <1>1, <3>1, ConcatParts
    <3> HIDE DEF v
    <3>3. \A i \in 1..Len(v) : v[i] = w[i]
      <4> TAKE i \in 1..Len(v)
      <4>1. CASE i = 1 BY <3>2, <4>1
      <4>2. CASE i # 1
        <5>1. i - 1 \in 1..Len(Tail(w)) /\ 1 + (i - 1) = i /\ (i - 1) + 1 = i
              BY <1>1, <3>2, <4>2
        <5>2. v[1 + (i - 1)] = Tail(w)[i - 1] /\ Tail(w)[i - 1] = w[(i - 1) + 1]
              BY <1>1, <3>2, <5>1
        <5> QED BY <5>1, <5>2
      <4> QED BY <4>1, <4>2
    <3> QED BY <1>1, <3>2, <3>3, SeqEqual
  <2>5. Follows(s, <<"train">> \o Tail(w), o) BY <1>2, <2>4
  <2> QED BY <2>3, <2>5 DEF Abreast
<1>3. CASE Follows(s, Tail(w), o) BY <1>3 DEF Abreast
<1>4. CASE w[1] = "total" BY <1>4
<1> QED BY <1>2, <1>3, <1>4 DEF Abreast

\* Both are done with a collective.
LEMMA AbreastBoth ==
    ASSUME NEW s, NEW over, NEW w \in Seq(Collectives), NEW o, Abreast(s, over, w, o),
           s # <<>>, w # <<>>, NEW op \in Collectives \ {"train"}, Head(s) = op, w[1] = op
    PROVE  Abreast(Tail(s), over, Tail(w), o)
<1>1. CASE Follows(s, w, o) BY <1>1, FollowsBoth DEF Abreast
<1>2. CASE w[1] = "train" BY <1>2
<1>3. CASE Follows(s, <<"train">> \o w, o)
  <2>1. (<<"train">> \o w)[1] = op BY <1>3, FollowsBoth
  <2> QED BY <2>1, AbreastTyped
<1> QED BY <1>1, <1>2, <1>3 DEF Abreast

\* Who waits in a collective waits where the leader waits.
LEMMA AbreastLevel ==
    ASSUME NEW s, NEW over, NEW w \in Seq(Collectives), NEW o, Abreast(s, over, w, o),
           s # <<>>, Head(s) \in Collectives,
           over => Head(s) # "train", over /\ Len(w) > 0 => w[1] # "train"
    PROVE  w # <<>> /\ w[1] = Head(s)
<1>1. CASE Follows(s, w, o)
  <2>1. Len(w) > 0 /\ w[1] = Head(s) BY <1>1, FollowsBoth
  <2>2. Len(<<>>) = 0 OBVIOUS
  <2> QED BY <2>1, <2>2
<1>2. CASE over /\ Len(w) > 1 /\ w[1] = "train"
  <2>1. Len(w) > 0 BY <1>2
  <2> QED BY <1>2, <2>1
<1>3. CASE over /\ Follows(s, <<"train">> \o w, o)
  <2>1. (<<"train">> \o w)[1] = Head(s) BY <1>3, FollowsBoth
  <2> QED BY <1>3, <2>1, AbreastTyped
<1> QED BY <1>1, <1>2, <1>3 DEF Abreast

-----------------------------------------------------------------------------
(* Every step keeps the scripts in line.                                   *)

LEMMA ScriptsTyped ==
    ASSUME Inv
    PROVE  /\ script \in [Ranks -> Seq(Ops)]
           /\ \A r \in Ranks : /\ script[r] \in Seq(Ops)
                               /\ At(r) = "idle" => script[r] = <<>>
                               /\ At(r) # "idle" => script[r] # <<>> /\ Head(script[r]) = At(r)
<1>1. script \in [Ranks -> Seq(Ops)] BY DEF Inv, TypeOK
<1>2. "idle" \notin Ops BY DEF Ops, Collectives, LocalCalls
<1>3. ASSUME NEW r \in Ranks
      PROVE  /\ script[r] \in Seq(Ops)
             /\ At(r) = "idle" => script[r] = <<>>
             /\ At(r) # "idle" => script[r] # <<>> /\ Head(script[r]) = At(r)
  <2>1. script[r] \in Seq(Ops) BY <1>1
  <2>2. script[r] # <<>> => Head(script[r]) \in Ops BY <2>1
  <2> QED BY <1>2, <2>1, <2>2 DEF At
<1> QED BY <1>1, <1>3

\* What a worker is at is the first of what it has to do, or the broadcast.
LEMMA WorkerAt ==
    ASSUME NEW r, NEW w \in Seq(Collectives), script[r] = w \o <<"command">>
    PROVE  /\ w = <<>> => script[r] = <<"command">> /\ At(r) = "command"
           /\ w # <<>> => /\ Len(w) > 0 /\ At(r) = w[1]
                          /\ Tail(w) \in Seq(Collectives)
                          /\ Tail(script[r]) = Tail(w) \o <<"command">>
<1>1. <<"command">> \in Seq(Collectives) /\ <<"command">> # <<>>
      /\ Head(<<"command">>) = "command"
      BY DEF Collectives
<1>2. CASE w = <<>>
  <2>1. script[r] = <<"command">> BY <1>1, <1>2, ConcatEmptySeq
  <2> QED BY <1>1, <1>2, <2>1 DEF At
<1>3. CASE w # <<>>
  <2>1. /\ script[r] # <<>> /\ Head(script[r]) = w[1]
        /\ Tail(script[r]) = Tail(w) \o <<"command">>
        BY <1>1, <1>3, HeadOfConcat
  <2>2. Tail(w) \in Seq(Collectives) /\ Len(w) > 0 BY <1>3, TailParts
  <2> QED BY <1>3, <2>1, <2>2 DEF At
<1> QED BY <1>2, <1>3

\* The leader has nothing to do with its workers: they wait for a broadcast.
LEMMA Quiet ==
    ASSUME Lined, gone = {}, box.command # "stop",
           \A i \in 1..Len(script[Leader]) : script[Leader][i] \notin Collectives
    PROVE  Waiting
<1>1. CASE Waiting BY <1>1
<1>2. CASE \A r \in Workers : Beside(r)
  <2> SUFFICES ASSUME NEW r \in Workers PROVE script[r] = <<"command">> BY DEF Waiting
  <2>1. PICK w \in Seq(Collectives) :
          script[r] = w \o <<"command">> /\ Abreast(script[Leader], PhaseOver(r), w, box)
        BY <1>2 DEF Beside
  <2>2. w = <<>> BY <2>1, AbreastNothing
  <2> QED BY <2>1, <2>2, WorkerAt
<1> QED BY <1>1, <1>2 DEF Lined

LEMMA LinedInit == Init => Lined
<1> SUFFICES ASSUME Init PROVE Lined OBVIOUS
<1> USE LeaderIn
<1>1. PICK t \in {"blob", "inline"}, b \in BOOLEAN : Start(t, b) BY DEF Init
<1> DEFINE first == When(t = "inline", <<"gather">>)
<1>2. /\ Follows(first, first, NoOrder) /\ Open(first) /\ first \in Seq(Collectives)
  <2>1. (t = "inline") \in BOOLEAN OBVIOUS
  <2>2. <<"gather">> \in Seq(Collectives) BY DEF Collectives
  <2>3. Paired(<<"gather">>) BY DEF Paired
  <2> QED BY <2>1, <2>2, <2>3, FollowsWhen
<1>3. Follows(<<"construct">>, <<>>, NoOrder)
  <2>1. <<"construct">> \in Seq((LocalCalls \cup {"transport"}) \ {"fetch", "ceiling"})
        BY DEF LocalCalls
  <2> QED BY <2>1, FollowsCalls
<1>4. Told(first \o <<"construct">>)
  <2>1. (t = "inline") \in BOOLEAN OBVIOUS
  <2>2. <<"gather">> \in Seq(Ops) /\ Told(<<"gather">>) BY DEF Ops, Collectives, Told
  <2>3. first \in Seq(Ops) /\ Told(first) BY <2>1, <2>2, WhenTold
  <2>4. <<"construct">> \in Seq(Ops) /\ Told(<<"construct">>) BY DEF Ops, LocalCalls, Told
  <2> HIDE DEF first
  <2> QED BY <2>3, <2>4, ToldConcat
<1>5. script = [r \in Ranks |->
                  first \o (IF r = Leader THEN <<"construct">> ELSE <<"command">>)]
      BY <1>1 DEF Start
<1> HIDE DEF first
<1>6. /\ script[Leader] = first \o <<"construct">>
      /\ \A r \in Workers : script[r] = first \o <<"command">>
      BY <1>5
<1>7. Follows(script[Leader], first, NoOrder)
  <2>1. Follows(first \o <<"construct">>, first \o <<>>, NoOrder)
        BY <1>2, <1>3, FollowsConcat
  <2>2. first \o <<>> = first BY <1>2, ConcatEmptySeq
  <2> QED BY <1>6, <2>1, <2>2
<1>8. box = NoOrder /\ lost = "nothing" /\ box.command # "stop"
      BY <1>1, OrderTyped DEF Start, NoOrder
<1>9. \A r \in Workers : Beside(r)
      BY <1>2, <1>6, <1>7, <1>8 DEF Beside, Abreast
<1> QED BY <1>4, <1>6, <1>8, <1>9 DEF Lined

LEMMA GetParametersPending ==
    ASSUME NEW o, o.command = "fit", o.gatherOnly
    PROVE  Pending(GetParameters, Mirrored(o), o)
<1> DEFINE post == <<"ceiling", "gather", "report">>
           m == [i \in 1..Len(<<"gather">>) |-> 2]
<1>1. Mirrored(o) = <<"gather">> BY DEF Mirrored
<1>2. post \in Seq(Ops) /\ <<"gather">> \in Seq(Collectives)
      BY DEF Ops, Collectives, LocalCalls
<1>3. Paired(post) /\ Paired(<<"gather">>) BY DEF Paired
<1>4. /\ m \in [1..Len(<<"gather">>) -> 1..Len(post)]
      /\ \A i, j \in 1..Len(<<"gather">>) : i < j => m[i] < m[j]
      /\ \A i \in 1..Len(<<"gather">>) : <<"gather">>[i] = post[m[i]]
      OBVIOUS
<1>5. \A i \in 1..Len(post) : post[i] \in Collectives =>
                                 \E j \in 1..Len(<<"gather">>) : m[j] = i
  <2>1. \A i \in 1..Len(post) : post[i] \in Collectives => i = 2
        BY DEF Collectives
  <2>2. 1 \in 1..Len(<<"gather">>) /\ m[1] = 2 OBVIOUS
  <2> QED BY <2>1, <2>2
<1>6. Closing(post, o)
      BY DEF Closing, Closers, Collectives
<1> HIDE DEF m
<1>7. Mirrors(post, <<"gather">>) BY <1>2, <1>3, <1>4, <1>5 DEF Mirrors
<1>8. Follows(post, Mirrored(o), o) BY <1>1, <1>2, <1>6, <1>7 DEF Follows
<1>9. GetParameters = (<<>> \o <<"command">>) \o post
  <2>1. <<>> \o <<"command">> = <<"command">> BY CommandIn, ConcatEmptySeq
  <2>2. GetParameters = <<"command">> \o post BY DEF GetParameters
  <2> QED BY <2>1, <2>2
<1> HIDE DEF post
<1>10. <<>> \in Seq(Ops) /\ \A i \in 1..Len(<<>>) : <<>>[i] \in {"fetch", "ceiling"}
       OBVIOUS
<1> QED BY <1>2, <1>8, <1>9, <1>10 DEF Pending

LEMMA LinedServe == Inv /\ Lined /\ Serve => Lined'
<1> SUFFICES ASSUME Inv, Lined, Serve PROVE Lined' OBVIOUS
<1> USE LeaderIn
<1>1. gone = {} /\ gone' = {} /\ lost' = lost /\ script[Leader] = <<>>
  <2>1. gone = {} BY DEF Inv, TypeOK, Serve
  <2> QED BY <2>1, ScriptsTyped DEF Serve
<1>2. box.command # "stop"
  <2>1. <<"command">> # <<>> OBVIOUS
  <2> QED BY <1>1, <2>1 DEF Inv, InStep
<1>3. Waiting BY <1>1, <1>2, Quiet
<1>4. lost = "nothing" BY <1>1, <1>2 DEF Lined
<1>5. ASSUME NEW ops, NEW o, script' = [script EXCEPT ![Leader] = ops], box' = o,
             o.command # "stop",
             Pending(ops, Mirrored(o), o) \/ (Told(ops) /\ Follows(ops, <<>>, o))
      PROVE  Lined'
  <2>1. script'[Leader] = ops /\ \A r \in Workers : script'[r] = script[r]
        BY <1>5, ScriptsTyped
  <2>2. Waiting' BY <1>3, <2>1 DEF Waiting
  <2>3. CASE Pending(ops, Mirrored(o), o)
        BY <1>1, <1>4, <1>5, <2>1, <2>2, <2>3 DEF Lined
  <2>4. CASE Told(ops) /\ Follows(ops, <<>>, o)
    <3>1. <<>> \in Seq(Collectives) /\ <<"command">> = <<>> \o <<"command">>
          BY CommandIn, ConcatEmptySeq
    <3>2. \A r \in Workers : script'[r] = <<"command">> BY <2>2 DEF Waiting
    <3>3. \A r \in Workers : Beside(r)'
          BY <1>5, <2>1, <2>4, <3>1, <3>2 DEF Beside, Abreast
    <3> QED BY <1>1, <1>4, <1>5, <2>1, <2>4, <3>3 DEF Lined
  <2> QED BY <1>5, <2>3, <2>4
<1>6. CASE \E o \in FitOrders : ServeFit(o)
  <2>1. PICK o \in FitOrders : ServeFit(o) BY <1>6
  <2>2. /\ o \in Tuple /\ o.command = "fit" /\ ~o.gatherOnly
        /\ o.reference = (job.transport = "blob")
        BY DEF FitOrders
  <2> DEFINE ops == IF job.transport = "blob" THEN FitBlob(o) ELSE FitInline(o)
  <2>3. Pending(ops, Mirrored(o), o) BY <2>2, FitBlobPending, FitInlinePending
  <2>4. script' = [script EXCEPT ![Leader] = ops] /\ box' = o
        BY <2>1 DEF ServeFit
  <2> HIDE DEF ops
  <2> QED BY <1>5, <2>2, <2>3, <2>4
<1>7. CASE \E o \in EvalOrders : ServeOther(Evaluate(o), o)
  <2>1. PICK o \in EvalOrders : ServeOther(Evaluate(o), o) BY <1>7
  <2>2. o \in Tuple /\ o.command = "evaluate" /\ (o.reference => ~o.params)
        BY DEF EvalOrders
  <2>3. script' = [script EXCEPT ![Leader] = Evaluate(o)] /\ box' = o
        BY <2>1 DEF ServeOther
  <2> QED BY <1>5, <2>2, <2>3, EvaluatePending
<1>8. CASE ServeOther(GetParameters, [Order("fit") EXCEPT !.gatherOnly = TRUE])
  <2> DEFINE o == [Order("fit") EXCEPT !.gatherOnly = TRUE]
  <2>1. o.command = "fit" /\ o.gatherOnly BY DEF Order
  <2>2. script' = [script EXCEPT ![Leader] = GetParameters] /\ box' = o
        BY <1>8 DEF ServeOther
  <2> HIDE DEF o
  <2> QED BY <1>5, <2>1, <2>2, GetParametersPending
<1>9. CASE ServeOther(Mismatch, NoOrder)
  <2>1. NoOrder.command # "stop" BY OrderTyped DEF NoOrder
  <2>2. Mismatch \in Seq((LocalCalls \cup {"transport"}) \ {"fetch", "ceiling"})
        BY DEF Mismatch
  <2>3. script' = [script EXCEPT ![Leader] = Mismatch] /\ box' = NoOrder
        BY <1>9 DEF ServeOther
  <2> QED BY <1>5, <2>1, <2>2, <2>3, FollowsCalls, OtherScripts
<1> QED BY <1>6, <1>7, <1>8, <1>9 DEF Serve

LEMMA LinedStop ==
    ASSUME Inv, script' = Stopping, box' = Order("stop"), gone' = gone,
           gone = {} /\ lost' \notin Unmirrored => Waiting
    PROVE  Lined'
<1> USE LeaderIn
<1>1. \A r \in Workers : script'[r] = script[r]
      BY ScriptsTyped DEF Stopping
<1>2. box'.command = "stop" BY OrderTyped
<1>3. Waiting => Waiting' BY <1>1 DEF Waiting
<1> QED BY <1>2, <1>3 DEF Lined

LEMMA LinedFinished == Inv /\ Lined /\ Finished => Lined'
<1> SUFFICES ASSUME Inv, Lined, Finished PROVE Lined' OBVIOUS
<1> USE LeaderIn
<1>1. gone = {} /\ gone' = gone /\ script[Leader] = <<>>
  <2>1. gone = {} BY DEF Inv, TypeOK, Finished
  <2> QED BY <2>1, ScriptsTyped DEF Finished
<1>2. box.command # "stop"
  <2>1. <<"command">> # <<>> OBVIOUS
  <2> QED BY <1>1, <2>1 DEF Inv, InStep
<1>3. Waiting BY <1>1, <1>2, Quiet
<1> QED BY <1>1, <1>3, LinedStop DEF Finished

LEMMA LinedCallReturns == Inv /\ Lined /\ CallReturns => Lined'
<1> SUFFICES ASSUME Inv, Lined, CallReturns, gone = {} PROVE Lined'
  <2>1. CallReturns => gone' = gone BY DEF CallReturns
  <2> QED BY <2>1 DEF Lined
<1> USE LeaderIn
<1>1. /\ gone' = gone /\ box' = box /\ lost' = lost /\ step' = step /\ left' = left
      /\ At(Leader) \in LocalCalls
      /\ script' = [script EXCEPT ![Leader] = Tail(script[Leader])]
      BY DEF CallReturns, Advance
<1>2. At(Leader) # "idle" /\ At(Leader) # "command" /\ At(Leader) \notin Collectives
      BY <1>1 DEF LocalCalls, Collectives
<1>3. /\ script[Leader] \in Seq(Ops) /\ script[Leader] # <<>>
      /\ Head(script[Leader]) = At(Leader)
      BY <1>2, ScriptsTyped
<1>4. /\ script'[Leader] = Tail(script[Leader])
      /\ \A r \in Workers : script'[r] = script[r]
      BY <1>1, ScriptsTyped
<1>5. box.command # "stop"
  <2>1. Head(<<"command">>) = "command" OBVIOUS
  <2> QED BY <1>2, <1>3, <2>1 DEF Inv, InStep
<1>6. CASE Told(script[Leader]) /\ \A r \in Workers : Beside(r)
  <2>1. Told(script'[Leader]) BY <1>3, <1>4, <1>6, ToldTail
  <2>2. ASSUME NEW r \in Workers PROVE Beside(r)'
    <3>1. PICK w \in Seq(Collectives) :
            script[r] = w \o <<"command">> /\ Abreast(script[Leader], PhaseOver(r), w, box)
          BY <1>6 DEF Beside
    <3>2. Abreast(script'[Leader], PhaseOver(r), w, box)
          BY <1>2, <1>3, <1>4, <3>1, AbreastCall
    <3>3. PhaseOver(r)' = PhaseOver(r) BY <1>1 DEF PhaseOver
    <3> QED BY <1>1, <1>4, <3>1, <3>2, <3>3 DEF Beside
  <2> QED BY <1>1, <1>5, <2>1, <2>2 DEF Lined
<1>7. CASE Pending(script[Leader], Mirrored(box), box) /\ Waiting
  <2>1. Pending(script'[Leader], Mirrored(box), box)
        BY <1>2, <1>3, <1>4, <1>7, PendingCall
  <2>2. Waiting' BY <1>4, <1>7 DEF Waiting
  <2> QED BY <1>1, <1>5, <2>1, <2>2 DEF Lined
<1> QED BY <1>5, <1>6, <1>7 DEF Lined

LEMMA AbreastClosing ==
    ASSUME NEW s, NEW over, NEW w, NEW o, Abreast(s, over, w, o)
    PROVE  s \in Seq(Ops) /\ Closing(s, o)
BY DEF Abreast, Follows

\* An exception that is not one of those finds the workers at the broadcast.
LEMMA LinedCallRaises == Inv /\ Lined /\ CallRaises => Lined'
<1> SUFFICES ASSUME Inv, Lined, CallRaises PROVE Lined' OBVIOUS
<1> USE LeaderIn
<1>1. /\ script' = Stopping /\ box' = Order("stop") /\ gone' = gone
      /\ lost' = IF At(Leader) = "ceiling" /\ box.gatherOnly
                 THEN "late_ceiling" ELSE At(Leader)
      BY DEF CallRaises
<1>2. At(Leader) # "idle" /\ At(Leader) # "command" /\ At(Leader) \in Ops
      BY DEF CallRaises, Refused, LocalCalls, Ops, Collectives
<1>3. /\ script[Leader] \in Seq(Ops) /\ script[Leader] # <<>>
      /\ Head(script[Leader]) = At(Leader)
      BY <1>2, ScriptsTyped
<1>4. ASSUME gone = {}, lost' \notin Unmirrored PROVE Waiting
  <2>1. box.command # "stop"
    <3>1. Head(<<"command">>) = "command" OBVIOUS
    <3> QED BY <1>2, <1>3, <1>4, <3>1 DEF Inv, InStep
  <2>2. CASE Pending(script[Leader], Mirrored(box), box) /\ Waiting BY <2>2
  <2>3. CASE Told(script[Leader]) /\ \A r \in Workers : Beside(r)
    <3>1. /\ At(Leader) \in {"construct", "fetch", "ceiling", "put_delta", "report", "transport"}
          /\ At(Leader) = "ceiling" => ~box.gatherOnly
          BY <1>1, <1>4 DEF CallRaises, Refused, LocalCalls, Unmirrored
    <3> SUFFICES ASSUME NEW r \in Workers PROVE script[r] = <<"command">> BY DEF Waiting
    <3>2. PICK w \in Seq(Collectives) :
            script[r] = w \o <<"command">> /\ Abreast(script[Leader], PhaseOver(r), w, box)
          BY <2>3 DEF Beside
    <3>3. Closing(script[Leader], box) BY <3>2, AbreastClosing
    <3>4. 1 \in 1..Len(script[Leader]) /\ script[Leader][1] = At(Leader)
          BY <1>3, TailParts
    <3>5. At(Leader) # "fetch" /\ (At(Leader) = "ceiling" => box.gatherOnly)
          BY <3>3, <3>4 DEF Closing
    <3>6. At(Leader) \in Closers /\ At(Leader) \notin Collectives
          BY <3>1, <3>5 DEF Closers, Collectives
    <3>7. \A i \in 2..Len(script[Leader]) : script[Leader][i] \notin Collectives
      <4>1. \A i \in (1+1)..Len(script[Leader]) : script[Leader][i] \notin Collectives
            BY <3>3, <3>4, <3>6 DEF Closing
      <4> QED BY <4>1
    <3>8. \A i \in 1..Len(script[Leader]) : script[Leader][i] \notin Collectives
      <4> TAKE i \in 1..Len(script[Leader])
      <4>1. CASE i = 1 BY <3>4, <3>6, <4>1
      <4>2. CASE i # 1
        <5>1. Len(script[Leader]) \in Nat BY <1>3
        <5>2. i \in 2..Len(script[Leader]) BY <4>2, <5>1
        <5> QED BY <3>7, <5>2
      <4> QED BY <4>1, <4>2
    <3>9. w = <<>> BY <3>2, <3>8, AbreastNothing
    <3> QED BY <3>2, <3>9, WorkerAt
  <2> QED BY <1>4, <2>1, <2>2, <2>3 DEF Lined
<1> QED BY <1>1, <1>4, LinedStop

\* The workers take on what the leader is about to do.
LEMMA LinedCommand == Inv /\ Lined /\ Command => Lined'
<1> SUFFICES ASSUME Inv, Lined, Command PROVE Lined' OBVIOUS
<1> USE LeaderIn
<1>1. /\ gone = {} /\ \A r \in Ranks : At(r) = "command"
      /\ box' = box /\ lost' = lost
      BY DEF Command, AllAt
<1>2. /\ script[Leader] \in Seq(Ops) /\ script[Leader] # <<>>
      /\ Head(script[Leader]) = "command"
      BY <1>1, ScriptsTyped
<1>3. CASE box.command = "stop"
  <2>1. gone' = Ranks BY <1>3 DEF Command
  <2> QED BY <2>1 DEF Lined
<1>4. CASE box.command # "stop"
  <2>1. script' = [r \in Ranks |->
              IF r = Leader THEN Tail(script[r]) ELSE Mirrored(box) \o <<"command">>]
        BY <1>4 DEF Command, Advance
  <2>2. /\ script'[Leader] = Tail(script[Leader])
        /\ \A r \in Workers : script'[r] = Mirrored(box) \o <<"command">>
        BY <2>1
  <2>3. ~Told(script[Leader]) BY <1>2 DEF Told
  <2>4. Pending(script[Leader], Mirrored(box), box) /\ Untold(script[Leader])
        BY <1>1, <1>4, <2>3 DEF Lined, Inv, InStep
  <2>5. Follows(script'[Leader], Mirrored(box), box) BY <1>2, <2>2, <2>4, PendingCall
  <2>6. Told(script'[Leader]) BY <1>2, <2>2, <2>4, BroadcastTells
  <2>7. Mirrored(box) \in Seq(Collectives) BY <2>5 DEF Follows, Mirrors
  <2>8. ASSUME NEW r \in Workers PROVE Beside(r)'
        BY <1>1, <2>2, <2>5, <2>7 DEF Beside, Abreast
  <2>9. lost = "nothing" BY <1>1, <1>4 DEF Lined
  <2> QED BY <1>1, <1>4, <2>6, <2>8, <2>9 DEF Lined
<1> QED BY <1>3, <1>4

\* Nobody has left the loop that all are in.
LEMMA LinedTrain == Inv /\ Lined /\ TrainStep => Lined'
<1> SUFFICES ASSUME Inv, Lined, TrainStep PROVE Lined' OBVIOUS
<1> USE LeaderIn
<1>1. /\ gone = {} /\ \A r \in Ranks : At(r) = "train" /\ ~PhaseOver(r)
      /\ gone' = gone /\ script' = script /\ box' = box /\ lost' = lost
      BY DEF TrainStep, AllAt
<1>2. /\ script[Leader] \in Seq(Ops) /\ script[Leader] # <<>>
      /\ Head(script[Leader]) = "train"
      BY <1>1, ScriptsTyped
<1>3. box.command # "stop"
  <2>1. Head(<<"command">>) = "command" OBVIOUS
  <2> QED BY <1>1, <1>2, <2>1 DEF Inv, InStep
<1>4. ~Pending(script[Leader], Mirrored(box), box) BY <1>2, PendingCall
<1>5. lost = "nothing" /\ Told(script[Leader]) /\ \A r \in Workers : Beside(r)
      BY <1>1, <1>3, <1>4 DEF Lined
<1>6. ASSUME NEW r \in Workers PROVE Beside(r)'
  <2>1. PICK w \in Seq(Collectives) :
          script[r] = w \o <<"command">> /\ Abreast(script[Leader], PhaseOver(r), w, box)
        BY <1>5 DEF Beside
  <2>2. Follows(script[Leader], w, box) BY <1>1, <2>1 DEF Abreast
  <2> QED BY <1>1, <2>1, <2>2 DEF Beside, Abreast
<1> QED BY <1>1, <1>3, <1>5, <1>6 DEF Lined

LEMMA LinedTogether == Inv /\ Lined /\ Together => Lined'
<1> SUFFICES ASSUME Inv, Lined, Together PROVE Lined' OBVIOUS
<1> USE LeaderIn
<1>1. PICK op \in Collectives \ {"command", "train"} : AllAt(op) BY DEF Together
<1>2. /\ gone = {} /\ gone' = gone /\ box' = box /\ lost' = lost
      /\ step' = step /\ left' = left
      /\ \A r \in Ranks : At(r) = op /\ script'[r] = Tail(script[r])
      BY <1>1 DEF Together, AllAt, Advance
<1>3. op # "idle" /\ op \notin {"fetch", "ceiling", "command"} BY DEF Collectives
<1>4. /\ script[Leader] \in Seq(Ops) /\ script[Leader] # <<>>
      /\ Head(script[Leader]) = op
      BY <1>2, <1>3, ScriptsTyped
<1>5. box.command # "stop"
  <2>1. Head(<<"command">>) = "command" OBVIOUS
  <2> QED BY <1>2, <1>4, <2>1 DEF Inv, InStep
<1>6. ~Pending(script[Leader], Mirrored(box), box) BY <1>3, <1>4, PendingCall
<1>7. lost = "nothing" /\ Told(script[Leader]) /\ \A r \in Workers : Beside(r)
      BY <1>2, <1>5, <1>6 DEF Lined
<1>8. Told(script'[Leader]) BY <1>2, <1>4, <1>7, ToldTail
<1>9. ASSUME NEW r \in Workers PROVE Beside(r)'
  <2>1. PICK w \in Seq(Collectives) :
          script[r] = w \o <<"command">> /\ Abreast(script[Leader], PhaseOver(r), w, box)
        BY <1>7 DEF Beside
  <2>2. At(r) = op /\ script'[r] = Tail(script[r]) BY <1>2
  <2>3. w # <<>> BY <2>1, <2>2, WorkerAt
  <2>4. /\ w[1] = op /\ Tail(w) \in Seq(Collectives)
        /\ script'[r] = Tail(w) \o <<"command">>
        BY <2>1, <2>2, <2>3, WorkerAt
  <2>5. Abreast(script'[Leader], PhaseOver(r), Tail(w), box)
        BY <1>2, <1>4, <2>1, <2>3, <2>4, AbreastBoth
  <2>6. PhaseOver(r)' = PhaseOver(r) BY <1>2 DEF PhaseOver
  <2> QED BY <1>2, <2>4, <2>5, <2>6 DEF Beside
<1> QED BY <1>2, <1>5, <1>7, <1>8, <1>9 DEF Lined

LEMMA LinedEndOfPhase ==
    ASSUME Inv, Lined, NEW p \in Ranks, EndOfPhase(p)
    PROVE  Lined'
<1> USE LeaderIn
<1>1. /\ At(p) = "train" /\ PhaseOver(p)
      /\ gone' = gone /\ box' = box /\ lost' = lost /\ step' = step /\ left' = left
      /\ script' = [script EXCEPT ![p] = Tail(script[p])]
      BY DEF EndOfPhase, Advance
<1>2. script[p] \in Seq(Ops) /\ script[p] # <<>> /\ Head(script[p]) = "train"
      BY <1>1, ScriptsTyped
<1>3. /\ script'[p] = Tail(script[p])
      /\ \A r \in Ranks : r # p => script'[r] = script[r]
      BY <1>1, ScriptsTyped
<1>4. script[p] # <<"command">>
  <2>1. Head(<<"command">>) = "command" OBVIOUS
  <2> QED BY <1>2, <2>1
<1>5. \A r : PhaseOver(r)' = PhaseOver(r) BY <1>1 DEF PhaseOver
<1> SUFFICES ASSUME gone = {} PROVE Lined' BY <1>1 DEF Lined
<1>6. CASE p = Leader
  <2>1. box.command # "stop" BY <1>4, <1>6 DEF Inv, InStep
  <2>2. ~Pending(script[Leader], Mirrored(box), box) BY <1>2, <1>6, PendingCall
  <2>3. lost = "nothing" /\ Told(script[Leader]) /\ \A r \in Workers : Beside(r)
        BY <2>1, <2>2 DEF Lined
  <2>4. Told(script'[Leader]) BY <1>2, <1>3, <1>6, <2>3, ToldTail
  <2>5. Agree
    <3>1. ~Untold(script[Leader]) BY <1>2, <1>6, UntoldHead
    <3> QED BY <2>1, <3>1 DEF Inv, InStep
  <2>6. ASSUME NEW r \in Workers PROVE Beside(r)'
    <3>1. PICK w \in Seq(Collectives) :
            script[r] = w \o <<"command">> /\ Abreast(script[Leader], PhaseOver(r), w, box)
          BY <2>3 DEF Beside
    <3>2. PhaseOver(r) BY <1>1, <1>6, <2>5 DEF Agree, PhaseOver
    <3>3. Abreast(script'[Leader], PhaseOver(r), w, box)
          BY <1>2, <1>3, <1>6, <3>1, <3>2, AbreastLeader
    <3>4. script'[r] = script[r] BY <1>3, <1>6
    <3> QED BY <1>1, <1>5, <3>1, <3>3, <3>4 DEF Beside
  <2> QED BY <1>1, <2>1, <2>3, <2>4, <2>6 DEF Lined
<1>7. CASE p \in Workers
  <2>1. ~Waiting BY <1>4, <1>7 DEF Waiting
  <2>2. script'[Leader] = script[Leader] BY <1>3, <1>7
  <2>3. CASE box.command = "stop" BY <1>1, <2>1, <2>3 DEF Lined
  <2>4. CASE box.command # "stop"
    <3>1. lost = "nothing" /\ Told(script[Leader]) /\ \A r \in Workers : Beside(r)
          BY <2>1, <2>4 DEF Lined
    <3>2. ASSUME NEW r \in Workers PROVE Beside(r)'
      <4>1. PICK w \in Seq(Collectives) :
              script[r] = w \o <<"command">> /\ Abreast(script[Leader], PhaseOver(r), w, box)
            BY <3>1 DEF Beside
      <4>2. CASE r # p
        <5>1. script'[r] = script[r] BY <1>3, <4>2
        <5> QED BY <1>1, <1>5, <2>2, <4>1, <5>1 DEF Beside
      <4>3. CASE r = p
        <5>1. w # <<>> BY <1>4, <4>1, <4>3, WorkerAt
        <5>2. /\ w[1] = "train" /\ Tail(w) \in Seq(Collectives)
              /\ script'[r] = Tail(w) \o <<"command">>
              BY <1>1, <1>3, <4>1, <4>3, <5>1, WorkerAt
        <5>3. Abreast(script[Leader], PhaseOver(r), Tail(w), box)
              BY <1>1, <4>1, <4>3, <5>1, <5>2, AbreastWorker
        <5> QED BY <1>1, <1>5, <2>2, <5>2, <5>3 DEF Beside
      <4> QED BY <4>2, <4>3
    <3> QED BY <1>1, <2>2, <2>4, <3>1, <3>2 DEF Lined
  <2> QED BY <2>3, <2>4
<1> QED BY <1>6, <1>7 DEF Ranks

LEMMA LinedNext == Inv /\ Lined /\ [Next]_vars => Lined'
<1> SUFFICES ASSUME Inv, Lined, [Next]_vars PROVE Lined' OBVIOUS
<1>1. CASE UNCHANGED vars
  <2>1. UNCHANGED <<job, script, left, inner, step, box, gone, lost, served>>
        BY <1>1 DEF vars
  <2> QED BY <2>1 DEF Lined, Waiting, Beside, PhaseOver
<1> QED BY <1>1, LinedServe, LinedFinished, LinedCallReturns, LinedCallRaises, LinedCommand,
           LinedTrain, LinedTogether, LinedEndOfPhase DEF Next

\* Whoever waits waits where the leader does.
LEMMA LinedNotStranded == Inv /\ Lined => NobodyIsStranded
<1> SUFFICES ASSUME Inv, Lined, gone = {}, \A r \in Ranks : Blocked(r), lost \notin Unmirrored
             PROVE  \A r \in Ranks : At(r) = At(Leader)
    BY DEF NobodyIsStranded, Stranded
<1> USE LeaderIn
<1>1. At(Leader) \in Collectives /\ (At(Leader) = "train" => ~PhaseOver(Leader))
      BY DEF Blocked
<1>2. /\ script[Leader] \in Seq(Ops) /\ script[Leader] # <<>>
      /\ Head(script[Leader]) = At(Leader)
  <2>1. At(Leader) # "idle" BY <1>1 DEF Collectives
  <2> QED BY <2>1, ScriptsTyped
<1>3. <<"command">> # <<>> /\ Head(<<"command">>) = "command" OBVIOUS
<1>4. Waiting => \A r \in Workers : At(r) = "command" BY <1>3 DEF Waiting, At
<1>5. CASE box.command = "stop"
  <2>1. Waiting /\ At(Leader) = "command"
        BY <1>2, <1>3, <1>5 DEF Lined, Inv, InStep
  <2> QED BY <1>4, <2>1 DEF Ranks
<1>6. CASE Pending(script[Leader], Mirrored(box), box) /\ Waiting
  <2>1. At(Leader) \in {"fetch", "ceiling", "command"} BY <1>2, <1>6, PendingCall
  <2>2. At(Leader) = "command" BY <1>1, <2>1 DEF Collectives
  <2> QED BY <1>4, <1>6, <2>2 DEF Ranks
<1>7. CASE box.command # "stop" /\ Told(script[Leader]) /\ \A r \in Workers : Beside(r)
  <2>1. Agree
    <3>1. ~Untold(script[Leader]) BY <1>7 DEF Told, Untold
    <3> QED BY <1>7, <3>1 DEF Inv, InStep
  <2>2. ASSUME NEW r \in Workers PROVE At(r) = At(Leader)
    <3>1. PICK w \in Seq(Collectives) :
            script[r] = w \o <<"command">> /\ Abreast(script[Leader], PhaseOver(r), w, box)
          BY <1>7 DEF Beside
    <3>2. At(r) = "train" => ~PhaseOver(r) BY DEF Blocked
    <3>3. PhaseOver(r) => Head(script[Leader]) # "train"
      <4>1. PhaseOver(r) => PhaseOver(Leader) BY <2>1 DEF Agree, PhaseOver
      <4> QED BY <1>1, <1>2, <4>1
    <3>4. PhaseOver(r) /\ Len(w) > 0 => w[1] # "train"
      <4>1. Len(w) > 0 => w # <<>> OBVIOUS
      <4> QED BY <3>1, <3>2, <4>1, WorkerAt
    <3>5. w # <<>> /\ w[1] = At(Leader)
          BY <1>1, <1>2, <3>1, <3>3, <3>4, AbreastLevel
    <3> QED BY <3>1, <3>5, WorkerAt
  <2> QED BY <2>2 DEF Ranks
<1> QED BY <1>5, <1>6, <1>7 DEF Lined

\* The two sides' scripts stay in line, for any set of workers and any order of
\* commands, flags, lengths and failures.
THEOREM RanksStayInLine == Spec => []Lined
BY LinedInit, LinedNext, RanksInvariance, PTL DEF Spec

\* Nobody waits for a rank that does not come, unless rank 0 raised in one of
\* the calls that it makes while its workers are already in a collective.
THEOREM NobodyStaysStranded == Spec => []NobodyIsStranded
BY LinedNotStranded, RanksInvariance, RanksStayInLine, PTL

=============================================================================
