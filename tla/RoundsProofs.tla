---------------------------- MODULE RoundsProofs -----------------------------
(***************************************************************************)
(* Type correctness of the rounds, and that only fit answers of the round  *)
(* being aggregated reach aggregate_fit, for any number of clusters,       *)
(* rounds, processes and delayed reports.                                  *)
(*                                                                         *)
(* The kind of an answer is never looked at, so its being a fit answer has *)
(* to follow from the order of the phases: no task, report in flight or    *)
(* stored answer is ahead of the driver.                                   *)
(***************************************************************************)
EXTENDS Rounds, TLAPS

(* How far the rounds have come: the last round opened, the driver's, its kind. *)
Phase == <<server.round, driver.round, driver.kind>>

(* A task or report t belongs to a phase that was opened at p or before. *)
Behind(t, p) ==
  /\ t.round <= p[1]
  /\ p[3] = "fit" /\ t.round = p[2] => t.kind = "fit"

(* S holds good answers to phases of round n, one per cluster. *)
Sound(S, n, p) ==
  \A r \in S : /\ r.round = n /\ r.status = "ok" /\ Behind(r, p)
               /\ \A q \in S : q.cluster = r.cluster => q = r

Open == {"collecting", "copying", "closing"}

(* The lock's state and the driver agree on the phase that is open. *)
PhasesAgree ==
  /\ server.round <= driver.round
  /\ server.kind # "" => driver.at \in Open
  /\ driver.at \in Open \cup {"aggregating"} => server.round = driver.round
  /\ driver.at \in Open => server.kind = driver.kind

Busy == {"working", "reporting", "failing"}

TasksBehind ==
  \A c \in Cluster :
    client[c].at \in Busy => client[c].task \in Task /\ Behind(client[c].task, Phase)

NetBehind == \A r \in net : Behind(r, Phase)

AnswersSound ==
  /\ Sound(server.results, server.round, Phase)
  /\ driver.at \in {"closing", "aggregating"} => Sound(driver.got, driver.round, Phase)

ServerTypeOK ==
  server \in RoundState /\ live \subseteq Cluster /\ driver \in Driver /\ seeded \in BOOLEAN

ClientTypeOK ==
  client \in [Cluster -> Client] /\ net \subseteq Report /\ starts \in 0 .. MaxStarts

ServerInv == ServerTypeOK /\ PhasesAgree /\ AnswersSound
ClientInv == ClientTypeOK /\ TasksBehind /\ NetBehind
Inv == ServerInv /\ ClientInv
------------------------------------------------------------------------------
(* What a busy client reports is a report, and behind. *)
LEMMA ReportBehind ==
  ASSUME ClientInv, NEW c \in Cluster, Reporting(c)
  PROVE  ReportOf(c) \in Report /\ Behind(ReportOf(c), Phase)
<1>1. client[c].task \in Task /\ Behind(client[c].task, Phase)
  BY DEF ClientInv, TasksBehind, Busy, Reporting
<1>. QED  BY <1>1 DEF ReportOf, Report, Behind, Task

(* One client moves, nothing gets ahead. *)
LEMMA ClientMoves ==
  ASSUME ClientInv, Phase' = Phase,
         NEW c \in Cluster, NEW new \in Client,
         client' = [client EXCEPT ![c] = new],
         new.at \in Busy => new.task \in Task /\ Behind(new.task, Phase),
         net' \subseteq net, starts' \in 0 .. MaxStarts
  PROVE  ClientInv'
<1>1. client \in [Cluster -> Client] /\ net \subseteq Report
  BY DEF ClientInv, ClientTypeOK
<1>2. ClientTypeOK'
  BY <1>1 DEF ClientTypeOK
<1>3. ASSUME NEW d \in Cluster, client'[d].at \in Busy
      PROVE  client'[d].task \in Task /\ Behind(client'[d].task, Phase)
  <2>1. CASE d = c
    BY <2>1, <1>1, <1>3
  <2>2. CASE d # c
    <3>1. client'[d] = client[d]
      BY <2>2, <1>1
    <3>. QED  BY <3>1, <1>3 DEF ClientInv, TasksBehind
  <2>. QED  BY <2>1, <2>2
<1>4. TasksBehind'
  BY <1>3 DEF TasksBehind
<1>5. NetBehind'
  BY DEF ClientInv, NetBehind
<1>. QED  BY <1>2, <1>4, <1>5 DEF ClientInv

(* A step that leaves the clients alone, and only moves the rounds on. *)
LEMMA ClientsAtRest ==
  ASSUME ClientInv, UNCHANGED <<client, starts>>, net' \subseteq net,
         \A t \in Task \cup Report : Behind(t, Phase) => Behind(t, Phase')
  PROVE  ClientInv'
<1>1. ClientTypeOK'
  BY DEF ClientInv, ClientTypeOK
<1>2. TasksBehind'
  BY DEF ClientInv, TasksBehind
<1>3. NetBehind'
  BY DEF ClientInv, ClientTypeOK, NetBehind
<1>. QED  BY <1>1, <1>2, <1>3 DEF ClientInv

LEMMA ServerAtRest ==
  ASSUME ServerInv, UNCHANGED <<server, driver>>,
         live' \subseteq Cluster, seeded' \in BOOLEAN
  PROVE  ServerInv' /\ Phase' = Phase
<1>1. Phase' = Phase
  BY DEF Phase
<1>2. ServerTypeOK' /\ PhasesAgree'
  BY DEF ServerInv, ServerTypeOK, PhasesAgree, Open
<1>3. AnswersSound'
  BY <1>1 DEF ServerInv, AnswersSound
<1>. QED  BY <1>1, <1>2, <1>3 DEF ServerInv

(* /result takes only sound answers, whatever arrives. *)
LEMMA ResultSound ==
  ASSUME ServerInv, NEW r \in Report, Behind(r, Phase), Result(r)
  PROVE  ServerInv' /\ Phase' = Phase
<1>1. /\ server \in RoundState /\ driver \in Driver /\ live \subseteq Cluster
      /\ seeded \in BOOLEAN
  BY DEF ServerInv, ServerTypeOK
<1>2. /\ r.cluster \in Cluster /\ r.round \in Round /\ r.kind \in Kind
      /\ r.status \in {"ok", "error"}
  BY DEF Report
<1>3. /\ driver' = driver /\ seeded' = seeded /\ live' = live \cup {r.cluster}
      /\ server' = Submitted(server, r)
  BY DEF Result, Touch
<1>4. /\ server' \in RoundState
      /\ server'.round = server.round /\ server'.kind = server.kind
  BY <1>1, <1>2, <1>3 DEF Submitted, RoundState
<1>5. Phase' = Phase
  BY <1>3, <1>4 DEF Phase
<1>6. PhasesAgree' /\ ServerTypeOK'
  BY <1>1, <1>2, <1>3, <1>4 DEF ServerInv, ServerTypeOK, PhasesAgree, Open
<1>7. Sound(server.results, server.round, Phase)
  BY DEF ServerInv, AnswersSound
<1>8. Sound(server'.results, server.round, Phase)
  <2>1. CASE server'.results = server.results
    BY <2>1, <1>7
  <2>2. CASE server'.results # server.results
    <3>1. /\ r.round = server.round /\ r.status = "ok"
          /\ server'.results = {x \in server.results : x.cluster # r.cluster} \cup {r}
      BY <2>2, <1>1, <1>3 DEF Submitted, RoundState
    <3>. QED  BY <3>1, <1>7 DEF Sound
  <2>. QED  BY <2>1, <2>2
<1>9. AnswersSound'
  BY <1>3, <1>4, <1>5, <1>8 DEF ServerInv, AnswersSound
<1>. QED  BY <1>5, <1>6, <1>9 DEF ServerInv
------------------------------------------------------------------------------
(* The driver: what it does to the shared state, one lemma for each kind   *)
(* of move.                                                                *)

MovesOn == \A t \in Task \cup Report : Behind(t, Phase) => Behind(t, Phase')

LEMMA RoundsAreNumbers ==
  /\ \A t \in Task \cup Report : t.round \in Nat
  /\ \A s \in RoundState : s.round \in Nat
  /\ \A d \in Driver : d.round \in Nat
<1>1. 0 .. NumRounds \subseteq Nat /\ Round \subseteq Nat
  BY RoundAssumption DEF RoundAssumption, Round
<1>2. \A t \in Task \cup Report : t.round \in Round
  BY DEF Task, Report
<1>3. \A s \in RoundState : s.round \in 0 .. NumRounds
  BY DEF RoundState
<1>4. \A d \in Driver : d.round \in Round
  BY DEF Driver
<1>. QED  BY <1>1, <1>2, <1>3, <1>4

LEMMA NextRoundSound ==
  ASSUME ServerInv, driver.at \in {"configuring", "aggregating"},
         NextRound, UNCHANGED <<live, seeded>>
  PROVE  ServerInv' /\ MovesOn
<1>1. server \in RoundState /\ driver \in Driver
  BY DEF ServerInv, ServerTypeOK
<1>2. server.round \in Nat /\ driver.round \in Nat /\ server.round <= driver.round
  BY <1>1, RoundsAreNumbers DEF ServerInv, PhasesAgree
<1>3. server.kind = ""
  BY DEF ServerInv, PhasesAgree, Open
<1>4. /\ \A r \in server.results : r \in Report
      /\ Sound(server.results, server.round, Phase)
  BY <1>1 DEF RoundState, ServerInv, AnswersSound
<1>5. CASE driver.round < NumRounds
  <2>1. /\ server' = server
        /\ driver' = [driver EXCEPT !.at = "waiting", !.kind = "fit", !.got = {},
                                    !.round = @ + 1]
    BY <1>5 DEF NextRound
  <2>2. /\ driver' \in Driver /\ driver'.at = "waiting"
        /\ driver'.round = driver.round + 1 /\ driver'.kind = "fit"
        /\ server'.round = server.round /\ server'.kind = server.kind
    <3>1. driver.round + 1 \in Round
      BY <1>1, <1>2, <1>5, RoundAssumption DEF RoundAssumption, Driver, Round
    <3>. QED  BY <3>1, <2>1, <1>1 DEF Driver, Kind
  <2>3. Phase' = <<server.round, driver.round + 1, "fit">>
    BY <2>1, <2>2 DEF Phase
  <2>4. ASSUME NEW t, t.round \in Nat, Behind(t, Phase)
        PROVE  Behind(t, Phase')
    BY <2>3, <2>4, <1>2 DEF Behind, Phase
  <2>5. MovesOn
    BY <2>4, RoundsAreNumbers DEF MovesOn
  <2>6. Sound(server.results, server.round, Phase')
    BY <1>4, <2>4, RoundsAreNumbers DEF Sound
  <2>7. AnswersSound'
    BY <2>1, <2>2, <2>6 DEF AnswersSound
  <2>8. ServerTypeOK'
    BY <2>1, <2>2 DEF ServerInv, ServerTypeOK
  <2>9. PhasesAgree'
    <3>1. driver'.at \notin Open \cup {"aggregating"} /\ server'.kind = ""
      BY <2>2, <1>3 DEF Open
    <3>2. server'.round <= driver'.round
      BY <2>2, <1>2
    <3>. QED  BY <3>1, <3>2 DEF PhasesAgree
  <2>. QED  BY <2>5, <2>7, <2>8, <2>9 DEF ServerInv
<1>6. CASE ~(driver.round < NumRounds)
  <2>1. /\ server' = [server EXCEPT !.finished = TRUE]
        /\ driver' = [driver EXCEPT !.at = "lingering", !.got = {}]
    BY <1>6 DEF NextRound
  <2>2. /\ server' \in RoundState /\ driver' \in Driver /\ driver'.at = "lingering"
        /\ server'.round = server.round /\ server'.kind = server.kind
        /\ server'.results = server.results
        /\ driver'.round = driver.round /\ driver'.kind = driver.kind
    BY <2>1, <1>1 DEF Driver, RoundState
  <2>3. Phase' = Phase
    BY <2>2 DEF Phase
  <2>4. AnswersSound'
    BY <2>2, <2>3, <1>4 DEF AnswersSound
  <2>5. ServerTypeOK' /\ PhasesAgree'
    BY <2>2, <1>2, <1>3 DEF ServerInv, ServerTypeOK, PhasesAgree, Open
  <2>. QED  BY <2>3, <2>4, <2>5 DEF ServerInv, MovesOn
<1>. QED  BY <1>5, <1>6

LEMMA OpenPhaseSound ==
  ASSUME ServerInv, driver.at = "configuring",
         NEW asked \in SUBSET Cluster, OpenPhase(asked)
  PROVE  ServerInv' /\ MovesOn
<1>1. server \in RoundState /\ driver \in Driver
  BY DEF ServerInv, ServerTypeOK
<1>2. server.round \in Nat /\ driver.round \in Nat /\ server.round <= driver.round
  BY <1>1, RoundsAreNumbers DEF ServerInv, PhasesAgree
<1>3. /\ driver' \in Driver /\ driver'.at = "collecting"
      /\ driver'.round = driver.round /\ driver'.kind = driver.kind
  BY <1>1 DEF OpenPhase, Driver
<1>4. /\ server' \in RoundState
      /\ server'.round = driver.round /\ server'.kind = driver.kind
      /\ server'.results = {}
  <2>1. driver.round \in 0 .. NumRounds /\ driver.kind \in Kind
    BY <1>1, RoundAssumption DEF RoundAssumption, Driver, Round
  <2>. QED  BY <2>1, <1>1 DEF OpenPhase, Opened, RoundState
<1>5. MovesOn
  BY <1>2, <1>3, <1>4, RoundsAreNumbers DEF MovesOn, Behind, Phase
<1>6. AnswersSound'
  BY <1>3, <1>4 DEF AnswersSound, Sound
<1>7. ServerTypeOK'
  BY <1>3, <1>4 DEF OpenPhase, ServerInv, ServerTypeOK
<1>8. PhasesAgree'
  BY <1>2, <1>3, <1>4 DEF PhasesAgree, Open
<1>. QED  BY <1>5, <1>6, <1>7, <1>8 DEF ServerInv

(* Moves within a phase: round and kind of the driver stay. *)
LEMMA WithinPhaseSound ==
  ASSUME ServerInv,
         WaitForClients \/ StopWaiting \/ TimeOut \/ CopyAnswers \/ ClosePhase \/ ShutDown
  PROVE  ServerInv' /\ MovesOn
<1>1. /\ server \in RoundState /\ driver \in Driver
      /\ Sound(server.results, server.round, Phase)
      /\ PhasesAgree
  BY DEF ServerInv, ServerTypeOK, AnswersSound
<1>2. /\ live' = live /\ seeded' = seeded /\ server' \in RoundState /\ driver' \in Driver
      /\ server'.round = server.round /\ server'.results = server.results
      /\ driver'.round = driver.round /\ driver'.kind = driver.kind
  <2>1. CASE WaitForClients \/ StopWaiting \/ TimeOut \/ ShutDown
    BY <2>1, <1>1 DEF WaitForClients, StopWaiting, TimeOut, ShutDown, Driver
  <2>2. CASE CopyAnswers
    BY <2>2, <1>1 DEF CopyAnswers, RoundState, Driver
  <2>3. CASE ClosePhase
    BY <2>3, <1>1 DEF ClosePhase, Closed, RoundState, Driver
  <2>. QED  BY <2>1, <2>2, <2>3
<1>3. Phase' = Phase
  BY <1>2 DEF Phase
<1>4. PhasesAgree'
  <2>1. CASE WaitForClients \/ ShutDown
    <3>1. /\ driver'.at \notin Open \cup {"aggregating"} /\ server' = server
          /\ driver.at \notin Open
      BY <2>1, <1>1 DEF WaitForClients, ShutDown, Driver, Open
    <3>. QED  BY <3>1, <1>1, <1>2 DEF PhasesAgree
  <2>2. CASE StopWaiting \/ TimeOut \/ CopyAnswers
    <3>1. driver.at \in Open /\ driver'.at \in Open /\ server' = server
      BY <2>2, <1>1 DEF StopWaiting, TimeOut, CopyAnswers, Driver, Open
    <3>. QED  BY <3>1, <1>1, <1>2 DEF PhasesAgree
  <2>3. CASE ClosePhase
    <3>1. driver.at \in Open /\ driver'.at \notin Open /\ server'.kind = ""
      BY <2>3, <1>1 DEF ClosePhase, Closed, Driver, RoundState, Open
    <3>. QED  BY <3>1, <1>1, <1>2 DEF PhasesAgree
  <2>. QED  BY <2>1, <2>2, <2>3
<1>5. driver'.at \in {"closing", "aggregating"} => Sound(driver'.got, driver.round, Phase)
  <2>1. CASE CopyAnswers
    BY <2>1, <1>1 DEF CopyAnswers, Driver, PhasesAgree, Open
  <2>2. CASE ClosePhase
    BY <2>2, <1>1 DEF ClosePhase, Driver, ServerInv, AnswersSound
  <2>3. CASE WaitForClients \/ StopWaiting \/ TimeOut \/ ShutDown
    BY <2>3, <1>1 DEF WaitForClients, StopWaiting, TimeOut, ShutDown, Driver
  <2>. QED  BY <2>1, <2>2, <2>3
<1>6. AnswersSound'
  BY <1>1, <1>2, <1>3, <1>5 DEF AnswersSound
<1>7. ServerTypeOK'
  BY <1>2 DEF ServerInv, ServerTypeOK
<1>. QED  BY <1>3, <1>4, <1>6, <1>7 DEF ServerInv, MovesOn

LEMMA AggregateFitSound ==
  ASSUME ServerInv, AggregateFit
  PROVE  ServerInv' /\ MovesOn
<1>1. /\ server \in RoundState /\ driver \in Driver /\ seeded \in BOOLEAN
      /\ Sound(server.results, server.round, Phase)
  BY DEF ServerInv, ServerTypeOK, AnswersSound
<1>2. /\ server' = server /\ live' = live /\ seeded' \in BOOLEAN /\ driver' \in Driver
      /\ driver'.at = "configuring" /\ driver.at = "aggregating"
      /\ driver'.round = driver.round /\ driver'.kind = "evaluate"
  BY <1>1 DEF AggregateFit, Driver, Kind
<1>3. Phase' = <<server.round, driver.round, "evaluate">>
  BY <1>2 DEF Phase
<1>4. \A t : Behind(t, Phase) => Behind(t, Phase')
  BY <1>3 DEF Behind, Phase
<1>5. AnswersSound'
  BY <1>1, <1>2, <1>4 DEF AnswersSound, Sound
<1>6. ServerTypeOK' /\ PhasesAgree'
  BY <1>2 DEF ServerInv, ServerTypeOK, PhasesAgree, Open
<1>. QED  BY <1>4, <1>5, <1>6 DEF ServerInv, MovesOn

LEMMA DriveSound ==
  ASSUME ServerInv, Drive
  PROVE  ServerInv' /\ MovesOn
<1>1. CASE ConfigureFit
  <2>1. CASE live # {} /\ \E asked \in Samples : OpenPhase(asked)
    <3>1. PICK asked \in Samples : OpenPhase(asked)
      BY <2>1
    <3>2. asked \in SUBSET Cluster
      BY DEF Samples, ServerInv, ServerTypeOK
    <3>. QED  BY <3>1, <3>2, <1>1, OpenPhaseSound DEF ConfigureFit
  <2>2. CASE NextRound /\ UNCHANGED <<live, seeded>>
    BY <2>2, <1>1, NextRoundSound DEF ConfigureFit
  <2>. QED  BY <1>1, <2>1, <2>2 DEF ConfigureFit
<1>2. CASE ConfigureEvaluate
  <2>1. CASE OpenPhase(live)
    BY <2>1, <1>2, OpenPhaseSound DEF ConfigureEvaluate, ServerInv, ServerTypeOK
  <2>2. CASE NextRound /\ UNCHANGED <<live, seeded>>
    BY <2>2, <1>2, NextRoundSound DEF ConfigureEvaluate
  <2>. QED  BY <1>2, <2>1, <2>2 DEF ConfigureEvaluate
<1>3. CASE AggregateFit
  BY <1>3, AggregateFitSound
<1>4. CASE AggregateEvaluate
  BY <1>4, NextRoundSound DEF AggregateEvaluate
<1>. QED  BY <1>1, <1>2, <1>3, <1>4, WithinPhaseSound DEF Drive
------------------------------------------------------------------------------
LEMMA InitSound == Init => Inv
<1>. SUFFICES ASSUME Init PROVE Inv
  OBVIOUS
<1>1. /\ server = [round |-> 0, kind |-> "", expected |-> {}, results |-> {},
                   failures |-> {}, finished |-> FALSE, stopped |-> {}]
      /\ driver = [at |-> "waiting", round |-> 1, kind |-> "fit", got |-> {}]
      /\ live = {} /\ seeded \in BOOLEAN
  BY DEF Init, ServerInit
<1>2. 0 \in 0 .. NumRounds /\ 1 \in Round /\ 0 \in 0 .. MaxStarts
  BY RoundAssumption, ClientsAssumption DEF RoundAssumption, ClientsAssumption, Round
<1>3. ServerTypeOK
  BY <1>1, <1>2 DEF ServerTypeOK, RoundState, Driver, Kind
<1>4. PhasesAgree
  <2>1. driver.at \notin Open \cup {"aggregating"} /\ server.kind = ""
    BY <1>1 DEF Open
  <2>2. server.round = 0 /\ driver.round = 1
    BY <1>1
  <2>3. server.round <= driver.round
    BY <2>2, Z3
  <2>. QED  BY <2>1, <2>3 DEF PhasesAgree
<1>5. AnswersSound
  BY <1>1 DEF AnswersSound, Sound
<1>6. ClientTypeOK
  BY <1>2 DEF Init, ClientTypeOK, Client
<1>7. TasksBehind /\ NetBehind
  BY DEF Init, TasksBehind, NetBehind, Busy
<1>. QED  BY <1>3, <1>4, <1>5, <1>6, <1>7 DEF Inv, ServerInv, ClientInv

LEMMA NextSound == Inv /\ [Next]_vars => Inv'
<1>. SUFFICES ASSUME Inv, [Next]_vars PROVE Inv'
  OBVIOUS
<1>1. /\ ServerInv /\ ClientInv
      /\ server \in RoundState /\ live \subseteq Cluster /\ driver \in Driver
      /\ seeded \in BOOLEAN
      /\ client \in [Cluster -> Client] /\ net \subseteq Report
      /\ starts \in 0 .. MaxStarts
  BY DEF Inv, ServerInv, ServerTypeOK, ClientInv, ClientTypeOK
<1>2. CASE Driving
  <2>1. ServerInv' /\ MovesOn
    BY <1>1, <1>2, DriveSound DEF Driving
  <2>2. ClientInv'
    BY <1>1, <1>2, <2>1, ClientsAtRest DEF Driving, MovesOn
  <2>. QED  BY <2>1, <2>2 DEF Inv
<1>3. ASSUME NEW c \in Cluster, Start(c)
      PROVE  Inv'
  <2>1. ServerInv' /\ Phase' = Phase
    BY <1>1, <1>3, ServerAtRest DEF Start, Join, Touch
  <2>2. [at |-> "polling", task |-> NoTask] \in Client
    BY DEF Client
  <2>3. starts' \in 0 .. MaxStarts
    BY <1>1, <1>3, ClientsAssumption DEF ClientsAssumption, Start
  <2>4. ClientInv'
    <3>. DEFINE new == [at |-> "polling", task |-> NoTask]
    <3>1. client' = [client EXCEPT ![c] = new] /\ net' = net
      BY <1>3 DEF Start
    <3>2. new.at \notin Busy
      BY DEF Busy
    <3>. HIDE DEF new
    <3>. QED  BY <3>1, <3>2, <2>1, <2>2, <2>3, <1>1, ClientMoves DEF new
  <2>. QED  BY <2>1, <2>4 DEF Inv
<1>4. ASSUME NEW c \in Cluster, Beat(c) \/ Silence(c)
      PROVE  Inv'
  <2>1. /\ UNCHANGED <<server, driver, seeded, client, net, starts>>
        /\ live' \subseteq Cluster
    BY <1>1, <1>4 DEF Beat, Silence, Join, Touch, FallSilent
  <2>2. ServerInv' /\ Phase' = Phase
    BY <1>1, <2>1, ServerAtRest
  <2>3. ClientInv'
    BY <1>1, <2>1, <2>2, ClientsAtRest
  <2>. QED  BY <2>2, <2>3 DEF Inv
<1>5. ASSUME NEW c \in Cluster, GetTask(c)
      PROVE  Inv'
  <2>. DEFINE task == [round |-> server.round, kind |-> server.kind]
              new  == [at |-> "working", task |-> task]
  <2>1. /\ client' = [client EXCEPT ![c] = new] /\ net' = net /\ starts' = starts
        /\ UNCHANGED serverVars /\ server.kind # ""
    BY <1>5 DEF GetTask, PollTask, HasTask
  <2>2. ServerInv' /\ Phase' = Phase
    BY <1>1, <2>1, ServerAtRest DEF serverVars
  <2>3. server.round = driver.round /\ server.kind = driver.kind
    BY <1>1, <2>1 DEF ServerInv, PhasesAgree
  <2>4. task \in Task
    BY <1>1, <2>3 DEF Driver, Task
  <2>5. Behind(task, Phase)
    BY <1>1, <2>3, RoundsAreNumbers DEF Behind, Phase
  <2>6. new \in Client
    BY <2>4 DEF Client
  <2>7. new.at \in Busy => new.task \in Task /\ Behind(new.task, Phase)
    BY <2>4, <2>5
  <2>. HIDE DEF new, task
  <2>8. ClientInv'
    BY <1>1, <2>1, <2>2, <2>6, <2>7, ClientMoves
  <2>. QED  BY <2>2, <2>8 DEF Inv
<1>6. ASSUME NEW c \in Cluster, NEW to \in {"polling", "working", "reporting", "failing",
                                            "stopped", "gone"},
             Moved(c, to), net' = net, starts' = starts, Phase' = Phase,
             to \in Busy => client[c].at \in Busy
      PROVE  ClientInv'
  <2>. DEFINE new == [client[c] EXCEPT !.at = to]
  <2>1. client[c] \in Client
    BY <1>1
  <2>2. new \in Client /\ new.at = to /\ new.task = client[c].task
    BY <2>1 DEF Client
  <2>3. client' = [client EXCEPT ![c] = new]
    BY <1>1, <1>6 DEF Moved
  <2>4. new.at \in Busy => new.task \in Task /\ Behind(new.task, Phase)
    BY <1>1, <1>6, <2>2 DEF ClientInv, TasksBehind
  <2>. HIDE DEF new
  <2>. QED  BY <1>1, <1>6, <2>2, <2>3, <2>4, ClientMoves
<1>7. ASSUME NEW c \in Cluster, GetStop(c) \/ StopUnheard(c)
      PROVE  Inv'
  <2>1. /\ server' = [server EXCEPT !.stopped = @ \cup {c}]
        /\ UNCHANGED <<live, driver, seeded, net, starts>>
    BY <1>7 DEF GetStop, StopUnheard, PollStop
  <2>2. /\ server' \in RoundState /\ server'.round = server.round
        /\ server'.kind = server.kind /\ server'.results = server.results
    BY <1>1, <2>1 DEF RoundState
  <2>3. Phase' = Phase
    BY <2>1, <2>2 DEF Phase
  <2>4. ServerTypeOK'
    BY <1>1, <2>1, <2>2 DEF ServerTypeOK
  <2>5. PhasesAgree'
    BY <1>1, <2>1, <2>2 DEF ServerInv, PhasesAgree
  <2>6. AnswersSound'
    BY <1>1, <2>1, <2>2, <2>3 DEF ServerInv, AnswersSound
  <2>7. ClientInv'
    <3>1. CASE GetStop(c)
      BY <3>1, <1>6, <2>1, <2>3 DEF GetStop, Busy
    <3>2. CASE StopUnheard(c)
      BY <3>2, <1>1, <2>3, ClientsAtRest DEF StopUnheard
    <3>. QED  BY <1>7, <3>1, <3>2
  <2>. QED  BY <2>4, <2>5, <2>6, <2>7 DEF Inv, ServerInv
<1>8. ASSUME NEW c \in Cluster, Work(c) \/ GiveUp(c) \/ Die(c)
      PROVE  Inv'
  <2>1. UNCHANGED <<serverVars, net, starts>>
    BY <1>8 DEF Work, GiveUp, Die
  <2>2. ServerInv' /\ Phase' = Phase
    BY <1>1, <2>1, ServerAtRest DEF serverVars
  <2>3. ClientInv'
    <3>1. CASE Work(c)
      BY <3>1, <1>6, <2>1, <2>2 DEF Work, Busy
    <3>2. CASE GiveUp(c)
      BY <3>2, <1>6, <2>1, <2>2 DEF GiveUp, Busy
    <3>3. CASE Die(c)
      BY <3>3, <1>6, <2>1, <2>2 DEF Die, Busy
    <3>. QED  BY <1>8, <3>1, <3>2, <3>3
  <2>. QED  BY <2>2, <2>3 DEF Inv
<1>9. ASSUME NEW c \in Cluster, ReportHeard(c) \/ ReportUnheard(c)
      PROVE  Inv'
  <2>1. Reporting(c) /\ Result(ReportOf(c)) /\ UNCHANGED <<net, starts>>
    BY <1>9 DEF ReportHeard, ReportUnheard
  <2>2. ReportOf(c) \in Report /\ Behind(ReportOf(c), Phase)
    BY <1>1, <2>1, ReportBehind
  <2>3. ServerInv' /\ Phase' = Phase
    BY <1>1, <2>1, <2>2, ResultSound
  <2>4. ClientInv'
    <3>1. CASE ReportHeard(c)
      <4>1. Moved(c, AfterReport(c)) /\ AfterReport(c) \in {"polling", "gone"}
        BY <3>1 DEF ReportHeard, AfterReport
      <4>. QED  BY <4>1, <1>6, <2>1, <2>3 DEF Busy
    <3>2. CASE ReportUnheard(c)
      BY <3>2, <1>1, <2>1, <2>3, ClientsAtRest DEF ReportUnheard
    <3>. QED  BY <1>9, <3>1, <3>2
  <2>. QED  BY <2>3, <2>4 DEF Inv
<1>10. ASSUME NEW c \in Cluster, ReportDelayed(c)
       PROVE  Inv'
  <2>1. UNCHANGED <<serverVars, client, starts>> /\ net' = net \cup {ReportOf(c)}
    BY <1>10 DEF ReportDelayed
  <2>2. ServerInv' /\ Phase' = Phase
    BY <1>1, <2>1, ServerAtRest DEF serverVars
  <2>3. ReportOf(c) \in Report /\ Behind(ReportOf(c), Phase)
    BY <1>1, <1>10, ReportBehind DEF ReportDelayed
  <2>4. ClientInv'
    BY <1>1, <2>1, <2>2, <2>3 DEF ClientInv, ClientTypeOK, TasksBehind, NetBehind
  <2>. QED  BY <2>2, <2>4 DEF Inv
<1>11. ASSUME NEW r \in net, Arrive(r)
       PROVE  Inv'
  <2>1. Result(r) /\ UNCHANGED <<client, starts>> /\ net' = net \ {r}
    BY <1>11 DEF Arrive
  <2>2. r \in Report /\ Behind(r, Phase)
    BY <1>1 DEF ClientInv, NetBehind
  <2>3. ServerInv' /\ Phase' = Phase
    BY <1>1, <2>1, <2>2, ResultSound
  <2>4. ClientInv'
    BY <1>1, <2>1, <2>3, ClientsAtRest
  <2>. QED  BY <2>3, <2>4 DEF Inv
<1>12. ASSUME NEW r \in net, Lose(r)
       PROVE  Inv'
  <2>1. UNCHANGED <<serverVars, client, starts>> /\ net' = net \ {r}
    BY <1>12 DEF Lose
  <2>2. ServerInv' /\ Phase' = Phase
    BY <1>1, <2>1, ServerAtRest DEF serverVars
  <2>3. ClientInv'
    BY <1>1, <2>1, <2>2, ClientsAtRest
  <2>. QED  BY <2>2, <2>3 DEF Inv
<1>13. CASE UNCHANGED vars
  <2>1. ServerInv' /\ Phase' = Phase
    BY <1>1, <1>13, ServerAtRest DEF vars
  <2>2. ClientInv'
    BY <1>1, <1>13, <2>1, ClientsAtRest DEF vars
  <2>. QED  BY <2>1, <2>2 DEF Inv
<1>. QED
  BY <1>2, <1>3, <1>4, <1>5, <1>7, <1>8, <1>9, <1>10, <1>11, <1>12, <1>13 DEF Next

LEMMA RoundsInvariance == Spec => []Inv
<1>. QED  BY InitSound, NextSound, PTL DEF Spec

(* The shared state, the driver, the clients and the requests keep their   *)
(* types.                                                                  *)
THEOREM RoundTypeCorrect == Spec => []RoundTypeOK
<1>1. Inv => RoundTypeOK
  BY DEF Inv, ServerInv, ClientInv, ServerTypeOK, ClientTypeOK, RoundTypeOK
<1>. QED  BY <1>1, RoundsInvariance, PTL

(* What aggregate_fit is given are fit answers to the round it aggregates, *)
(* one per cluster and none an error, whatever is late, repeated or lost   *)
(* and although submit never looks at the kind of an answer.               *)
THEOREM OnlyFitReachesAggregateFit == Spec => []OnlyFitIsMerged
<1>1. Inv => OnlyFitIsMerged
  <2>. SUFFICES ASSUME Inv, driver.at = "aggregating", driver.kind = "fit",
                       NEW r \in driver.got
                PROVE  /\ r.kind = "fit" /\ r.round = driver.round /\ r.status = "ok"
                       /\ \A q \in driver.got : q.cluster = r.cluster => q = r
    BY DEF OnlyFitIsMerged
  <2>1. Sound(driver.got, driver.round, Phase)
    BY DEF Inv, ServerInv, AnswersSound
  <2>. QED  BY <2>1 DEF Sound, Behind, Phase
<1>. QED  BY <1>1, RoundsInvariance, PTL

------------------------------------------------------------------------------
(* The order of the tasks.  A process that polls while the phase of its    *)
(* last task is still open is not asked again, because that phase has its  *)
(* answer or did not expect one.                                           *)

ToAnswer == server.expected \ Answered(server)

Settled(c) ==
  \/ Before(client[c].task, driver)
  \/ /\ client[c].task.round = driver.round /\ client[c].task.kind = driver.kind
     /\ driver.at \notin {"waiting", "configuring"}
     /\ driver.at \in Open /\ client[c].at = "polling" => c \notin ToAnswer

InOrder == \A c \in Cluster : Settled(c)

(* A process that keeps its task, and does not begin to poll, stays settled *)
(* as long as the driver rests and nobody new is asked.                     *)
LEMMA SettledStays ==
  ASSUME InOrder, NEW c \in Cluster, driver' = driver, ToAnswer' \subseteq ToAnswer,
         client'[c].task = client[c].task,
         client'[c].at = "polling" => client[c].at = "polling"
  PROVE  Settled(c)'
<1>1. Settled(c)
  BY DEF InOrder
<1>. QED  BY <1>1 DEF Settled, Before, Open

(* /result asks nobody anew, and takes the sender's answer off the open    *)
(* phase if it is an answer to that round.                                 *)
LEMMA ResultAnswers ==
  ASSUME server \in RoundState, NEW r \in Report, Result(r)
  PROVE  /\ ToAnswer' \subseteq ToAnswer
         /\ r.round = server.round => r.cluster \notin ToAnswer'
<1>1. server' = Submitted(server, r)
  BY DEF Result
<1>2. CASE r.round # server.round \/ r.cluster \notin server.expected
  BY <1>1, <1>2 DEF Submitted, ToAnswer, Answered
<1>3. CASE r.round = server.round /\ r.cluster \in server.expected
  <2>1. CASE r.status = "ok"
    <3>1. /\ server'.expected = server.expected /\ server'.failures = server.failures
          /\ server'.results = {x \in server.results : x.cluster # r.cluster} \cup {r}
      BY <1>1, <1>3, <2>1 DEF Submitted, RoundState
    <3>2. Answered(server) \cup {r.cluster} \subseteq Answered(server')
      BY <3>1 DEF Answered
    <3>. QED  BY <3>1, <3>2 DEF ToAnswer
  <2>2. CASE r.status # "ok"
    <3>1. /\ server'.expected = server.expected /\ server'.results = server.results
          /\ server'.failures = server.failures \cup {r.cluster}
      BY <1>1, <1>3, <2>2 DEF Submitted, RoundState
    <3>2. Answered(server) \cup {r.cluster} \subseteq Answered(server')
      BY <3>1 DEF Answered
    <3>. QED  BY <3>1, <3>2 DEF ToAnswer
  <2>. QED  BY <2>1, <2>2
<1>. QED  BY <1>2, <1>3

(* The next round is after everything that was asked so far. *)
LEMMA NextRoundInOrder ==
  ASSUME ServerInv, ClientTypeOK, InOrder, NextRound, client' = client,
         driver.at \in {"configuring", "aggregating"}
  PROVE  InOrder'
<1>. SUFFICES ASSUME NEW c \in Cluster PROVE Settled(c)'
  BY DEF InOrder
<1>1. /\ driver \in Driver /\ driver.round \in Nat /\ client[c] \in Client
      /\ Settled(c)
  BY RoundsAreNumbers DEF ServerInv, ServerTypeOK, ClientTypeOK, InOrder
<1>2. client[c].task.round \in Nat
  <2>1. client[c].task \in Task \/ client[c].task = NoTask
    BY <1>1 DEF Client
  <2>2. NoTask.round = 0
    BY DEF NoTask
  <2>. QED  BY <2>1, <2>2, RoundsAreNumbers
<1>3. client[c].task.round <= driver.round
  BY <1>1, <1>2 DEF Settled, Before
<1>4. CASE driver.round < NumRounds
  <2>1. driver'.round = driver.round + 1
    BY <1>1, <1>4 DEF NextRound, Driver
  <2>2. client[c].task.round < driver'.round
    BY <2>1, <1>1, <1>2, <1>3
  <2>. QED  BY <2>2 DEF Settled, Before
<1>5. CASE ~(driver.round < NumRounds)
  <2>1. /\ driver'.round = driver.round /\ driver'.kind = driver.kind
        /\ driver'.at = "lingering"
    BY <1>1, <1>5 DEF NextRound, Driver
  <2>. QED  BY <2>1, <1>1 DEF Settled, Before, Open
<1>. QED  BY <1>4, <1>5

(* A phase is opened for nobody who has had it. *)
LEMMA OpenPhaseInOrder ==
  ASSUME ServerInv, InOrder, driver.at = "configuring", client' = client,
         NEW asked, OpenPhase(asked)
  PROVE  InOrder'
<1>1. driver'.round = driver.round /\ driver'.kind = driver.kind
  BY DEF OpenPhase, ServerInv, ServerTypeOK, Driver
<1>. QED  BY <1>1 DEF InOrder, Settled, Before

(* The driver's steps keep the tasks in order. *)
LEMMA DriveInOrder ==
  ASSUME ServerInv, ClientTypeOK, InOrder, Drive, client' = client
  PROVE  InOrder'
<1>1. driver \in Driver /\ server \in RoundState
  BY DEF ServerInv, ServerTypeOK
<1>2. CASE ConfigureFit
  <2>1. CASE \E asked \in Samples : OpenPhase(asked)
    BY <2>1, <1>2, OpenPhaseInOrder DEF ConfigureFit
  <2>2. CASE NextRound
    BY <2>2, <1>2, NextRoundInOrder DEF ConfigureFit
  <2>. QED  BY <1>2, <2>1, <2>2 DEF ConfigureFit
<1>3. CASE ConfigureEvaluate
  <2>1. CASE OpenPhase(live)
    BY <2>1, <1>3, OpenPhaseInOrder DEF ConfigureEvaluate
  <2>2. CASE NextRound
    BY <2>2, <1>3, NextRoundInOrder DEF ConfigureEvaluate
  <2>. QED  BY <1>3, <2>1, <2>2 DEF ConfigureEvaluate
<1>4. CASE AggregateEvaluate
  BY <1>4, NextRoundInOrder DEF AggregateEvaluate
<1>5. CASE AggregateFit
  <2>1. /\ driver.kind = "fit" /\ driver'.kind = "evaluate"
        /\ driver'.round = driver.round
    BY <1>1, <1>5 DEF AggregateFit, Driver
  <2>2. ASSUME NEW c \in Cluster PROVE Settled(c)'
    <3>1. Settled(c)
      BY DEF InOrder
    <3>. QED  BY <3>1, <2>1 DEF Settled, Before
  <2>. QED  BY <2>2 DEF InOrder
<1>6. CASE WaitForClients
  <2>1. /\ driver.at = "waiting" /\ driver'.round = driver.round
        /\ driver'.kind = driver.kind
    BY <1>1, <1>6 DEF WaitForClients, Driver
  <2>. QED  BY <2>1 DEF InOrder, Settled, Before
<1>7. CASE ClosePhase \/ ShutDown
  <2>1. /\ driver'.at \notin Open /\ driver'.at \notin {"waiting", "configuring"}
        /\ driver'.round = driver.round /\ driver'.kind = driver.kind
    BY <1>1, <1>7 DEF ClosePhase, ShutDown, Driver, Open
  <2>. QED  BY <2>1 DEF InOrder, Settled, Before
<1>8. CASE StopWaiting \/ TimeOut \/ CopyAnswers
  <2>1. /\ driver.at \in Open /\ driver'.at \in Open /\ server' = server
        /\ driver'.round = driver.round /\ driver'.kind = driver.kind
    BY <1>1, <1>8 DEF StopWaiting, TimeOut, CopyAnswers, Driver, Open
  <2>2. ToAnswer' = ToAnswer
    BY <2>1 DEF ToAnswer
  <2>. QED  BY <2>1, <2>2 DEF InOrder, Settled, Before, Open
<1>. QED  BY <1>2, <1>3, <1>4, <1>5, <1>6, <1>7, <1>8 DEF Drive

(* Who polls and is handed a task had only tasks before it. *)
LEMMA GetTaskAdvances ==
  ASSUME Inv, InOrder, NEW c \in Cluster, GetTask(c)
  PROVE  /\ client'[c].task.round = driver.round /\ client'[c].task.kind = driver.kind
         /\ client'[c].at = "working" /\ driver.at \in Open
         /\ Before(client[c].task, driver)
<1>1. client \in [Cluster -> Client] /\ PhasesAgree
  BY DEF Inv, ClientInv, ClientTypeOK, ServerInv
<1>2. server.kind # "" /\ c \in ToAnswer
  BY DEF GetTask, PollTask, HasTask, ToAnswer
<1>3. driver.at \in Open /\ server.round = driver.round /\ server.kind = driver.kind
  BY <1>1, <1>2 DEF PhasesAgree
<1>4. client'[c] = [at |-> "working",
                    task |-> [round |-> server.round, kind |-> server.kind]]
  BY <1>1 DEF GetTask
<1>5. Before(client[c].task, driver)
  BY <1>2, <1>3 DEF GetTask, InOrder, Settled
<1>. QED  BY <1>3, <1>4, <1>5

(* One cluster's process moves, the others stay settled with it. *)
LEMMA OneMoves ==
  ASSUME Inv, InOrder, NEW c \in Cluster, NEW new,
         client' = [client EXCEPT ![c] = new],
         driver' = driver, ToAnswer' \subseteq ToAnswer, Settled(c)'
  PROVE  InOrder'
<1>1. client \in [Cluster -> Client]
  BY DEF Inv, ClientInv, ClientTypeOK
<1>2. ASSUME NEW d \in Cluster, d # c PROVE Settled(d)'
  <2>1. client'[d] = client[d]
    BY <1>1, <1>2
  <2>. QED  BY <2>1, SettledStays
<1>. QED  BY <1>2 DEF InOrder

(* Nobody has a task at first. *)
LEMMA InitInOrder == Init => InOrder
<1>. SUFFICES ASSUME Init, NEW c \in Cluster PROVE Settled(c)
  BY DEF InOrder
<1>1. client[c].task.round = 0 /\ driver.round = 1
  BY DEF Init, ServerInit, NoTask
<1>. QED  BY <1>1 DEF Settled, Before

(* Every step keeps each client's task before the open phase, or answered. *)
LEMMA NextInOrder == Inv /\ InOrder /\ [Next]_vars => InOrder'
<1>. SUFFICES ASSUME Inv, InOrder, [Next]_vars PROVE InOrder'
  OBVIOUS
<1>1. /\ ServerInv /\ ClientTypeOK /\ PhasesAgree
      /\ server \in RoundState /\ driver \in Driver /\ client \in [Cluster -> Client]
  BY DEF Inv, ServerInv, ServerTypeOK, ClientInv, ClientTypeOK
<1>2. CASE Driving
  BY <1>1, <1>2, DriveInOrder DEF Driving
<1>3. ASSUME client' = client, driver' = driver, ToAnswer' \subseteq ToAnswer
      PROVE  InOrder'
  BY <1>3, SettledStays DEF InOrder
<1>4. ASSUME UNCHANGED server PROVE ToAnswer' = ToAnswer
  BY <1>4 DEF ToAnswer
<1>5. ASSUME NEW c \in Cluster, NEW to, Moved(c, to), driver' = driver,
             ToAnswer' \subseteq ToAnswer,
             to = "polling" => Settled(c)'
      PROVE  InOrder'
  <2>. DEFINE new == [client[c] EXCEPT !.at = to]
  <2>1. client' = [client EXCEPT ![c] = new]
    BY <1>1, <1>5 DEF Moved
  <2>2. client'[c].at = to /\ client'[c].task = client[c].task
    BY <1>1, <2>1 DEF Client
  <2>3. Settled(c)'
    BY <1>5, <2>2, SettledStays
  <2>. HIDE DEF new
  <2>. QED  BY <1>5, <2>1, <2>3, OneMoves
<1>6. ASSUME NEW c \in Cluster, Start(c)
      PROVE  InOrder'
  <2>1. /\ client' = [client EXCEPT ![c] = [at |-> "polling", task |-> NoTask]]
        /\ driver' = driver /\ server' = server
    BY <1>6 DEF Start, Join
  <2>2. client'[c].task.round = 0 /\ driver'.round \in Round
    BY <1>1, <2>1 DEF NoTask, Driver
  <2>3. 0 < driver'.round
    BY <2>2, RoundAssumption DEF RoundAssumption, Round
  <2>4. Settled(c)'
    BY <2>2, <2>3 DEF Settled, Before
  <2>. QED  BY <1>4, <2>1, <2>4, OneMoves
<1>7. ASSUME NEW c \in Cluster, Beat(c) \/ Silence(c)
      PROVE  InOrder'
  BY <1>7, <1>3, <1>4 DEF Beat, Silence, Join, FallSilent
<1>8. ASSUME NEW c \in Cluster, GetTask(c)
      PROVE  InOrder'
  <2>. DEFINE new == [at |-> "working",
                      task |-> [round |-> server.round, kind |-> server.kind]]
  <2>1. /\ client' = [client EXCEPT ![c] = new]
        /\ driver' = driver /\ server' = server
    BY <1>8 DEF GetTask, PollTask, serverVars
  <2>2. Settled(c)'
    BY <1>8, <2>1, GetTaskAdvances DEF Settled, Open
  <2>. HIDE DEF new
  <2>. QED  BY <1>4, <2>1, <2>2, OneMoves
<1>9. ASSUME NEW c \in Cluster, GetStop(c) \/ StopUnheard(c)
      PROVE  InOrder'
  <2>1. driver' = driver /\ server' = [server EXCEPT !.stopped = @ \cup {c}]
    BY <1>9 DEF GetStop, StopUnheard, PollStop
  <2>2. ToAnswer' = ToAnswer
    BY <1>1, <2>1 DEF ToAnswer, Answered, RoundState
  <2>. QED  BY <1>3, <1>5, <1>9, <2>1, <2>2 DEF GetStop, StopUnheard
<1>10. ASSUME NEW c \in Cluster, Work(c) \/ GiveUp(c) \/ Die(c)
       PROVE  InOrder'
  <2>1. driver' = driver /\ ToAnswer' = ToAnswer
    BY <1>4, <1>10 DEF Work, GiveUp, Die, serverVars
  <2>. QED  BY <1>5, <1>10, <2>1 DEF Work, GiveUp, Die
<1>11. ASSUME NEW c \in Cluster, ReportHeard(c) \/ ReportUnheard(c)
       PROVE  InOrder'
  <2>1. Reporting(c) /\ Result(ReportOf(c)) /\ driver' = driver
    BY <1>11 DEF ReportHeard, ReportUnheard, Result
  <2>2. ReportOf(c) \in Report
    BY <2>1, ReportBehind DEF Inv
  <2>3. /\ ToAnswer' \subseteq ToAnswer
        /\ client[c].task.round = server.round => c \notin ToAnswer'
    BY <1>1, <2>1, <2>2, ResultAnswers DEF ReportOf
  <2>4. CASE ReportUnheard(c)
    BY <1>3, <2>1, <2>3, <2>4 DEF ReportUnheard
  <2>5. CASE ReportHeard(c)
    <3>1. Moved(c, AfterReport(c))
      BY <2>5 DEF ReportHeard
    <3>2. client'[c].task = client[c].task
      BY <1>1, <3>1 DEF Moved, Client
    <3>3. Settled(c)
      BY DEF InOrder
    <3>4. driver.at \in Open => server.round = driver.round
      BY <1>1 DEF PhasesAgree
    <3>5. Settled(c)'
      BY <2>1, <2>3, <3>2, <3>3, <3>4 DEF Settled, Before, Open
    <3>. QED  BY <1>5, <2>1, <2>3, <3>1, <3>5
  <2>. QED  BY <1>11, <2>4, <2>5
<1>12. ASSUME NEW c \in Cluster, ReportDelayed(c)
       PROVE  InOrder'
  BY <1>3, <1>4, <1>12 DEF ReportDelayed, serverVars
<1>13. ASSUME NEW r \in net, Arrive(r)
       PROVE  InOrder'
  <2>1. r \in Report /\ Result(r) /\ client' = client /\ driver' = driver
    BY <1>1, <1>13 DEF ClientTypeOK, Arrive, Result
  <2>. QED  BY <1>1, <1>3, <2>1, ResultAnswers
<1>14. ASSUME NEW r \in net, Lose(r)
       PROVE  InOrder'
  BY <1>3, <1>4, <1>14 DEF Lose, serverVars
<1>15. CASE UNCHANGED vars
  BY <1>3, <1>4, <1>15 DEF vars
<1>. QED
  BY <1>2, <1>6, <1>7, <1>8, <1>9, <1>10, <1>11, <1>12, <1>13, <1>14, <1>15 DEF Next

(* Tasks are in order in every state. *)
LEMMA OrderInvariance == Spec => [](Inv /\ InOrder)
<1>. QED  BY InitSound, NextSound, InitInOrder, NextInOrder, PTL DEF Spec

(* A process is never given a task of a phase that it had one of before,   *)
(* nor of an earlier one, though its report may have been lost, repeated   *)
(* or overtaken: /poll leaves out who has answered, and a process reports  *)
(* before it polls again.                                                  *)
THEOREM TasksOnlyAdvance == Spec => TasksAdvance
<1>. DEFINE Advance == \A c \in Cluster :
              client[c].at = "polling" /\ client'[c].at = "working"
                => Before(client[c].task, client'[c].task)
<1>1. ASSUME Inv, InOrder, [Next]_vars PROVE [Advance]_vars
  <2>. SUFFICES ASSUME Next, NEW c \in Cluster,
                       client[c].at = "polling", client'[c].at = "working"
                PROVE  Before(client[c].task, client'[c].task)
    BY <1>1
  <2>1. client \in [Cluster -> Client]
    BY <1>1 DEF Inv, ClientInv, ClientTypeOK
  <2>2. ASSUME NEW d \in Cluster, NEW new, client' = [client EXCEPT ![d] = new],
               d = c => new.at # "working"
        PROVE  FALSE
    BY <2>1, <2>2
  <2>3. ASSUME NEW d \in Cluster, NEW to, Moved(d, to),
               to # "working"
        PROVE  FALSE
    <3>1. client'[c] = client[c] \/ client'[c].at = to
      BY <2>1, <2>3 DEF Moved, Client
    <3>. QED  BY <2>3, <3>1
  <2>4. client' # client
    OBVIOUS
  <2>5. ASSUME NEW d \in Cluster, GetTask(d)
        PROVE  Before(client[c].task, client'[c].task)
    <3>1. d = c
      BY <2>1, <2>5 DEF GetTask
    <3>. QED  BY <1>1, <2>5, <3>1, GetTaskAdvances DEF Before
  <2>6. ASSUME NEW d \in Cluster, Start(d)
        PROVE  FALSE
    BY <2>2, <2>6 DEF Start
  <2>7. ASSUME NEW d \in Cluster,
               GetStop(d) \/ Work(d) \/ ReportHeard(d) \/ GiveUp(d) \/ Die(d)
        PROVE  FALSE
    BY <2>3, <2>7 DEF GetStop, Work, ReportHeard, AfterReport, GiveUp, Die
  <2>8. ASSUME NEW d \in Cluster,
               Beat(d) \/ Silence(d) \/ StopUnheard(d) \/ ReportUnheard(d) \/ ReportDelayed(d)
        PROVE  FALSE
    BY <2>4, <2>8 DEF Beat, Silence, StopUnheard, ReportUnheard, ReportDelayed
  <2>9. ~Driving /\ \A r \in net : ~Arrive(r) /\ ~Lose(r)
    BY <2>4 DEF Driving, Arrive, Lose
  <2>. QED  BY <2>5, <2>6, <2>7, <2>8, <2>9 DEF Next
<1>. QED  BY <1>1, OrderInvariance, PTL DEF Spec, TasksAdvance

=============================================================================
