------------------------------- MODULE Rounds --------------------------------
(***************************************************************************)
(* The round endpoint with its clients, http_round_client.py, and the      *)
(* requests between them.  A client polls, trains or evaluates, reports    *)
(* and polls again.  A request may reach the server while its reply does   *)
(* not reach the client, which then sends it again; it may arrive after    *)
(* the client has given up on it; it may be lost.  A client that runs out  *)
(* of retries ends its process, and a process may die at any time; jobs    *)
(* are started again under the same cluster id.                            *)
(***************************************************************************)
EXTENDS RoundServer

CONSTANTS MaxStarts,    \* bound: processes started in a behaviour
          MaxInFlight   \* bound: delayed reports at a time

ASSUME ClientsAssumption == MaxStarts \in Nat /\ MaxInFlight \in Nat

VARIABLES client,       \* run_http_client of each cluster
          net,          \* reports sent, not yet arrived, and sent again since
          starts        \* processes started so far

vars == <<server, live, driver, seeded, client, net, starts>>

Task == [round : Round, kind : Kind]
NoTask == [round |-> 0, kind |-> ""]

(* "reporting" retries an answer, "failing" retries an error report. *)
Client == [at   : {"polling", "working", "reporting", "failing", "stopped", "gone"},
           task : Task \cup {NoTask}]

Moved(c, to) == client' = [client EXCEPT ![c].at = to]

ReportOf(c) ==
  [cluster |-> c,
   round   |-> client[c].task.round,
   kind    |-> client[c].task.kind,
   status  |-> IF client[c].at = "reporting" THEN "ok" ELSE "error"]

(* An answer goes back to polling; after an error report the process raises. *)
AfterReport(c) == IF client[c].at = "reporting" THEN "polling" ELSE "gone"
------------------------------------------------------------------------------
Start(c) ==
  /\ client[c].at = "gone" /\ starts < MaxStarts
  /\ starts' = starts + 1
  /\ client' = [client EXCEPT ![c] = [at |-> "polling", task |-> NoTask]]
  /\ Join(c)
  /\ UNCHANGED net

(* The heartbeat thread outlives the loop until the process ends. *)
Beat(c) ==
  /\ client[c].at # "gone"
  /\ Join(c)
  /\ UNCHANGED <<client, net, starts>>

GetTask(c) ==
  /\ client[c].at = "polling"
  /\ PollTask(c)
  /\ client' = [client EXCEPT ![c] =
       [at |-> "working", task |-> [round |-> server.round, kind |-> server.kind]]]
  /\ UNCHANGED <<net, starts>>

GetStop(c) ==
  /\ client[c].at = "polling"
  /\ PollStop(c)
  /\ Moved(c, "stopped")
  /\ UNCHANGED <<net, starts>>

(* The server has noted the stop, the reply is lost, the client polls again. *)
StopUnheard(c) ==
  /\ client[c].at = "polling"
  /\ PollStop(c)
  /\ UNCHANGED <<client, net, starts>>

Work(c) ==
  /\ client[c].at = "working"
  /\ Moved(c, "reporting") \/ Moved(c, "failing")
  /\ UNCHANGED <<serverVars, net, starts>>

Reporting(c) == client[c].at \in {"reporting", "failing"}

ReportHeard(c) ==
  /\ Reporting(c)
  /\ Result(ReportOf(c))
  /\ Moved(c, AfterReport(c))
  /\ UNCHANGED <<net, starts>>

ReportUnheard(c) ==
  /\ Reporting(c)
  /\ Result(ReportOf(c))
  /\ UNCHANGED <<client, net, starts>>

ReportDelayed(c) ==
  /\ Reporting(c)
  /\ ReportOf(c) \notin net /\ Cardinality(net) < MaxInFlight
  /\ net' = net \cup {ReportOf(c)}
  /\ UNCHANGED <<serverVars, client, starts>>

(* All retries of a request failed. *)
GiveUp(c) ==
  /\ \/ client[c].at = "reporting" /\ Moved(c, "failing")
     \/ client[c].at \in {"polling", "failing"} /\ Moved(c, "gone")
  /\ UNCHANGED <<serverVars, net, starts>>

Die(c) ==
  /\ client[c].at # "gone"
  /\ Moved(c, "gone")
  /\ UNCHANGED <<serverVars, net, starts>>

Arrive(r) ==
  /\ r \in net
  /\ net' = net \ {r}
  /\ Result(r)
  /\ UNCHANGED <<client, starts>>

Lose(r) ==
  /\ r \in net
  /\ net' = net \ {r}
  /\ UNCHANGED <<serverVars, client, starts>>

Silence(c) == FallSilent(c) /\ UNCHANGED <<client, net, starts>>

Driving == Drive /\ UNCHANGED <<client, net, starts>>

Init ==
  /\ ServerInit
  /\ client = [c \in Cluster |-> [at |-> "gone", task |-> NoTask]]
  /\ net = {}
  /\ starts = 0

Next ==
  \/ Driving
  \/ \E c \in Cluster :
       \/ Start(c) \/ Beat(c) \/ Silence(c)
       \/ GetTask(c) \/ GetStop(c) \/ StopUnheard(c)
       \/ Work(c)
       \/ ReportHeard(c) \/ ReportUnheard(c) \/ ReportDelayed(c)
       \/ GiveUp(c) \/ Die(c)
  \/ \E r \in net : Arrive(r) \/ Lose(r)

Spec == Init /\ [][Next]_vars
------------------------------------------------------------------------------
(* The driver thread runs; its wait for clients samples the membership     *)
(* every two seconds, and a cluster once heard of stays a member for two   *)
(* minutes, so a wait that is satisfied again and again is seen to be.     *)
(* The deadline is not relied on.                                          *)
DriverFairness ==
  /\ SF_vars(WaitForClients /\ UNCHANGED <<client, net, starts>>)
  /\ WF_vars((ConfigureFit \/ ConfigureEvaluate \/ StopWaiting \/ CopyAnswers
               \/ ClosePhase \/ AggregateFit \/ AggregateEvaluate \/ ShutDown)
             /\ UNCHANGED <<client, net, starts>>)

(* A living client works, and its retries are bounded: it is heard or gives *)
(* up.  A dead one falls silent when its last heartbeat is old enough.      *)
ClientFairness(c) ==
  /\ WF_vars(GetTask(c) \/ GetStop(c) \/ (~Up /\ client[c].at = "polling" /\ GiveUp(c)))
  /\ WF_vars(Work(c))
  /\ WF_vars(ReportHeard(c) \/ (Reporting(c) /\ GiveUp(c)))
  /\ WF_vars(client[c].at = "gone" /\ Silence(c))

FairSpec == Spec /\ DriverFairness /\ \A c \in Cluster : ClientFairness(c)
------------------------------------------------------------------------------
(* Types of the shared state, the driver, the clients and the requests in  *)
(* flight.                                                                 *)
RoundTypeOK ==
  /\ server \in RoundState
  /\ live \subseteq Cluster
  /\ driver \in Driver
  /\ seeded \in BOOLEAN
  /\ client \in [Cluster -> Client]
  /\ net \subseteq Report
  /\ starts \in 0 .. MaxStarts

(* What aggregate_fit is given are fit answers to the very round that is    *)
(* aggregated, at most one per cluster, and none that reported an error,    *)
(* whatever was delayed, repeated or overtaken (RoundState.submit).         *)
OnlyFitIsMerged ==
  driver.at = "aggregating" /\ driver.kind = "fit" =>
    \A r \in driver.got :
       /\ r.kind = "fit" /\ r.round = driver.round /\ r.status = "ok"
       /\ \A q \in driver.got : q.cluster = r.cluster => q = r

Before(t, u) ==
  t.round < u.round \/ (t.round = u.round /\ t.kind # u.kind /\ u.kind = "evaluate")

(* The tasks a process is given only ever advance: no lost reply or repeated *)
(* report makes it train for a round a second time (/poll, /result).         *)
TasksAdvance ==
  [][\A c \in Cluster :
       client[c].at = "polling" /\ client'[c].at = "working"
         => Before(client[c].task, client'[c].task)]_vars

(* Every phase is closed, though clusters fail, die or fall silent in it,   *)
(* and without the help of round_timeout (wait_for_all).                    *)
EveryPhaseEnds == server.kind # "" ~> server.kind = ""

(* If enough clusters keep coming back, the last round is reached           *)
(* (run_rounds), whether or not anything could be merged.                   *)
RunEnds == ([]<>(Cardinality(live) >= MinClients)) => <>server.finished

==============================================================================
