------------------------------ MODULE MCRounds ------------------------------
(***************************************************************************)
(* Instances of Rounds for TLC: all the rounds with one process less than  *)
(* MaxStarts, and with MaxStarts the last round alone, which is a run of   *)
(* one round.                                                              *)
(***************************************************************************)
EXTENDS Rounds

MCInit ==
    /\ \E first \in {1, NumRounds} :
        /\ driver = [at |-> "waiting", round |-> first, kind |-> "fit", got |-> {}]
        /\ starts = IF first = 1 THEN 1 ELSE 0
    /\ server = [round |-> 0, kind |-> "", expected |-> {}, results |-> {},
                 failures |-> {}, finished |-> FALSE, stopped |-> {}]
    /\ live = {} /\ seeded \in BOOLEAN
    /\ client = [c \in Cluster |-> [at |-> "gone", task |-> NoTask]]
    /\ net = {}

MCSpec == MCInit /\ [][Next]_vars /\ DriverFairness /\ \A c \in Cluster : ClientFairness(c)

=============================================================================
