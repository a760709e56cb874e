----------------------------- MODULE MCThreads -----------------------------
(***************************************************************************)
(* The programs with threads, which share no state: MCInit chooses the one *)
(* that runs and the variables of the others keep still.                   *)
(*   31-01  four callers of one_time_init(), one more than in main()       *)
(*   30-02  two threads, three keys, room for MaxElems elements            *)
(*   30-01, 33-01, 53-01  the two threads of each                          *)
(***************************************************************************)
EXTENDS OnceInit, ThreadTree, SmallThreads, TLC

CONSTANTS t1, t2, t3, t4

VARIABLE prog

ASSUME TreeAssumption == TreeConstants
ASSUME CountAssumption == Loops \in Nat /\ MaxRead \in Nat /\ MaxRuns \in Nat

all == <<prog, vars_31_01, vars_30_02, vars_30_01, vars_33_01, vars_53_01>>

MCThreadSet == {t1, t2, t3, t4}
MCSymmetry == Permutations(Callers) \cup Permutations(Keys)

MCInit ==
  /\ prog \in {"30-01", "30-02", "31-01", "33-01", "53-01"}
  /\ Init_31_01 /\ Init_30_02 /\ Init_30_01 /\ Init_33_01 /\ Init_53_01
MCNext ==
  \/ prog = "31-01" /\ Next_31_01 /\ UNCHANGED <<prog, vars_30_02, vars_30_01, vars_33_01, vars_53_01>>
  \/ prog = "30-02" /\ Next_30_02 /\ UNCHANGED <<prog, vars_31_01, vars_30_01, vars_33_01, vars_53_01>>
  \/ prog = "30-01" /\ Next_30_01 /\ UNCHANGED <<prog, vars_31_01, vars_30_02, vars_33_01, vars_53_01>>
  \/ prog = "33-01" /\ Next_33_01 /\ UNCHANGED <<prog, vars_31_01, vars_30_02, vars_30_01, vars_53_01>>
  \/ prog = "53-01" /\ Next_53_01 /\ UNCHANGED <<prog, vars_31_01, vars_30_02, vars_30_01, vars_33_01>>
MCSpec == MCInit /\ [][MCNext]_all

-----------------------------------------------------------------------------
\* The variables of all five programs have their types: in particular no
\* semaphore of 53-01 is posted twice.
TypesOK == TypeOK_31_01 /\ TypeOK_30_02 /\ TypeOK_30_01 /\ TypeOK_33_01 /\ TypeOK_53_01
=============================================================================
