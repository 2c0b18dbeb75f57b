-------------------------------- MODULE MatMul --------------------------------
(***************************************************************************)
(* matmul_batch_q of src/ornith_rforward.c: one matrix product after       *)
(* another, the output rows of each split over freshly created threads.    *)
(* A row's value is not modelled, only how often it has been computed.     *)
(***************************************************************************)
EXTENDS Integers, FiniteSets

CONSTANTS MaxThreads, \* length of the arrays th and jobs (64)
          MaxRows     \* bound: output rows of a weight

ASSUME SizesAssumption == MaxThreads \in Nat \ {0} /\ MaxRows \in Nat

VARIABLES
  pc,       \* where the calling thread is; "crashed" after joining no thread
  nthreads, \* m->nthreads: the processors, at most MaxThreads
  rows,     \* out: the rows of this product
  k,        \* i of the create and join loops
  at,       \* at[i]: the row job i computes next
  running,  \* the jobs some thread is running
  missing,  \* the jobs whose pthread_create failed
  y,        \* y[o]: how often row o of this product was computed
  xq        \* the quantized activations: "none", "live" or "freed"

vars == <<pc, nthreads, rows, k, at, running, missing, y, xq>>

JobIds == 0..(MaxThreads - 1)

Init == /\ pc = "idle" /\ k = 0 /\ rows = 0
        /\ nthreads \in 1..MaxThreads
        /\ at = [i \in JobIds |-> 0]
        /\ running = {} /\ missing = {}
        /\ y = [o \in 0..(MaxRows - 1) |-> 0]
        /\ xq = "none"

-----------------------------------------------------------------------------
(* The split.                                                                *)

\* nth: no more threads than rows, and at least one.
Nth == IF rows < 1 THEN 1 ELSE IF nthreads > rows THEN rows ELSE nthreads

\* Mutant: the division rounds down.
PerFloor == rows \div Nth

\* Rows per job, rounded up.
Per == (rows + Nth - 1) \div Nth

\* Job i computes rows Lo(i) .. Hi(i) - 1.
Lo(i) == i * Per

Hi(i) == IF Lo(i) + Per > rows THEN rows ELSE Lo(i) + Per

\* The loop stops at the first job that would start past the end.
Jobs == {i \in 0..(Nth - 1) : Lo(i) < rows}
NJobs == Cardinality(Jobs)

-----------------------------------------------------------------------------
(* The calling thread.                                                       *)

\* With a vec_dot for the type, the activations are quantized first, unless
\* malloc fails.
Call(n) == /\ pc = "idle"
           /\ rows' = n
           /\ y' = [o \in 0..(MaxRows - 1) |-> 0]
           /\ xq' \in {"none", "live"}
           /\ pc' = "split"
           /\ UNCHANGED <<nthreads, k, at, running, missing>>

\* A single job is run in place.
Split == /\ pc = "split"
         /\ at' = [i \in JobIds |-> IF i \in Jobs THEN Lo(i) ELSE 0]
         /\ missing' = {}
         /\ k' = 0
         /\ IF NJobs = 1 THEN pc' = "alone" /\ running' = Jobs
                         ELSE pc' = "create" /\ running' = {}
         /\ UNCHANGED <<nthreads, rows, y, xq>>

Create == /\ pc = "create" /\ k < NJobs
          /\ running' = running \cup {k}
          /\ k' = k + 1
          /\ UNCHANGED <<pc, nthreads, rows, at, missing, y, xq>>

\* The result of pthread_create is not looked at.
CreateFails == /\ pc = "create" /\ k < NJobs
               /\ missing' = missing \cup {k}
               /\ k' = k + 1
               /\ UNCHANGED <<pc, nthreads, rows, at, running, y, xq>>

CreatedAll == /\ pc = "create" /\ k = NJobs
              /\ pc' = "join" /\ k' = 0
              /\ UNCHANGED <<nthreads, rows, at, running, missing, y, xq>>

\* Mutant: one thread is left out of the join loop.
JoinSkips == /\ pc = "join" /\ k < NJobs
             /\ k \notin running \/ k = NJobs - 1
             /\ k' = k + 1
             /\ UNCHANGED <<pc, nthreads, rows, at, running, missing, y, xq>>

\* pthread_join waits for its thread; of a th[i] that was never written it
\* may return an error,
Join == /\ pc = "join" /\ k < NJobs
        /\ k \notin running
        /\ k' = k + 1
        /\ UNCHANGED <<pc, nthreads, rows, at, running, missing, y, xq>>

\* or the process may crash.
JoinCrashes == /\ pc = "join" /\ k < NJobs
               /\ k \in missing
               /\ pc' = "crashed"
               /\ UNCHANGED <<nthreads, rows, k, at, running, missing, y, xq>>

\* free(XQ), and the product is used by the caller.
Return == /\ \/ pc = "join" /\ k = NJobs
             \/ pc = "alone" /\ running = {}
          /\ xq' = IF xq = "live" THEN "freed" ELSE xq
          /\ pc' = "idle"
          /\ UNCHANGED <<nthreads, rows, k, at, running, missing, y>>

-----------------------------------------------------------------------------
(* A job: mv_run.                                                            *)

\* Mutant: the loop does not advance.
ComputeRowStuck(i) == /\ pc # "crashed"
                      /\ i \in running /\ at[i] < Hi(i)
                      /\ y' = [y EXCEPT ![at[i]] = 1]
                      /\ UNCHANGED <<pc, nthreads, rows, k, at, running, missing, xq>>

ComputeRow(i) == /\ pc # "crashed"
                 /\ i \in running /\ at[i] < Hi(i)
                 /\ y' = [y EXCEPT ![at[i]] = @ + 1]
                 /\ at' = [at EXCEPT ![i] = @ + 1]
                 /\ UNCHANGED <<pc, nthreads, rows, k, running, missing, xq>>

JobEnds(i) == /\ pc # "crashed"
              /\ i \in running /\ at[i] = Hi(i)
              /\ running' = running \ {i}
              /\ UNCHANGED <<pc, nthreads, rows, k, at, missing, y, xq>>

Caller == \/ Split \/ Create \/ CreateFails \/ CreatedAll
          \/ Join \/ JoinCrashes \/ Return
Job(i) == ComputeRow(i) \/ JobEnds(i)

Next == \/ \E n \in 0..MaxRows : Call(n)
        \/ Caller
        \/ \E i \in JobIds : Job(i)

Spec == Init /\ [][Next]_vars

\* The scheduler runs every thread.
FairSpec == Spec /\ WF_vars(Caller) /\ \A i \in JobIds : WF_vars(Job(i))

-----------------------------------------------------------------------------
(* What must hold.                                                           *)

\* Every variable has its type: rows are computed inside the product, and the
\* jobs fit their arrays.
TypeOK == /\ pc \in {"idle", "split", "alone", "create", "join", "crashed"}
          /\ nthreads \in 1..MaxThreads
          /\ rows \in 0..MaxRows
          /\ k \in 0..MaxThreads
          /\ at \in [JobIds -> 0..MaxRows]
          /\ running \subseteq JobIds /\ missing \subseteq JobIds
          /\ y \in [0..(MaxRows - 1) -> Nat]
          /\ xq \in {"none", "live", "freed"}

\* When the product is handed to the caller every row has been computed exactly
\* once, for any split; only the rows of a thread that was never created are
\* missing.
RowsComputed ==
  pc = "idle" =>
    \A o \in 0..(rows - 1) :
       y[o] = IF \E i \in missing : Lo(i) <= o /\ o < Hi(i) THEN 0 ELSE 1

\* No thread outlives the product that created it, or the quantized activations
\* that it reads.
NoStragglers ==
  running # {} => pc \in {"alone", "create", "join", "crashed"} /\ xq # "freed"

\* A product is finished: no join waits for ever.
Returns == pc # "idle" ~> pc \in {"idle", "crashed"}
===============================================================================
