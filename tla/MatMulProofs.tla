----------------------------- MODULE MatMulProofs -----------------------------
(***************************************************************************)
(* Theorems about MatMul for every number of rows and threads.             *)
(***************************************************************************)
EXTENDS MatMul, FiniteSetTheorems, TLAPS

-----------------------------------------------------------------------------
(* The split of the rows.                                                    *)

\* Division with remainder.
LEMMA Quotient ==
  ASSUME NEW a \in Nat, NEW n \in Nat, n > 0
  PROVE  /\ a \div n \in Nat
         /\ a < n * (a \div n) + n
<1>1. a \div n \in Int
  OBVIOUS
<1>2. a \div n >= 0
  OBVIOUS
<1>3. a < n * (a \div n) + n
  OBVIOUS
<1> QED BY <1>1, <1>2, <1>3

\* A rounded-up quotient, times the divisor, covers the dividend.
LEMMA RoundedUp ==
  ASSUME NEW r \in Nat, NEW n \in Nat, n > 0
  PROVE  /\ (r + n - 1) \div n \in Nat
         /\ n * ((r + n - 1) \div n) >= r
<1> DEFINE a == r + n - 1
           p == a \div n
<1>1. a \in Nat
  OBVIOUS
<1> HIDE DEF a
<1>2. p \in Nat /\ a < n * p + n
  BY <1>1, Quotient
<1> HIDE DEF p
<1>3. n * p \in Int
  BY <1>2
<1>4. n * p >= r
  BY <1>2, <1>3 DEF a
<1> QED BY <1>2, <1>4 DEF a, p

\* Multiples in order.
LEMMA Multiples ==
  ASSUME NEW p \in Nat, NEW i \in Nat, NEW j \in Nat, i < j
  PROVE  i * p + p <= j * p
<1>1. j * p = i * p + (j - i) * p
  OBVIOUS
<1>2. (j - i) * p >= p
  OBVIOUS
<1> QED BY <1>1, <1>2

LEMMA NthType ==
  ASSUME TypeOK
  PROVE  Nth \in 1..MaxThreads /\ Nth \in Nat /\ Nth > 0 /\ rows \in Nat
BY SizesAssumption DEF TypeOK, Nth

\* Every job has rows, inside the product; the jobs follow one another; and
\* together they have every row.
LEMMA Blocks ==
  ASSUME TypeOK
  PROVE  /\ Per \in Nat /\ Nth * Per >= rows
         /\ \A i \in Nat : Lo(i) \in Nat
         /\ \A i \in Jobs : i \in JobIds /\ i \in Nat /\ Hi(i) \in Nat
                            /\ Lo(i) < Hi(i) /\ Hi(i) <= rows
         /\ \A i, j \in Jobs : i < j => Hi(i) <= Lo(j)
         /\ \A o \in 0..(rows - 1) : \E i \in Jobs : Lo(i) <= o /\ o < Hi(i)
<1>1. /\ Nth \in 1..MaxThreads /\ Nth \in Nat /\ Nth > 0 /\ rows \in Nat
      /\ MaxThreads \in Nat
  BY NthType, SizesAssumption
<1>2. Per \in Nat /\ Nth * Per >= rows
  BY <1>1, RoundedUp DEF Per
<1>3. \A i \in Nat : Lo(i) \in Nat
  BY <1>2 DEF Lo
<1>4. \A i \in Jobs : i \in Nat /\ i < Nth /\ i \in JobIds /\ Lo(i) < rows
  BY <1>1 DEF Jobs, JobIds
<1>5. Jobs # {} => Per > 0
  <2> SUFFICES ASSUME NEW i \in Jobs, Per = 0 PROVE FALSE
    BY <1>2
  <2>1. Nth * Per = 0
    BY <1>1
  <2> QED BY <1>1, <1>2, <1>3, <1>4, <2>1
<1>6. \A i \in Jobs : Hi(i) \in Nat /\ Lo(i) < Hi(i) /\ Hi(i) <= rows
  BY <1>1, <1>2, <1>3, <1>4, <1>5 DEF Hi
<1>7. \A i, j \in Jobs : i < j => Hi(i) <= Lo(j)
  <2> SUFFICES ASSUME NEW i \in Jobs, NEW j \in Jobs, i < j PROVE Hi(i) <= Lo(j)
    OBVIOUS
  <2>1. Lo(i) + Per <= Lo(j)
    BY <1>2, <1>4, Multiples DEF Lo
  <2> QED BY <1>1, <1>2, <1>3, <1>4, <2>1 DEF Hi
<1>8. ASSUME NEW o \in 0..(rows - 1)
      PROVE  \E i \in Jobs : Lo(i) <= o /\ o < Hi(i)
  <2> DEFINE i == o \div Per
  <2>1. Per > 0
    <3>1. CASE Per = 0
      <4>1. Nth * Per = 0
        BY <1>1, <3>1
      <4> QED BY <1>1, <1>2, <4>1
    <3> QED BY <1>2, <3>1
  <2>2. o \in Nat /\ o < rows
    BY <1>1
  <2>3. i \in Nat /\ o < Per * i + Per /\ Per * i <= o
    <3>1. Per * i <= o
      BY <1>2, <2>1, <2>2
    <3> QED BY <1>2, <2>1, <2>2, <3>1, Quotient
  <2> HIDE DEF i
  <2>4. Lo(i) = Per * i
    BY <1>2, <2>3 DEF Lo
  <2>5. i < Nth
    <3> SUFFICES ASSUME i >= Nth PROVE FALSE
      BY <1>1, <2>3
    <3>1. Nth * Per <= i * Per
      BY <1>1, <1>2, <2>3, Multiples
    <3>2. i * Per = Per * i
      BY <1>2, <2>3
    <3> QED BY <1>1, <1>2, <2>2, <2>3, <3>1, <3>2
  <2>6. i \in Jobs
    <3>1. i \in 0..(Nth - 1)
      BY <1>1, <2>3, <2>5
    <3>2. Lo(i) < rows
      <4>1. Per * i \in Nat
        BY <1>2, <2>3
      <4> QED BY <1>1, <2>2, <2>3, <2>4, <4>1
    <3> QED BY <3>1, <3>2 DEF Jobs
  <2>7. o < Hi(i)
    BY <1>1, <1>2, <2>2, <2>3, <2>4 DEF Hi
  <2> QED BY <2>3, <2>4, <2>6, <2>7
<1> QED BY <1>2, <1>3, <1>4, <1>6, <1>7, <1>8

\* The jobs are numbered without a gap, as the loops over them assume.
LEMMA Numbered ==
  ASSUME TypeOK
  PROVE  NJobs \in Nat /\ NJobs <= MaxThreads /\ Jobs = 0..(NJobs - 1)
<1> DEFINE m == IF Per = 0 THEN 0 ELSE (rows + Per - 1) \div Per
<1>1. /\ Nth \in Nat /\ Nth > 0 /\ Nth <= MaxThreads /\ rows \in Nat
      /\ Per \in Nat /\ Nth * Per >= rows /\ MaxThreads \in Nat
  BY NthType, Blocks, SizesAssumption
<1>2. CASE Per = 0
  <2>1. Nth * Per = 0
    BY <1>1, <1>2
  <2>2. Jobs = {}
    BY <1>1, <1>2, <2>1 DEF Jobs, Lo
  <2>3. NJobs = 0
    BY <2>2, FS_EmptySet DEF NJobs
  <2> QED BY <1>1, <2>2, <2>3
<1>3. CASE Per # 0
  <2>1. m \in Nat /\ Per * m >= rows
    BY <1>1, <1>3, RoundedUp
  <2>2. Per * m <= rows + Per - 1
    <3> DEFINE a == rows + Per - 1
    <3>1. a \in Nat
      BY <1>1, <1>3
    <3> HIDE DEF a
    <3>2. Per * (a \div Per) <= a
      BY <1>1, <1>3, <3>1
    <3> QED BY <1>3, <3>2 DEF a
  <2> HIDE DEF m
  <2>3. ASSUME NEW i \in Nat PROVE Lo(i) < rows <=> i < m
    <3>1. CASE i < m
      <4>1. Lo(i) + Per <= m * Per
        BY <1>1, <2>1, <3>1, Multiples DEF Lo
      <4>2. m * Per = Per * m /\ Per * m \in Nat /\ Lo(i) \in Nat
        BY <1>1, <2>1 DEF Lo
      <4> QED BY <1>1, <2>2, <3>1, <4>1, <4>2
    <3>2. CASE i >= m
      <4>1. m * Per <= i * Per
        <5>1. CASE i = m
          BY <1>1, <2>1, <5>1
        <5>2. CASE i > m
          <6>1. m * Per + Per <= i * Per
            BY <1>1, <2>1, <5>2, Multiples
          <6>2. m * Per \in Nat /\ i * Per \in Nat
            BY <1>1, <2>1
          <6> QED BY <1>1, <6>1, <6>2
        <5> QED BY <2>1, <3>2, <5>1, <5>2
      <4>2. m * Per = Per * m /\ Per * m \in Nat /\ Lo(i) \in Nat /\ Lo(i) = i * Per
        BY <1>1, <2>1 DEF Lo
      <4> QED BY <1>1, <2>1, <3>2, <4>1, <4>2
    <3> QED BY <2>1, <3>1, <3>2
  <2>4. m <= Nth
    <3> SUFFICES ASSUME m > Nth PROVE FALSE
      BY <1>1, <2>1
    <3>1. Lo(Nth) < rows
      BY <1>1, <2>3
    <3> QED BY <1>1, <3>1 DEF Lo
  <2>5. Jobs = 0..(m - 1)
    BY <1>1, <2>1, <2>3, <2>4 DEF Jobs
  <2>6. NJobs = m
    BY <2>1, <2>5, FS_Interval DEF NJobs
  <2> QED BY <1>1, <2>1, <2>4, <2>5, <2>6
<1> QED BY <1>2, <1>3
-----------------------------------------------------------------------------
(* The inductive invariant.                                                  *)

\* A job has computed the rows before its next one, and no other of its own.
Progress ==
  \A i \in Jobs :
     /\ at[i] \in Lo(i)..Hi(i)
     /\ \A o \in Lo(i)..(Hi(i) - 1) : y[o] = IF o < at[i] THEN 1 ELSE 0

\* A job needs no thread any more, or never got one.
Settled(i) == i \in missing \/ at[i] = Hi(i)

Created ==
  /\ k <= NJobs
  /\ \A i \in Jobs : IF i < k THEN i \in running \/ Settled(i)
                               ELSE at[i] = Lo(i) /\ i \notin running \cup missing

Joined ==
  /\ k <= NJobs
  /\ \A i \in Jobs : IF i < k THEN Settled(i) /\ i \notin running
                               ELSE i \in running \/ Settled(i)

MMInv ==
  /\ TypeOK
  /\ pc \in {"idle", "split"} => running = {}
  /\ xq = "freed" => pc = "idle"
  /\ pc = "split" => \A o \in 0..(MaxRows - 1) : y[o] = 0
  /\ pc # "split" =>
       /\ Progress
       /\ running \subseteq Jobs /\ missing \subseteq Jobs
       /\ \A i \in missing : at[i] = Lo(i) /\ i \notin running
  /\ pc = "alone" => \A i \in Jobs : i \in running \/ Settled(i)
  /\ pc = "create" => Created
  /\ pc = "join" => Joined
  /\ pc = "idle" => \A i \in Jobs : Settled(i)

LEMMA SameSplit ==
  ASSUME UNCHANGED <<nthreads, rows>>
  PROVE  /\ Jobs' = Jobs /\ NJobs' = NJobs
         /\ \A i : Lo(i)' = Lo(i) /\ Hi(i)' = Hi(i)
BY DEF Jobs, NJobs, Lo, Hi, Per, Nth

LEMMA InitInv == Init => MMInv
<1> SUFFICES ASSUME Init PROVE MMInv
  OBVIOUS
<1>1. TypeOK
  BY SizesAssumption DEF Init, TypeOK, JobIds
<1>2. Jobs = {}
  BY <1>1, Blocks DEF Init
<1> QED BY <1>1, <1>2 DEF Init, MMInv, Progress

LEMMA NextInv == MMInv /\ [Next]_vars => MMInv'
<1> SUFFICES ASSUME MMInv, [Next]_vars PROVE MMInv'
  OBVIOUS
<1>1. TypeOK
  BY DEF MMInv
<1> DEFINE Blk ==
      /\ \A i \in Jobs : i \in JobIds /\ i \in Nat /\ Lo(i) \in Nat /\ Hi(i) \in Nat
                         /\ Lo(i) < Hi(i) /\ Hi(i) <= rows
      /\ \A i, j \in Jobs : i < j => Hi(i) <= Lo(j)
      /\ NJobs \in Nat /\ NJobs <= MaxThreads /\ Jobs = 0..(NJobs - 1)
<1>2. Blk
  BY <1>1, Blocks, Numbered
<1>3. rows \in Nat /\ rows <= MaxRows /\ MaxRows \in Nat /\ MaxThreads \in Nat /\ k \in Nat
  BY <1>1, SizesAssumption DEF TypeOK
<1>4. ASSUME NEW n \in 0..MaxRows, Call(n) PROVE MMInv'
  <2>1. TypeOK'
    BY <1>1, <1>4, SizesAssumption DEF TypeOK, Call
  <2> QED BY <2>1, <1>4 DEF MMInv, Call
<1>5. CASE Split
  <2>1. /\ Jobs' = Jobs /\ NJobs' = NJobs
        /\ \A i : Lo(i)' = Lo(i) /\ Hi(i)' = Hi(i)
    BY <1>5, SameSplit DEF Split
  <2>2. \A i \in Jobs : at'[i] = Lo(i)
    BY <1>2, <1>5 DEF Split
  <2>3. TypeOK'
    <3>1. at' \in [JobIds -> 0..MaxRows]
      BY <1>2, <1>3, <1>5 DEF Split
    <3>2. Jobs \subseteq JobIds
      BY <1>2
    <3> QED BY <1>1, <1>3, <1>5, <3>1, <3>2 DEF TypeOK, Split
  <2>4. Progress'
    <3> SUFFICES ASSUME NEW i \in Jobs
                 PROVE  /\ at'[i] \in Lo(i)..Hi(i)
                        /\ \A o \in Lo(i)..(Hi(i) - 1) : y'[o] = IF o < at'[i] THEN 1 ELSE 0
      BY <2>1 DEF Progress
    <3>1. \A o \in Lo(i)..(Hi(i) - 1) : o \in 0..(MaxRows - 1)
      BY <1>2, <1>3
    <3> QED BY <1>2, <1>5, <2>2, <3>1 DEF Split, MMInv
  <2>5. Created' \/ pc' # "create"
    BY <1>2, <1>5, <2>1, <2>2 DEF Split, Created
  <2>6. running' \subseteq Jobs /\ missing' = {} /\ xq' # "freed"
        /\ pc' \in {"alone", "create"} /\ (pc' = "alone" => running' = Jobs)
    BY <1>5 DEF Split, MMInv
  <2> QED BY <2>1, <2>3, <2>4, <2>5, <2>6 DEF MMInv
<1>6. CASE Create
  <2>1. /\ Jobs' = Jobs /\ NJobs' = NJobs
        /\ \A i : Lo(i)' = Lo(i) /\ Hi(i)' = Hi(i)
    BY <1>6, SameSplit DEF Create
  <2>2. k \in Jobs /\ k \in JobIds
    BY <1>2, <1>3, <1>6 DEF Create
  <2>3. TypeOK'
    BY <1>1, <1>2, <1>3, <1>6, <2>2 DEF TypeOK, Create
  <2>4. Progress'
    BY <1>6, <2>1 DEF Progress, Create, MMInv
  <2>5. Created'
    BY <1>2, <1>3, <1>6, <2>1, <2>2 DEF Created, Create, Settled, MMInv
  <2>6. k \notin missing
    BY <1>3, <1>6, <2>2 DEF Created, Create, MMInv
  <2> QED BY <1>6, <2>1, <2>2, <2>3, <2>4, <2>5, <2>6 DEF MMInv, Create
<1>7. CASE CreateFails
  <2>1. /\ Jobs' = Jobs /\ NJobs' = NJobs
        /\ \A i : Lo(i)' = Lo(i) /\ Hi(i)' = Hi(i)
    BY <1>7, SameSplit DEF CreateFails
  <2>2. k \in Jobs /\ k \in JobIds
    BY <1>2, <1>3, <1>7 DEF CreateFails
  <2>3. TypeOK'
    BY <1>1, <1>2, <1>3, <1>7, <2>2 DEF TypeOK, CreateFails
  <2>4. Progress'
    BY <1>7, <2>1 DEF Progress, CreateFails, MMInv
  <2>5. Created'
    BY <1>2, <1>3, <1>7, <2>1, <2>2 DEF Created, CreateFails, Settled, MMInv
  <2>6. at[k] = Lo(k) /\ k \notin running
    BY <1>3, <1>7, <2>2 DEF Created, CreateFails, MMInv
  <2> QED BY <1>7, <2>1, <2>2, <2>3, <2>4, <2>5, <2>6 DEF MMInv, CreateFails
<1>8. CASE CreatedAll
  <2>1. /\ Jobs' = Jobs /\ NJobs' = NJobs
        /\ \A i : Lo(i)' = Lo(i) /\ Hi(i)' = Hi(i)
    BY <1>8, SameSplit DEF CreatedAll
  <2>2. TypeOK'
    BY <1>1, <1>3, <1>8 DEF TypeOK, CreatedAll
  <2>3. Progress'
    BY <1>8, <2>1 DEF Progress, CreatedAll, MMInv
  <2>4. Joined'
    BY <1>2, <1>3, <1>8, <2>1 DEF Created, Joined, CreatedAll, Settled, MMInv
  <2> QED BY <1>8, <2>1, <2>2, <2>3, <2>4 DEF MMInv, CreatedAll
<1>9. CASE Join
  <2>1. /\ Jobs' = Jobs /\ NJobs' = NJobs
        /\ \A i : Lo(i)' = Lo(i) /\ Hi(i)' = Hi(i)
    BY <1>9, SameSplit DEF Join
  <2>2. TypeOK'
    BY <1>1, <1>2, <1>3, <1>9 DEF TypeOK, Join
  <2>3. Progress'
    BY <1>9, <2>1 DEF Progress, Join, MMInv
  <2>4. Joined'
    BY <1>2, <1>3, <1>9, <2>1 DEF Joined, Join, Settled, MMInv
  <2> QED BY <1>9, <2>1, <2>2, <2>3, <2>4 DEF MMInv, Join
<1>10. CASE JoinCrashes
  <2>1. /\ Jobs' = Jobs /\ NJobs' = NJobs
        /\ \A i : Lo(i)' = Lo(i) /\ Hi(i)' = Hi(i)
    BY <1>10, SameSplit DEF JoinCrashes
  <2>2. TypeOK'
    BY <1>1, <1>10 DEF TypeOK, JoinCrashes
  <2>3. Progress'
    BY <1>10, <2>1 DEF Progress, JoinCrashes, MMInv
  <2> QED BY <1>10, <2>1, <2>2, <2>3 DEF MMInv, JoinCrashes
<1>11. CASE Return
  <2>1. /\ Jobs' = Jobs /\ NJobs' = NJobs
        /\ \A i : Lo(i)' = Lo(i) /\ Hi(i)' = Hi(i)
    BY <1>11, SameSplit DEF Return
  <2>2. TypeOK'
    BY <1>1, <1>11 DEF TypeOK, Return
  <2>3. Progress'
    BY <1>11, <2>1 DEF Progress, Return, MMInv
  <2>4. running = {} /\ \A i \in Jobs : Settled(i)
    <3>1. CASE pc = "join" /\ k = NJobs
      <4>1. \A i \in Jobs : i < k
        BY <1>2, <3>1
      <4> QED BY <3>1, <4>1 DEF Joined, MMInv
    <3>2. CASE pc = "alone" /\ running = {}
      BY <3>2 DEF MMInv
    <3> QED BY <1>11, <3>1, <3>2 DEF Return
  <2>5. \A i \in Jobs : Settled(i)'
    BY <1>11, <2>1, <2>4 DEF Return, Settled
  <2> QED BY <1>11, <2>1, <2>2, <2>3, <2>4, <2>5 DEF MMInv, Return
<1>12. ASSUME NEW i \in JobIds, ComputeRow(i) PROVE MMInv'
  <2>1. /\ Jobs' = Jobs /\ NJobs' = NJobs
        /\ \A j : Lo(j)' = Lo(j) /\ Hi(j)' = Hi(j)
    BY <1>12, SameSplit DEF ComputeRow
  <2>2. /\ i \in running /\ i \in Jobs /\ i \notin missing
        /\ pc \in {"alone", "create", "join"}
    BY <1>1, <1>12 DEF ComputeRow, MMInv, TypeOK
  <2>3. /\ at[i] \in Nat /\ Lo(i) <= at[i] /\ at[i] < Hi(i)
        /\ at[i] \in 0..(MaxRows - 1) /\ y[at[i]] = 0
    <3>1. /\ at[i] \in Lo(i)..Hi(i)
          /\ \A o \in Lo(i)..(Hi(i) - 1) : y[o] = IF o < at[i] THEN 1 ELSE 0
      BY <2>2 DEF MMInv, Progress
    <3>2. at[i] < Hi(i)
      BY <1>12 DEF ComputeRow
    <3>3. Lo(i) \in Nat /\ Hi(i) \in Nat /\ Hi(i) <= rows
      BY <1>2, <2>2
    <3>4. at[i] \in Nat /\ Lo(i) <= at[i] /\ at[i] \in Lo(i)..(Hi(i) - 1)
      BY <3>1, <3>2, <3>3
    <3>5. y[at[i]] = 0
      BY <3>1, <3>4
    <3> QED BY <1>3, <3>2, <3>3, <3>4, <3>5
  <2>4. /\ at' = [at EXCEPT ![i] = at[i] + 1]
        /\ y' = [y EXCEPT ![at[i]] = 1]
    BY <1>1, <1>12, <2>3 DEF ComputeRow, TypeOK
  <2>5. TypeOK'
    BY <1>1, <1>3, <1>12, <2>3, <2>4 DEF TypeOK, ComputeRow
  <2>6. ASSUME NEW j \in Jobs
        PROVE  /\ at'[j] \in Lo(j)..Hi(j)
               /\ \A o \in Lo(j)..(Hi(j) - 1) : y'[o] = IF o < at'[j] THEN 1 ELSE 0
    <3>1. /\ at[j] \in Lo(j)..Hi(j)
          /\ \A o \in Lo(j)..(Hi(j) - 1) : y[o] = IF o < at[j] THEN 1 ELSE 0
      BY <2>2 DEF MMInv, Progress
    <3>2. \A o \in Lo(j)..(Hi(j) - 1) : o \in 0..(MaxRows - 1)
      BY <1>2, <1>3
    <3>3. CASE j = i
      <4>1. at'[i] = at[i] + 1
        BY <1>1, <1>12, <2>4 DEF TypeOK
      <4>2. Lo(i) \in Nat /\ Hi(i) \in Nat
        BY <1>2, <2>2
      <4>3. at'[i] \in Lo(i)..Hi(i)
        BY <2>3, <4>1, <4>2
      <4>4. ASSUME NEW o \in Lo(i)..(Hi(i) - 1)
            PROVE  y'[o] = IF o < at'[i] THEN 1 ELSE 0
        <5>1. o \in 0..(MaxRows - 1) /\ y[o] = IF o < at[i] THEN 1 ELSE 0
          BY <3>1, <3>2, <3>3
        <5>2. y'[o] = IF o = at[i] THEN 1 ELSE y[o]
          BY <1>1, <2>4, <5>1 DEF TypeOK
        <5>3. o \in Int
          OBVIOUS
        <5> QED BY <2>3, <4>1, <5>1, <5>2, <5>3
      <4> QED BY <3>3, <4>3, <4>4
    <3>4. CASE j # i
      <4>1. Hi(j) <= Lo(i) \/ Hi(i) <= Lo(j)
        BY <1>2, <2>2, <3>4
      <4>2. \A o \in Lo(j)..(Hi(j) - 1) : o # at[i]
        BY <1>2, <2>2, <2>3, <4>1
      <4>3. at'[j] = at[j]
        BY <1>1, <1>2, <2>4, <3>4 DEF TypeOK
      <4> QED BY <1>1, <2>4, <3>1, <3>2, <4>2, <4>3 DEF TypeOK
    <3> QED BY <3>3, <3>4
  <2>7. Progress'
    BY <2>1, <2>6 DEF Progress
  <2>8. \A j \in Jobs : j # i => at'[j] = at[j]
    BY <1>1, <1>2, <2>4 DEF TypeOK
  <2>9. /\ running' = running /\ missing' = missing /\ k' = k /\ pc' = pc
        /\ xq' = xq
    BY <1>12 DEF ComputeRow
  <2>10. pc = "alone" => \A j \in Jobs : j \in running \/ Settled(j)'
    BY <2>1, <2>2, <2>8, <2>9 DEF MMInv, Settled
  <2>11. pc = "create" => Created'
    BY <2>1, <2>2, <2>8, <2>9 DEF MMInv, Created, Settled
  <2>12. pc = "join" => Joined'
    BY <2>1, <2>2, <2>8, <2>9 DEF MMInv, Joined, Settled
  <2>13. \A j \in missing : at'[j] = Lo(j) /\ j \notin running
    BY <2>2, <2>8 DEF MMInv
  <2> QED BY <2>1, <2>2, <2>5, <2>7, <2>9, <2>10, <2>11, <2>12, <2>13 DEF MMInv
<1>13. ASSUME NEW i \in JobIds, JobEnds(i) PROVE MMInv'
  <2>1. /\ Jobs' = Jobs /\ NJobs' = NJobs
        /\ \A j : Lo(j)' = Lo(j) /\ Hi(j)' = Hi(j)
    BY <1>13, SameSplit DEF JobEnds
  <2>2. /\ i \in running /\ i \in Jobs /\ at[i] = Hi(i)
        /\ pc \in {"alone", "create", "join"}
    BY <1>1, <1>13 DEF JobEnds, MMInv, TypeOK
  <2>3. TypeOK'
    BY <1>1, <1>13 DEF TypeOK, JobEnds
  <2>4. Progress'
    BY <1>13, <2>1, <2>2 DEF Progress, JobEnds, MMInv
  <2>5. /\ running' = running \ {i} /\ missing' = missing /\ k' = k /\ pc' = pc
        /\ xq' = xq /\ at' = at
    BY <1>13 DEF JobEnds
  <2>6. pc = "alone" => \A j \in Jobs : j \in running' \/ Settled(j)'
    BY <2>1, <2>2, <2>5 DEF MMInv, Settled
  <2>7. pc = "create" => Created'
    BY <1>2, <2>1, <2>2, <2>5 DEF MMInv, Created, Settled
  <2>8. pc = "join" => Joined'
    BY <2>1, <2>2, <2>5 DEF MMInv, Joined, Settled
  <2> QED BY <2>1, <2>2, <2>3, <2>4, <2>5, <2>6, <2>7, <2>8 DEF MMInv
<1>14. CASE UNCHANGED vars
  <2>1. /\ Jobs' = Jobs /\ NJobs' = NJobs
        /\ \A j : Lo(j)' = Lo(j) /\ Hi(j)' = Hi(j)
    BY <1>14, SameSplit DEF vars
  <2> QED BY <1>14, <2>1 DEF vars, MMInv, TypeOK, Progress, Created, Joined, Settled
<1> QED
  BY <1>4, <1>5, <1>6, <1>7, <1>8, <1>9, <1>10, <1>11, <1>12, <1>13, <1>14
  DEF Next, Caller, Job

\* The inductive invariant holds of every product, through any thread creation
\* that fails and any interleaving of the rows.
THEOREM MatMulInvariant == Spec => []MMInv
<1> QED BY InitInv, NextInv, PTL DEF Spec

-----------------------------------------------------------------------------
(* The theorems.                                                             *)

\* Whatever the number of rows and processors, a product handed to the caller
\* has every row computed exactly once, but for the rows of a thread that
\* pthread_create did not start.
THEOREM EveryRowOnce == Spec => []RowsComputed
<1>1. MMInv => RowsComputed
  <2> SUFFICES ASSUME MMInv, pc = "idle", NEW o \in 0..(rows - 1)
               PROVE  y[o] = IF \E i \in missing : Lo(i) <= o /\ o < Hi(i)
                             THEN 0 ELSE 1
    BY DEF RowsComputed
  <2>1. TypeOK
    BY DEF MMInv
  <2>2. o \in Nat
    BY <2>1 DEF TypeOK
  <2>3. \A i \in Jobs : i \in Nat /\ Lo(i) \in Nat /\ Hi(i) \in Nat
    BY <2>1, Blocks
  <2>4. PICK i \in Jobs : Lo(i) <= o /\ o < Hi(i)
    BY <2>1, Blocks
  <2>5. \A j \in Jobs : Lo(j) <= o /\ o < Hi(j) => j = i
    <3> SUFFICES ASSUME NEW j \in Jobs, Lo(j) <= o, o < Hi(j), j # i PROVE FALSE
      OBVIOUS
    <3>1. Hi(j) <= Lo(i) \/ Hi(i) <= Lo(j)
      BY <2>1, <2>3, Blocks
    <3> QED BY <2>2, <2>3, <2>4, <3>1
  <2>6. y[o] = IF o < at[i] THEN 1 ELSE 0
    BY <2>2, <2>3, <2>4 DEF MMInv, Progress
  <2>7. CASE i \in missing
    <3>1. at[i] = Lo(i)
      BY <2>7 DEF MMInv
    <3> QED BY <2>2, <2>3, <2>4, <2>6, <2>7, <3>1
  <2>8. CASE i \notin missing
    <3>1. at[i] = Hi(i)
      BY <2>8 DEF MMInv, Settled
    <3>2. ~ \E j \in missing : Lo(j) <= o /\ o < Hi(j)
      BY <2>5, <2>8 DEF MMInv
    <3> QED BY <2>4, <2>6, <3>1, <3>2
  <2> QED BY <2>7, <2>8
<1> QED BY <1>1, MatMulInvariant, PTL

\* Every job fits the array of thread handles, and no row is computed out of its
\* bounds, whatever the numbers of rows and threads.
THEOREM MatMulTypes == Spec => []TypeOK
<1>1. MMInv => TypeOK
  BY DEF MMInv
<1> QED BY <1>1, MatMulInvariant, PTL

\* No thread runs once its product has been handed to the caller, nor after the
\* quantized activations it reads were freed.
THEOREM NothingOutlives == Spec => []NoStragglers
<1>1. MMInv => NoStragglers
  BY DEF MMInv, TypeOK, NoStragglers
<1> QED BY <1>1, MatMulInvariant, PTL
===============================================================================
