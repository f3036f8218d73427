-------------------------- MODULE CopyPipelineProofs --------------------------
(***************************************************************************)
(* Proofs about CopyPipeline for any number of tasks, jobs and blocks and  *)
(* any failures.                                                           *)
(***************************************************************************)
EXTENDS CopyPipeline, FiniteSetTheorems, TLAPS

(* The parts of the inductive invariant. A task holds a block from Claim   *)
(* until it counts it or records its loss; no two tasks hold the same.     *)
Claims ==
  /\ \A j \in Job : next[j] <= blocks[j]
  /\ \A w \in Worker : at[w] # Idle <=> pc[w] \in {"open", "read", "write", "count"}
  /\ \A w \in Worker : at[w] # Idle => at[w].idx < next[at[w].job]
  /\ \A v, w \in Worker : at[v] # Idle /\ at[v] = at[w] => v = w

(* Only claimed blocks are stored, and the one a task holds is not stored  *)
(* before WriteBlock.                                                      *)
Storing ==
  /\ \A j \in Job : \A i \in stored[j] : i < next[j]
  /\ \A w \in Worker : pc[w] \in {"open", "read", "write"} => at[w].idx \notin stored[at[w].job]
  /\ \A w \in Worker : pc[w] = "count" => at[w].idx \in stored[at[w].job]

(* A claimed block is stored, named by an error, or held by a task.        *)
Held(j, i) == \E w \in Worker : at[w] # Idle /\ at[w].job = j /\ at[w].idx = i
Accounted ==
  \A j \in Job : \A i \in Index :
    i < next[j] => i \in stored[j] \/ [job |-> j, idx |-> i] \in errs \/ Held(j, i)

(* A task leaves a pool that goes on only when every block is claimed, and *)
(* the jobs are closed when all have left.                                 *)
Leaving ==
  /\ ~ended => \A w \in Worker : pc[w] = "exit" => Unclaimed = {}
  /\ main > 0 => AllReturned

(* jobDoneCount counts the stored blocks whose task has passed the counter. *)
Uncounted(j) ==
  {i \in stored[j] : \E w \in Worker : pc[w] = "count" /\ at[w].job = j /\ at[w].idx = i}
Counted(j) == stored[j] \ Uncounted(j)
Counting == \A j \in Job : done[j] = Cardinality(Counted(j))

(* The revision a job has published, and the error of one that could not.  *)
CloseErr(j) == [job |-> j, idx |-> MaxBlocks]
Closing ==
  \A j \in Job :
    /\ active[j] \notin {Old, None} =>
         j < main /\ Contiguous(stored[j]) /\ active[j] = Cardinality(stored[j])
    /\ j < main /\ Commits(j) /\ active[j] \in {Old, None} => CloseErr(j) \in errs

IInv ==
  /\ TypeOK /\ Claims /\ Storing /\ Accounted /\ Leaving /\ Counting
  /\ AnnouncedIsComplete /\ Closing

-----------------------------------------------------------------------------
(* Cardinalities of sets of block indices.                                 *)
LEMMA IndexSets ==
  ASSUME NEW S \in SUBSET Index
  PROVE  IsFiniteSet(S) /\ Cardinality(S) \in Nat /\ Cardinality(S) <= MaxBlocks
<1>1. MaxBlocks \in Nat
  BY BoundAssumption
<1>2. IsFiniteSet(Index) /\ Cardinality(Index) = MaxBlocks
  BY <1>1, FS_Interval DEF Index
<1>3. IsFiniteSet(S) /\ Cardinality(S) <= MaxBlocks
  BY <1>2, FS_Subset
<1> QED BY <1>3, FS_CardinalityType

LEMMA FullSet ==
  ASSUME NEW n \in 0..MaxBlocks, NEW S \in SUBSET (0..(n - 1))
  PROVE  /\ Cardinality(0..(n - 1)) = n
         /\ Cardinality(S) = n => S = 0..(n - 1)
<1>1. n \in Nat
  BY BoundAssumption
<1>a. n - 1 \in Int /\ 0 \in Int
  BY <1>1
<1>b. /\ IsFiniteSet(0..(n - 1))
      /\ Cardinality(0..(n - 1)) = IF 0 > n - 1 THEN 0 ELSE (n - 1) - 0 + 1
  BY <1>a, FS_Interval
<1>2. IsFiniteSet(0..(n - 1)) /\ Cardinality(0..(n - 1)) = n
  BY <1>1, <1>b
<1> QED BY <1>2, FS_Subset

(* Init.                                                                   *)
LEMMA InitIInv == Init => IInv
<1> SUFFICES ASSUME Init PROVE IInv
  OBVIOUS
<1>b. MaxBlocks \in Nat /\ MaxFaults \in Nat /\ NJobs \in Nat
  BY BoundAssumption
<1>i. /\ blocks \in [Job -> 0..MaxBlocks] /\ source \in [Job -> Source]
      /\ target \in [Job -> Target]
      /\ next = [j \in Job |-> 0] /\ at = [w \in Worker |-> Idle]
      /\ pc = [w \in Worker |-> "submitted"] /\ clones = [w \in Worker |-> {}]
      /\ stored = [j \in Job |-> {}] /\ done = [j \in Job |-> 0]
      /\ announced = {} /\ errs = {} /\ main = 0 /\ damaged = {} /\ faults = 0
  BY DEF Init
<1>c. active \in [Job -> {Old, None}]
  BY DEF Init
<1>f. ended \in BOOLEAN
  BY DEF Init
<1>1. TypeOK
  <2>1. active \in [Job -> 0..None]
    <3>1. {Old, None} \subseteq 0..None
      BY <1>b DEF Old, None
    <3> QED BY <1>c, <3>1
  <2>2. blocks \in [Job -> 0..MaxBlocks] /\ next \in [Job -> 0..MaxBlocks]
    BY <1>b, <1>i
  <2>3. pc \in [Worker -> PC] /\ at \in [Worker -> Claimed \cup {Idle}]
    BY <1>i DEF PC
  <2>4. clones \in [Worker -> SUBSET Job] /\ stored \in [Job -> SUBSET Index]
    BY <1>i
  <2>5. done \in [Job -> 0..MaxBlocks] /\ main \in 0..(NJobs + 1) /\ faults \in 0..MaxFaults
    BY <1>b, <1>i
  <2> QED BY <1>i, <1>f, <2>1, <2>2, <2>3, <2>4, <2>5 DEF TypeOK
<1>2. Claims
  <2>1. \A j \in Job : next[j] <= blocks[j]
    BY <1>b, <1>i
  <2>2. \A w \in Worker : at[w] = Idle /\ pc[w] = "submitted"
    BY <1>i
  <2> QED BY <2>1, <2>2 DEF Claims
<1>3. Storing
  BY <1>i DEF Storing
<1>4. Accounted /\ Leaving
  <2>1. \A j \in Job : \A i \in Index : ~(i < next[j])
    BY <1>b, <1>i DEF Index
  <2>2. \A w \in Worker : pc[w] # "exit"
    BY <1>i
  <2> QED BY <1>i, <2>1, <2>2 DEF Accounted, Leaving
<1>5. Counting
  <2>1. \A j \in Job : Counted(j) = {} /\ done[j] = 0
    BY <1>i DEF Counted
  <2> QED BY <2>1, FS_EmptySet DEF Counting
<1>6. AnnouncedIsComplete
  BY <1>i DEF AnnouncedIsComplete
<1>7. Closing
  <2>1. \A j \in Job : active[j] \in {Old, None} /\ ~(j < main)
    BY <1>b, <1>c, <1>i DEF Job
  <2> QED BY <2>1 DEF Closing
<1> QED BY <1>1, <1>2, <1>3, <1>4, <1>5, <1>6, <1>7 DEF IInv

(* The steps of a task, without the counting.                              *)
Task == TypeOK /\ Claims /\ Storing /\ Accounted /\ Leaving
LEMMA TaskStep ==
  ASSUME Task, NEW w \in Worker, Step(w), done' \in [Job -> 0..MaxBlocks]
  PROVE  Task'
<1> USE BoundAssumption DEF Task, Idle, Claimed, Goto
<1>b. MaxBlocks \in Nat /\ MaxFaults \in Nat /\ NJobs \in Nat
  BY BoundAssumption
<1>t. TypeOK /\ Claims /\ Storing /\ Accounted /\ Leaving
  OBVIOUS
<1>1. CASE Start(w)
  <2>1. TypeOK'
    BY <1>1, <1>t DEF Start, TypeOK, PC, jobVars
  <2>2. Claims' /\ Storing'
    BY <1>1, <1>t DEF Start, TypeOK, Claims, Storing, jobVars
  <2>3. Accounted'
    BY <1>1, <1>t DEF Start, Accounted, Held, jobVars
  <2>4. Leaving'
    BY <1>1, <1>t DEF Start, TypeOK, Leaving, Unclaimed, AllReturned, jobVars
  <2> QED BY <2>1, <2>2, <2>3, <2>4
<1>2. CASE Wake(w)
  <2>1. TypeOK'
    BY <1>2, <1>t DEF Wake, Release, TypeOK, PC, jobVars
  <2>2. Claims' /\ Storing'
    BY <1>2, <1>t DEF Wake, Release, TypeOK, Claims, Storing, jobVars
  <2>3. Accounted'
    BY <1>2, <1>t DEF Wake, Release, Accounted, Held, jobVars
  <2>4. Leaving'
    BY <1>2, <1>t DEF Wake, Release, TypeOK, Leaving, Unclaimed, AllReturned, jobVars
  <2> QED BY <2>1, <2>2, <2>3, <2>4
<1>3. CASE Claim(w)
  <2> PICK j \in Unclaimed :
        /\ at' = [at EXCEPT ![w] = [job |-> j, idx |-> next[j]]]
        /\ next' = [next EXCEPT ![j] = @ + 1]
    BY <1>3 DEF Claim, Advance
  <2>0. j \in Job /\ next[j] < blocks[j] /\ next[j] \in Index /\ at[w] = Idle
    BY <1>3, <1>t, <1>b DEF Unclaimed, TypeOK, Index, Claim, Claims
  <2>1. TypeOK'
    BY <1>3, <1>t, <2>0 DEF Claim, TypeOK, PC, jobVars, Index
  <2>n. /\ \A k \in Job : next[k] \in Nat /\ blocks[k] \in Nat
        /\ next' \in [Job -> Nat] /\ blocks' = blocks
        /\ \A k \in Job : next'[k] = IF k = j THEN next[k] + 1 ELSE next[k]
    BY <1>3, <1>t, <2>0, <1>b DEF Claim, TypeOK, jobVars
  <2>a. /\ \A v \in Worker : at'[v] = IF v = w THEN [job |-> j, idx |-> next[j]] ELSE at[v]
        /\ \A v \in Worker : pc'[v] = IF v = w THEN "open" ELSE pc[v]
        /\ \A v \in Worker : at[v] # Idle => at[v] \in Claimed
    BY <1>3, <1>t DEF Claim, TypeOK
  <2>2. Claims'
    <3>1. \A k \in Job : next'[k] <= blocks'[k]
      BY <1>t, <2>0, <2>n DEF Claims
    <3>i. [job |-> j, idx |-> next[j]] # Idle
      BY <2>0 DEF Job
    <3>2. \A v \in Worker : at'[v] # Idle <=> pc'[v] \in {"open", "read", "write", "count"}
      BY <1>t, <2>a, <3>i DEF Claims
    <3>3. \A v \in Worker : at'[v] # Idle => at'[v].idx < next'[at'[v].job]
      <4> SUFFICES ASSUME NEW v \in Worker, at'[v] # Idle
                   PROVE  at'[v].idx < next'[at'[v].job]
        OBVIOUS
      <4>1. CASE v = w
        BY <4>1, <2>0, <2>a, <2>n
      <4>2. CASE v # w
        <5>1. at'[v] = at[v] /\ at[v] \in Claimed /\ at[v].idx < next[at[v].job]
          BY <4>2, <2>a, <1>t DEF Claims
        <5>2. at[v].job \in Job /\ at[v].idx \in Nat
          BY <5>1 DEF Index
        <5> QED BY <5>1, <5>2, <2>n
      <4> QED BY <4>1, <4>2
    <3>4. \A u, v \in Worker : at'[u] # Idle /\ at'[u] = at'[v] => u = v
      <4>1. \A v \in Worker : at[v] # [job |-> j, idx |-> next[j]]
        BY <1>t, <2>n, <2>0, <3>i DEF Claims
      <4> QED BY <1>t, <2>a, <4>1 DEF Claims
    <3> QED BY <3>1, <3>2, <3>3, <3>4 DEF Claims
  <2>3. Storing'
    BY <1>3, <1>t, <2>0 DEF Claim, TypeOK, Claims, Storing, jobVars, Index
  <2>4. Accounted'
    <3> SUFFICES ASSUME NEW k \in Job, NEW i \in Index, i < next'[k], i \notin stored[k],
                        [job |-> k, idx |-> i] \notin errs
                 PROVE  Held(k, i)'
      BY <1>3 DEF Accounted, Claim
    <3>1. CASE i < next[k]
      <4>1. PICK v \in Worker : at[v] # Idle /\ at[v].job = k /\ at[v].idx = i
        BY <1>t, <3>1 DEF Accounted, Held
      <4> QED BY <4>1, <2>0, <2>a DEF Held
    <3>2. CASE ~(i < next[k])
      <4>1. k = j /\ i = next[j] /\ j # 0
        BY <3>2, <2>n DEF Index, Job
      <4> QED BY <4>1, <2>a DEF Held
    <3> QED BY <3>1, <3>2
  <2>5. Leaving'
    BY <1>3, <1>t, <2>0 DEF Claim, TypeOK, Leaving, Unclaimed, AllReturned, jobVars
  <2> QED BY <2>1, <2>2, <2>3, <2>4, <2>5
<1>4. CASE Exit(w)
  <2>d. damaged' \subseteq Job /\ faults' \in 0..MaxFaults
    BY <1>4, <1>t, <1>b DEF Exit, Closes, Fault, TypeOK
  <2>1. TypeOK'
    BY <1>4, <1>t, <2>d DEF Exit, Release, TypeOK, PC, jobVars
  <2>2. Claims' /\ Storing'
    BY <1>4, <1>t DEF Exit, Release, TypeOK, Claims, Storing, jobVars
  <2>3. Accounted'
    BY <1>4, <1>t DEF Exit, Release, Accounted, Held, jobVars
  <2>4. Leaving'
    BY <1>4, <1>t DEF Exit, Release, TypeOK, Leaving, Unclaimed, AllReturned, jobVars
  <2> QED BY <2>1, <2>2, <2>3, <2>4
<1>5. CASE OpenEnds(w)
  <2>0. at[w] \in Claimed
    BY <1>5, <1>t DEF OpenEnds, TypeOK, Claims
  <2>1. TypeOK'
    BY <1>5, <1>t, <2>0 DEF OpenEnds, TypeOK, PC, jobVars
  <2>2. Claims' /\ Storing'
    BY <1>5, <1>t DEF OpenEnds, TypeOK, Claims, Storing, jobVars
  <2>3. Accounted'
    BY <1>5, <1>t DEF OpenEnds, Accounted, Held, jobVars
  <2>4. Leaving'
    BY <1>5, <1>t DEF OpenEnds, TypeOK, Leaving, Unclaimed, AllReturned, jobVars
  <2> QED BY <2>1, <2>2, <2>3, <2>4
<1>6. CASE ReadBlock(w)
  <2>0. at[w] \in Claimed
    BY <1>6, <1>t DEF ReadBlock, TypeOK, Claims
  <2>d. damaged' \subseteq Job /\ faults' \in 0..MaxFaults
    BY <1>6, <1>t, <1>b, <2>0 DEF ReadBlock, Shrunk, Fault, TypeOK
  <2>1. TypeOK'
    BY <1>6, <1>t, <2>d DEF ReadBlock, TypeOK, PC, jobVars
  <2>2. Claims' /\ Storing'
    BY <1>6, <1>t DEF ReadBlock, TypeOK, Claims, Storing, jobVars
  <2>3. Accounted'
    BY <1>6, <1>t DEF ReadBlock, Accounted, Held, jobVars
  <2>4. Leaving'
    BY <1>6, <1>t DEF ReadBlock, TypeOK, Leaving, Unclaimed, AllReturned, jobVars
  <2> QED BY <2>1, <2>2, <2>3, <2>4
<1>7. CASE OpenFails(w) \/ ReadFails(w) \/ WriteFails(w)
  <2>0. /\ pc[w] \in {"open", "read", "write"} /\ LoseBlock(w) /\ faults' \in 0..MaxFaults
        /\ at[w] \in Claimed
    <3>1. faults' \in 0..MaxFaults
      BY <1>7, <1>t, <1>b DEF OpenFails, ReadFails, WriteFails, Fault, TypeOK
    <3>2. pc[w] \in {"open", "read", "write"} /\ LoseBlock(w)
      BY <1>7 DEF OpenFails, ReadFails, WriteFails
    <3> QED BY <3>1, <3>2, <1>t DEF TypeOK, Claims
  <2>e. errs' = errs \cup {at[w]} /\ at[w] \in [job : Job, idx : 0..MaxBlocks]
    BY <2>0, <1>b DEF LoseBlock, AddErr, Index
  <2>1. TypeOK'
    BY <2>0, <2>e, <1>t DEF LoseBlock, TypeOK, PC, jobVars
  <2>2. Claims' /\ Storing'
    BY <2>0, <1>t DEF LoseBlock, TypeOK, Claims, Storing, jobVars
  <2>3. Accounted'
    <3> SUFFICES ASSUME NEW j \in Job, NEW i \in Index, i < next[j], i \notin stored[j],
                        [job |-> j, idx |-> i] \notin errs'
                 PROVE  Held(j, i)'
      BY <2>0 DEF Accounted, LoseBlock
    <3>1. PICK v \in Worker : at[v] # Idle /\ at[v].job = j /\ at[v].idx = i
      BY <2>e, <1>t DEF Accounted, Held
    <3>2. at[v] \in Claimed
      BY <3>1, <1>t DEF TypeOK
    <3>3. v # w
      BY <3>1, <3>2, <2>e
    <3> QED BY <3>1, <3>3, <2>0, <1>t DEF Held, LoseBlock, TypeOK
  <2>4. Leaving'
    BY <2>0, <1>t DEF LoseBlock, TypeOK, Leaving, Unclaimed, AllReturned, jobVars
  <2> QED BY <2>1, <2>2, <2>3, <2>4
<1>8. CASE WriteBlock(w)
  <2> DEFINE J == at[w].job
             I == at[w].idx
  <2>0. at[w] \in Claimed /\ J \in Job /\ I \in Index /\ stored' = [stored EXCEPT ![J] = @ \cup {I}]
    BY <1>8, <1>t DEF WriteBlock, Put, TypeOK, Claims
  <2>1. TypeOK'
    BY <1>8, <1>t, <2>0 DEF WriteBlock, TypeOK, PC, jobVars
  <2>2. Claims'
    BY <1>8, <1>t DEF WriteBlock, TypeOK, Claims, jobVars
  <2>3. Storing'
    <3>1. \A v \in Worker \ {w} : at[v] # Idle => at[v].job # J \/ at[v].idx # I
      BY <1>8, <1>t, <2>0 DEF WriteBlock, TypeOK, Claims
    <3>2. \A v \in Worker : pc[v] \in {"open", "read", "write", "count"} => at[v] \in Claimed
      BY <1>t DEF TypeOK, Claims
    <3> QED BY <1>8, <1>t, <2>0, <3>1, <3>2 DEF WriteBlock, TypeOK, Claims, Storing
  <2>4. Accounted'
    BY <1>8, <1>t, <2>0 DEF WriteBlock, TypeOK, Accounted, Held, jobVars
  <2>5. Leaving'
    BY <1>8, <1>t DEF WriteBlock, TypeOK, Leaving, Unclaimed, AllReturned, jobVars
  <2> QED BY <2>1, <2>2, <2>3, <2>4, <2>5
<1>9. CASE Count(w)
  <2>0. at[w] \in Claimed /\ at[w].job \in Job /\ at[w].idx \in stored[at[w].job]
    BY <1>9, <1>t DEF Count, TypeOK, Claims, Storing
  <2>1. TypeOK'
    BY <1>9, <1>t, <2>0 DEF Count, TypeOK, PC, jobVars
  <2>2. Claims' /\ Storing'
    BY <1>9, <1>t DEF Count, TypeOK, Claims, Storing, jobVars
  <2>3. Accounted'
    <3> SUFFICES ASSUME NEW j \in Job, NEW i \in Index, i < next[j], i \notin stored[j],
                        [job |-> j, idx |-> i] \notin errs
                 PROVE  Held(j, i)'
      BY <1>9 DEF Accounted, Count
    <3>1. PICK v \in Worker : at[v] # Idle /\ at[v].job = j /\ at[v].idx = i
      BY <1>t DEF Accounted, Held
    <3>2. v # w
      BY <3>1, <2>0
    <3> QED BY <3>1, <3>2, <1>9, <1>t DEF Held, Count, TypeOK
  <2>4. Leaving'
    BY <1>9, <1>t DEF Count, TypeOK, Leaving, Unclaimed, AllReturned, jobVars
  <2> QED BY <2>1, <2>2, <2>3, <2>4
<1> QED
  BY <1>1, <1>2, <1>3, <1>4, <1>5, <1>6, <1>7, <1>8, <1>9 DEF Step

-----------------------------------------------------------------------------
(* The counter. Writing a block changes nothing: it is stored and not yet  *)
(* counted. Counting it adds it to the counted ones.                       *)
LEMMA CountingStep ==
  ASSUME Task, Counting, NEW w \in Worker, Step(w)
  PROVE  Counting' /\ done' \in [Job -> 0..MaxBlocks]
<1> USE DEF Task, Goto
<1>t. TypeOK /\ Claims /\ Storing
  OBVIOUS
<1>c. \A v \in Worker : pc[v] \in {"open", "read", "write", "count"} => at[v] \in Claimed
  BY <1>t DEF TypeOK, Claims
<1>u. \A v \in Worker \ {w} : pc[v] = "count" /\ pc[w] \in {"write", "count"} =>
         at[v].job # at[w].job \/ at[v].idx # at[w].idx
  <2> SUFFICES ASSUME NEW v \in Worker \ {w}, pc[v] = "count", pc[w] \in {"write", "count"},
                      at[v].job = at[w].job, at[v].idx = at[w].idx
               PROVE  FALSE
    OBVIOUS
  <2>1. at[v] \in Claimed /\ at[w] \in Claimed
    BY <1>c
  <2>2. at[v] = at[w]
    BY <2>1 DEF Claimed
  <2> QED BY <2>2, <1>t DEF Claims
<1>1. CASE UNCHANGED <<done, stored>> /\ pc[w] # "count" /\ pc'[w] # "count"
           /\ \A v \in Worker \ {w} : pc'[v] = pc[v] /\ at'[v] = at[v]
  <2>1. \A j \in Job : Counted(j)' = Counted(j)
    BY <1>1 DEF Counted, Uncounted
  <2> QED BY <1>1, <1>t, <2>1 DEF Counting, TypeOK
<1>2. CASE WriteBlock(w)
  <2> DEFINE J == at[w].job
             I == at[w].idx
  <2>0. /\ J \in Job /\ I \notin stored[J]
        /\ stored' = [stored EXCEPT ![J] = @ \cup {I}]
        /\ pc[w] = "write" /\ pc' = [pc EXCEPT ![w] = "count"] /\ UNCHANGED <<at, done>>
    BY <1>2, <1>t, <1>c DEF WriteBlock, Put, Storing, Claimed
  <2>1. ASSUME NEW j \in Job PROVE Counted(j)' = Counted(j)
    <3>p. /\ pc'[w] = "count" /\ at'[w] = at[w]
          /\ \A v \in Worker \ {w} : pc'[v] = pc[v] /\ at'[v] = at[v]
      BY <2>0, <1>t DEF TypeOK
    <3>1. CASE j = J
      <4>1. stored'[j] = stored[j] \cup {I}
        BY <2>0, <3>1, <1>t DEF TypeOK
      <4>2. Uncounted(j)' = Uncounted(j) \cup {I}
        BY <4>1, <3>1, <3>p, <2>0 DEF Uncounted
      <4> QED BY <4>1, <4>2, <2>0, <3>1 DEF Counted
    <3>2. CASE j # J
      <4>1. stored'[j] = stored[j]
        BY <2>0, <3>2, <1>t DEF TypeOK
      <4> QED BY <4>1, <3>2, <3>p, <2>0 DEF Counted, Uncounted
    <3> QED BY <3>1, <3>2
  <2> QED BY <2>0, <2>1, <1>t DEF Counting, TypeOK
<1>3. CASE Count(w)
  <2> DEFINE J == at[w].job
             I == at[w].idx
  <2>0. /\ J \in Job /\ I \in stored[J] /\ UNCHANGED stored
        /\ done' = [done EXCEPT ![J] = @ + 1]
        /\ pc[w] = "count" /\ pc'[w] = "loop"
        /\ \A v \in Worker \ {w} : pc'[v] = pc[v] /\ at'[v] = at[v]
    BY <1>3, <1>t, <1>c DEF Count, Storing, Claimed, TypeOK
  <2>1. ASSUME NEW j \in Job PROVE done'[j] = Cardinality(Counted(j)') /\ done'[j] \in 0..MaxBlocks
    <3>s. Counted(j) \in SUBSET Index /\ Counted(j)' \in SUBSET Index
      BY <1>t, <2>0 DEF Counted, TypeOK
    <3>d. done[j] = Cardinality(Counted(j)) /\ done[j] \in Nat
      BY <1>t, BoundAssumption DEF Counting, TypeOK
    <3>1. CASE j = J
      <4>1. Uncounted(j)' = Uncounted(j) \ {I} /\ I \in Uncounted(j)
        BY <2>0, <3>1, <1>u DEF Uncounted
      <4>2. Counted(j)' = Counted(j) \cup {I} /\ I \notin Counted(j)
        BY <4>1, <2>0, <3>1 DEF Counted
      <4>3. Cardinality(Counted(j)') = Cardinality(Counted(j)) + 1
        BY <4>2, <3>s, IndexSets, FS_AddElement
      <4>4. done'[j] = done[j] + 1
        BY <2>0, <3>1, <1>t DEF TypeOK
      <4> QED BY <4>3, <4>4, <3>d, <3>s, IndexSets, BoundAssumption
    <3>2. CASE j # J
      <4>1. Counted(j)' = Counted(j)
        BY <2>0, <3>2 DEF Counted, Uncounted
      <4>2. done'[j] = done[j]
        BY <2>0, <3>2, <1>t DEF TypeOK
      <4> QED BY <4>1, <4>2, <3>d, <1>t DEF TypeOK
    <3> QED BY <3>1, <3>2
  <2> QED BY <2>0, <2>1, <1>t DEF Counting, TypeOK
<1>4. CASE ~WriteBlock(w) /\ ~Count(w)
  <2>t. pc \in [Worker -> PC] /\ at \in [Worker -> Claimed \cup {Idle}]
    BY <1>t DEF TypeOK
  <2>1. CASE Start(w) \/ Wake(w) \/ Exit(w)
    BY <1>1, <2>1, <2>t DEF Start, Wake, Exit, Release
  <2>2. CASE Claim(w)
    BY <1>1, <2>2, <2>t DEF Claim
  <2>3. CASE OpenEnds(w) \/ ReadBlock(w)
    BY <1>1, <2>3, <2>t DEF OpenEnds, ReadBlock
  <2>4. CASE OpenFails(w) \/ ReadFails(w) \/ WriteFails(w)
    BY <1>1, <2>4, <2>t DEF OpenFails, ReadFails, WriteFails, LoseBlock
  <2> QED BY <1>4, <2>1, <2>2, <2>3, <2>4 DEF Step
<1> QED BY <1>2, <1>3, <1>4

(* A job is announced by the task that counts its last block: the counter  *)
(* is then the number of its blocks, so all of them are stored.            *)
LEMMA AnnounceStep ==
  ASSUME Task, AnnouncedIsComplete, NEW w \in Worker, Step(w), Task', Counting'
  PROVE  AnnouncedIsComplete'
<1>t. TypeOK /\ TypeOK' /\ Claims' /\ Storing'
  BY DEF Task
<1>s. \A j \in Job : stored'[j] \subseteq 0..(blocks'[j] - 1)
  <2> SUFFICES ASSUME NEW j \in Job, NEW i \in stored'[j]
               PROVE  i \in 0..(blocks'[j] - 1)
    OBVIOUS
  <2>1. i \in Nat /\ next'[j] \in Nat /\ blocks'[j] \in Nat
    BY <1>t, BoundAssumption DEF TypeOK, Index
  <2>2. i < next'[j] /\ next'[j] <= blocks'[j]
    BY <1>t DEF Storing, Claims
  <2> QED BY <2>1, <2>2
<1>1. CASE Count(w)
  <2>j. at[w].job \in Job
    BY <1>1 DEF Count, Task, TypeOK, Claims, Claimed
  <2> PICK J \in Job : J = at[w].job
    BY <2>j
  <2>0. /\ UNCHANGED <<blocks, stored>>
        /\ announced' = IF IsLast(J) THEN announced \cup {J} ELSE announced
        /\ done'[J] = done[J] + 1
    BY <1>1 DEF Count, Task, TypeOK, Claims, jobVars, Claimed
  <2>1. ASSUME IsLast(J) PROVE stored'[J] = All(J)'
    <3>1. blocks'[J] \in 0..MaxBlocks /\ Cardinality(Counted(J)') = blocks'[J]
      BY <2>0, <2>1, <1>t DEF IsLast, Counting, TypeOK
    <3>2. Counted(J)' \subseteq stored'[J]
      BY DEF Counted
    <3>3. Counted(J)' = 0..(blocks'[J] - 1)
      BY <3>1, <3>2, <1>s, <2>0, FullSet
    <3> QED BY <3>2, <3>3, <1>s, <2>0 DEF All
  <2> QED BY <2>0, <2>1 DEF AnnouncedIsComplete, All
<1>2. CASE WriteBlock(w)
  <2>1. /\ \A j \in Job : stored[j] \subseteq stored'[j]
        /\ UNCHANGED <<blocks, announced>> /\ announced \subseteq Job
    BY <1>2 DEF WriteBlock, Put, Task, TypeOK, jobVars
  <2> QED BY <2>1, <1>s DEF AnnouncedIsComplete, All
<1>3. CASE ~Count(w) /\ ~WriteBlock(w)
  <2>1. UNCHANGED <<blocks, stored, announced>>
    BY <1>3 DEF Step, Start, Wake, Claim, Exit, OpenEnds, OpenFails, ReadBlock, ReadFails,
                WriteFails, LoseBlock, jobVars
  <2> QED BY <2>1 DEF AnnouncedIsComplete, All
<1> QED BY <1>1, <1>2, <1>3

-----------------------------------------------------------------------------
(* The main goroutine. While a task works no job is closed.                *)
LEMMA WorkerStep ==
  ASSUME IInv, NEW w \in Worker, Step(w)
  PROVE  IInv'
<1>i. Task /\ Counting /\ AnnouncedIsComplete /\ Closing
  BY DEF IInv, Task
<1>1. Counting' /\ done' \in [Job -> 0..MaxBlocks]
  BY <1>i, CountingStep
<1>2. Task'
  BY <1>i, <1>1, TaskStep
<1>3. AnnouncedIsComplete'
  BY <1>i, <1>1, <1>2, AnnounceStep
<1>4. Closing'
  <2>1. main = 0
    <3>1. pc[w] # "exit"
      BY DEF Step, Start, Wake, Claim, Exit, OpenEnds, OpenFails, ReadBlock, ReadFails, WriteBlock,
             WriteFails, Count
    <3> QED BY <1>i, <3>1, BoundAssumption DEF Task, TypeOK, Leaving, AllReturned
  <2>2. UNCHANGED <<main, active>>
    BY DEF Step, Start, Wake, Claim, Exit, OpenEnds, OpenFails, ReadBlock, ReadFails, WriteBlock,
           WriteFails, Count, LoseBlock
  <2>3. \A j \in Job : ~(j < main') /\ active'[j] \in {Old, None}
    BY <1>i, <2>1, <2>2 DEF Closing, Job
  <2> QED BY <2>3 DEF Closing
<1> QED BY <1>1, <1>2, <1>3, <1>4 DEF IInv, Task

(* WaitReturns and EndPool touch neither a block nor a revision.           *)
LEMMA QuietStep ==
  ASSUME IInv, WaitReturns \/ EndPool
  PROVE  IInv'
<1> USE DEF WaitReturns, EndPool, jobVars
<1>i. TypeOK /\ Claims /\ Storing /\ Accounted /\ Leaving /\ Counting /\ AnnouncedIsComplete
        /\ Closing
  BY DEF IInv
<1>1. TypeOK'
  <2>1. main' \in 0..(NJobs + 1)
    <3>1. NJobs \in Nat
      BY BoundAssumption
    <3> QED BY <1>i, <3>1 DEF TypeOK
  <2>2. ended' \in BOOLEAN
    BY <1>i DEF TypeOK
  <2> QED BY <1>i, <2>1, <2>2 DEF TypeOK
<1>2. Claims' /\ Storing' /\ Accounted'
  BY <1>i DEF Claims, Storing, Accounted, Held
<1>3. Leaving'
  BY <1>i DEF Leaving, AllReturned, Unclaimed
<1>4. Counting' /\ AnnouncedIsComplete'
  <2>1. stored' = stored /\ pc' = pc /\ at' = at /\ done' = done /\ announced' = announced
          /\ blocks' = blocks
    OBVIOUS
  <2>2. \A j : Counted(j)' = Counted(j)
    BY <2>1 DEF Counted, Uncounted
  <2>3. \A j : All(j)' = All(j)
    BY <2>1 DEF All
  <2> QED BY <1>i, <2>1, <2>2, <2>3 DEF Counting, AnnouncedIsComplete
<1>5. Closing'
  <2>1. \A j \in Job : (j < main') = (j < main)
    BY DEF Job
  <2> QED BY <1>i, <2>1 DEF Closing, Commits, CloseErr
<1> QED BY <1>1, <1>2, <1>3, <1>4, <1>5 DEF IInv

(* Close publishes exactly what was stored, if that has no gap, or names   *)
(* the job in an error.                                                    *)
LEMMA CloseStep ==
  ASSUME IInv, NEW j \in Job, Close(j)
  PROVE  IInv'
<1> USE DEF jobVars
<1>i. TypeOK /\ Claims /\ Storing /\ Accounted /\ Leaving /\ Counting /\ AnnouncedIsComplete
        /\ Closing
  BY DEF IInv
<1>b. MaxBlocks \in Nat /\ MaxFaults \in Nat /\ NJobs \in Nat
  BY BoundAssumption
<1>m. main = j /\ main' = j + 1 /\ j \in Nat \ {0} /\ j <= NJobs
  BY <1>b DEF Close, Job
<1>u. UNCHANGED <<jobVars, next, pc, at, clones, stored, done, announced, ended, damaged>>
  BY DEF Close
<1>c. /\ stored[j] \in SUBSET Index
      /\ Cardinality(stored[j]) \in Nat /\ Cardinality(stored[j]) <= MaxBlocks
  BY <1>i, IndexSets DEF TypeOK
<1>e. errs' = errs \/ errs' = errs \cup {CloseErr(j)}
  BY DEF Close, CloseFailed, AddErr, CloseErr
<1>a. \/ UNCHANGED active
      \/ Contiguous(stored[j]) /\ active' = [active EXCEPT ![j] = Cardinality(stored[j])]
  BY DEF Close, CloseFailed
<1>p. \/ ~Commits(j)
      \/ CloseErr(j) \in errs'
      \/ Contiguous(stored[j]) /\ active' = [active EXCEPT ![j] = Cardinality(stored[j])]
  BY DEF Close, CloseFailed, AddErr, CloseErr
<1>1. TypeOK'
  <2>1. errs' \subseteq [job : Job, idx : 0..MaxBlocks]
    BY <1>i, <1>e, <1>b DEF TypeOK, CloseErr
  <2>2. active' \in [Job -> 0..None]
    BY <1>i, <1>a, <1>b, <1>c DEF TypeOK, None
  <2>3. faults' \in 0..MaxFaults
    BY <1>i, <1>b DEF Close, Fault, TypeOK
  <2>4. main' \in 0..(NJobs + 1)
    BY <1>m, <1>b
  <2> QED BY <1>i, <1>u, <2>1, <2>2, <2>3, <2>4 DEF TypeOK
<1>2. Claims' /\ Storing'
  BY <1>i, <1>u DEF Claims, Storing
<1>3. Accounted'
  BY <1>i, <1>u, <1>e DEF Accounted, Held
<1>4. Leaving'
  BY <1>i, <1>u, <1>m DEF Leaving, AllReturned, Unclaimed
<1>5. Counting' /\ AnnouncedIsComplete'
  <2>1. Counting'
    <3>1. \A k \in Job : Counted(k)' = Counted(k)
      BY <1>u DEF Counted, Uncounted
    <3> QED BY <1>i, <1>u, <3>1 DEF Counting
  <2>2. AnnouncedIsComplete'
    BY <1>i, <1>u DEF AnnouncedIsComplete, All
  <2> QED BY <2>1, <2>2
<1>6. Closing'
  <2> SUFFICES ASSUME NEW k \in Job
               PROVE  /\ active'[k] \notin {Old, None} =>
                           /\ k < main' /\ Contiguous(stored[k])
                           /\ active'[k] = Cardinality(stored[k])
                      /\ k < main' /\ Commits(k) /\ active'[k] \in {Old, None} =>
                           CloseErr(k) \in errs'
    BY <1>u DEF Closing, Commits, CloseErr
  <2>k. k \in Nat
    BY DEF Job
  <2>1. CASE k # j
    <3>1. active'[k] = active[k]
      BY <2>1, <1>a, <1>i DEF TypeOK
    <3> QED BY <3>1, <2>1, <2>k, <1>m, <1>i, <1>e DEF Closing
  <2>2. CASE k = j
    <3>1. active[j] \in {Old, None}
      BY <1>i, <1>m DEF Closing
    <3>2. CASE UNCHANGED active
      <4>1. Cardinality(stored[j]) \notin {Old, None}
        BY <1>c, <1>b DEF Old, None
      <4>2. active' # [active EXCEPT ![j] = Cardinality(stored[j])]
        BY <4>1, <3>1, <3>2, <1>i DEF TypeOK
      <4> QED BY <4>2, <3>1, <3>2, <2>2, <1>p
    <3>3. CASE Contiguous(stored[j]) /\ active' = [active EXCEPT ![j] = Cardinality(stored[j])]
      <4>1. active'[j] = Cardinality(stored[j]) /\ active'[j] \notin {Old, None}
        BY <3>3, <1>c, <1>b, <1>i DEF TypeOK, Old, None
      <4> QED BY <4>1, <3>3, <2>2, <1>m
    <3> QED BY <3>2, <3>3, <1>a
  <2> QED BY <2>1, <2>2
<1> QED BY <1>1, <1>2, <1>3, <1>4, <1>5, <1>6 DEF IInv

LEMMA NextIInv == IInv /\ [Next]_vars => IInv'
<1> SUFFICES ASSUME IInv, [Next]_vars PROVE IInv'
  OBVIOUS
<1>1. CASE \E w \in Worker : Step(w)
  BY <1>1, WorkerStep
<1>2. CASE WaitReturns \/ EndPool
  BY <1>2, QuietStep
<1>3. CASE \E j \in Job : Close(j)
  BY <1>3, CloseStep
<1>4. CASE UNCHANGED vars
  <2> USE DEF vars, jobVars
  <2>1. TypeOK' /\ Claims' /\ Storing' /\ Accounted'
    BY <1>4 DEF IInv, TypeOK, Claims, Storing, Accounted, Held
  <2>2. Leaving' /\ Counting' /\ AnnouncedIsComplete'
    BY <1>4 DEF IInv, Leaving, AllReturned, Unclaimed, Counting, Counted, Uncounted,
                AnnouncedIsComplete, All
  <2>3. Closing'
    BY <1>4 DEF IInv, Closing, Commits, CloseErr
  <2> QED BY <2>1, <2>2, <2>3 DEF IInv
<1> QED BY <1>1, <1>2, <1>3, <1>4 DEF Next, Main, Returned

LEMMA Inductive == Spec => []IInv
  BY InitIInv, NextIInv, PTL DEF Spec

-----------------------------------------------------------------------------
(* Every variable keeps its type; in particular jobDoneCount does not pass *)
(* the number of blocks a file may have.                                   *)
THEOREM TypeCorrect == Spec => []TypeOK
<1>1. IInv => TypeOK
  BY DEF IInv
<1> QED BY <1>1, Inductive, PTL

(* No two tasks work on one block, and none on a block that is stored.     *)
THEOREM OneOwner == Spec => []BlockHasOneOwner
<1>1. IInv => BlockHasOneOwner
  BY DEF IInv, BlockHasOneOwner, Claims, Storing
<1> QED BY <1>1, Inductive, PTL

(* When the tasks have returned from a pool that was not cancelled, every  *)
(* block has been claimed and nobody holds one.                            *)
LEMMA Settled ==
  ASSUME IInv, main > 0, ~ended, NEW j \in Job
  PROVE  /\ next[j] = blocks[j]
         /\ \A i \in All(j) : i \in stored[j] \/ [job |-> j, idx |-> i] \in errs
<1>1. \A w \in Worker : pc[w] = "exit" /\ at[w] = Idle
  BY DEF IInv, Leaving, AllReturned, Claims
<1>2. next[j] = blocks[j]
  <2>1. PICK w \in Worker : TRUE
    BY WorkerAssumption
  <2>2. Unclaimed = {}
    BY <1>1, <2>1 DEF IInv, Leaving
  <2> QED BY <2>2, BoundAssumption DEF IInv, Unclaimed, Claims, TypeOK
<1>3. ASSUME NEW i \in All(j) PROVE i \in stored[j] \/ [job |-> j, idx |-> i] \in errs
  <2>1. blocks[j] \in 0..MaxBlocks
    BY DEF IInv, TypeOK
  <2>2. i \in Index /\ i < next[j]
    BY <1>2, <2>1, BoundAssumption DEF All, Index
  <2>3. ~Held(j, i)
    BY <1>1 DEF Held
  <2> QED BY <2>2, <2>3 DEF IInv, Accounted
<1> QED BY <1>2, <1>3

(* A block is stored or named by an error when the tasks have returned.    *)
THEOREM NothingSkipped == Spec => []NoSilentLoss
<1>1. IInv => NoSilentLoss
  BY Settled DEF NoSilentLoss
<1> QED BY <1>1, Inductive, PTL

(* A file is announced when all of its blocks are in place.                *)
THEOREM Announced == Spec => []AnnouncedIsComplete
<1>1. IInv => AnnouncedIsComplete
  BY DEF IInv
<1> QED BY <1>1, Inductive, PTL

LEMMA StoredBlocks ==
  ASSUME IInv, NEW j \in Job
  PROVE  stored[j] \in SUBSET All(j) /\ blocks[j] \in 0..MaxBlocks /\ Cardinality(All(j)) = blocks[j]
<1>1. blocks[j] \in 0..MaxBlocks /\ next[j] \in Nat /\ next[j] <= blocks[j]
  BY BoundAssumption DEF IInv, TypeOK, Claims
<1>2. ASSUME NEW i \in stored[j] PROVE i \in All(j)
  <2>1. i \in Nat /\ i < next[j]
    BY BoundAssumption DEF IInv, TypeOK, Index, Storing
  <2> QED BY <1>1, <2>1, BoundAssumption DEF All
<1> QED BY <1>1, <1>2, FullSet DEF All

(* A copy that reports success has written and published every block.      *)
LEMMA SuccessStored ==
  ASSUME IInv, Success, ~ended, NEW j \in Job
  PROVE  stored[j] = All(j) /\ (target[j] # "local" /\ blocks[j] > 0 => active[j] = blocks[j])
<1>0. main > 0 /\ j < main /\ errs = {}
  BY BoundAssumption DEF Success, Over, Job
<1>1. stored[j] = All(j)
  BY <1>0, Settled, StoredBlocks
<1>2. ASSUME target[j] # "local", blocks[j] > 0 PROVE active[j] = blocks[j]
  <2>1. stored[j] # {}
    <3>1. blocks[j] \in Nat \ {0}
      BY <1>2, StoredBlocks, BoundAssumption
    <3>2. 0 \in All(j)
      BY <3>1 DEF All
    <3> QED BY <1>1, <3>2
  <2>2. active[j] \notin {Old, None}
    BY <1>0, <1>2, <2>1 DEF IInv, Closing, Commits
  <2> QED BY <2>2, <1>1, StoredBlocks DEF IInv, Closing
<1> QED BY <1>1, <1>2

(* THEOREM: a copy that reports success, in a pool that was not cancelled, *)
(* wrote every block it read and published it, whichever tasks did it and  *)
(* whatever they could not open, read or close. (Not that the blocks are   *)
(* whole: see SuccessIsWhole.)                                             *)
THEOREM SuccessWritten == Spec => []SuccessIsWritten
<1>1. IInv => SuccessIsWritten
  BY SuccessStored DEF SuccessIsWritten
<1> QED BY <1>1, Inductive, PTL

(* What is published has no gap, and is the whole file or comes with an    *)
(* error, or the pool was cancelled.                                       *)
THEOREM PublishedPrefix == Spec => []PublishedIsPrefix
<1>1. ASSUME IInv, NEW j \in Job, active[j] \notin {Old, None}
      PROVE  /\ stored[j] = 0..(active[j] - 1)
             /\ Over /\ active[j] # blocks[j] => ~Success \/ ended
  <2>1. Contiguous(stored[j]) /\ active[j] = Cardinality(stored[j])
    BY <1>1 DEF IInv, Closing
  <2>2. Success /\ ~ended => active[j] = blocks[j]
    BY <1>1, <2>1, SuccessStored, StoredBlocks
  <2> QED BY <2>1, <2>2 DEF Contiguous
<1>2. IInv => PublishedIsPrefix
  BY <1>1 DEF PublishedIsPrefix
<1> QED BY <1>2, Inductive, PTL

(* A file's old revision stays active until the tasks have returned, and   *)
(* is replaced once.                                                       *)
THEOREM ReplacedOnce == Spec => ReplacedOnceAtTheEnd
<1>1. ASSUME IInv, [Next]_vars, NEW j \in Job, active'[j] # active[j]
      PROVE  AllReturned /\ active[j] \in {Old, None}
  <2>1. active' # active
    BY <1>1
  <2>2. PICK k \in Job : Close(k)
    BY <1>1, <2>1 DEF Next, Step, Main, Returned, vars, Start, Wake, Claim, Exit, OpenEnds,
       OpenFails, ReadBlock, ReadFails, WriteBlock, WriteFails, Count, LoseBlock, WaitReturns, EndPool
  <2>3. main = k /\ k \in Nat \ {0}
    BY <2>2, BoundAssumption DEF Close, Job
  <2>4. active' = [active EXCEPT ![k] = Cardinality(stored[k])]
    BY <2>1, <2>2 DEF Close, CloseFailed
  <2>5. k = j
    BY <1>1, <2>4 DEF IInv, TypeOK
  <2> QED BY <1>1, <2>3, <2>5 DEF IInv, Leaving, Closing
<1>2. IInv /\ [Next]_vars =>
        [\A j \in Job : active'[j] # active[j] => AllReturned /\ active[j] \in {Old, None}]_vars
  BY <1>1
<1> QED BY <1>2, Inductive, PTL DEF Spec, ReplacedOnceAtTheEnd
=============================================================================
