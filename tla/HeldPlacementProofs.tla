------------------------ MODULE HeldPlacementProofs ------------------------
(***************************************************************************)
(* Proofs about HeldPlacement, for every stream, cluster and checkpoint,   *)
(* and any number of failed requests and of changes by users: wait_drain   *)
(* never reports drained too early, every pin of the controller is sound,  *)
(* and the retries of sbatch leave no job of the stream out.               *)
(***************************************************************************)
EXTENDS HeldPlacement, FiniteSetTheorems, TLAPS

States == {"none", "held", "pending", "over"} \cup Nodes

\* The number that Slurm gives out next has not been used, and a decision is about a
\* job that was submitted.
Types ==
  /\ st \in [Ids -> States] /\ name \in [Ids -> 0 .. Stream] /\ pin \in [Ids -> Nodes \cup {AnyNode}]
  /\ next \in Nat \ {0} /\ (bench = "submit" => next <= Stream)
  /\ \E k \in Nat : Used = 1 .. k
  /\ \A i \in Used : name[i] \in 1 .. Stream
  /\ view = [jobs |-> view.jobs, nodes |-> view.nodes, free |-> view.free]
  /\ view.jobs \subseteq Used

\* An empty answer was true when it was given, and no job is submitted after it.
DrainInv ==
  /\ empties \in Nat
  /\ empties > 0 => Live = {} /\ bench # "submit"
  /\ bench = "drained" => Live = {}

\* A decision on its way names a node that its job may run on, and that its pin, if it
\* has one, names too.
ChoiceInv ==
  pc = "apply" =>
    /\ choice.job \in Used
    /\ Resolve \in Eligible[name[choice.job]]
    /\ pin[choice.job] \in {Resolve, AnyNode}

-----------------------------------------------------------------------------
(* What the steps do to the jobs *)

\* The next number is free, whatever requests were lost.
LEMMA NextIsFree ==
  ASSUME Types
  PROVE  Cardinality(Used) + 1 \notin Used /\ Used \cup {Cardinality(Used) + 1} = 1 .. Cardinality(Used) + 1
<1>1. PICK k \in Nat : Used = 1 .. k
  BY DEF Types
<1>2. Cardinality(Used) = k
  BY <1>1, FS_Interval
<1> QED
  BY <1>1, <1>2

\* A job that changes its state was submitted before and is not new again.
LEMMA SetKeepsUsed ==
  ASSUME Types, NEW i \in Used, NEW s \in States \ {"none"}, Set(i, s)
  PROVE  Used' = Used /\ st' \in [Ids -> States]
  BY DEF Types, Set, Used

LEMMA NodesAreNoStates == Nodes \subseteq States \ {"none"} /\ {"held", "pending", "over"} \subseteq States \ {"none"}
  BY HeldAssumption DEF States

\* Slurm and users submit nothing.
LEMMA SlurmStep ==
  ASSUME Types, Slurm
  PROVE  /\ st' \in [Ids -> States] /\ Used' = Used
         /\ (Live = {} => Live' = {})
         /\ UNCHANGED <<name, pin, next, bench, empties, pc, view, choice>>
<1>1. UNCHANGED <<harness, control>>
  BY DEF Slurm
<1>2. st' \in [Ids -> States] /\ Used' = Used /\ (Live = {} => Live' = {}) /\ UNCHANGED <<name, pin>>
  <2>1. ASSUME NEW i \in Ids, NEW n \in Nodes, Start(i, n)
        PROVE  /\ st' \in [Ids -> States] /\ Used' = Used /\ Live # {} /\ UNCHANGED <<name, pin>>
    <3>1. i \in Used /\ i \in Live
      BY <2>1 DEF Start, Used, Live
    <3> QED
      BY <2>1, <3>1, SetKeepsUsed, NodesAreNoStates DEF Start
  <2>2. ASSUME NEW i \in Ids, End(i)
        PROVE  /\ st' \in [Ids -> States] /\ Used' = Used /\ Live' \subseteq Live /\ UNCHANGED <<name, pin>>
    <3>1. i \in Used
      BY <2>2, HeldAssumption DEF End, Used
    <3>2. st' \in [Ids -> States] /\ Used' = Used
      BY <2>2, <3>1, SetKeepsUsed, NodesAreNoStates DEF End
    <3> QED
      BY <2>2, <3>2 DEF End, Set, Live, Types
  <2>3. ASSUME Disturb
        PROVE  /\ st' \in [Ids -> States] /\ Used' = Used /\ (Live = {} => Live' = {}) /\ UNCHANGED <<name, pin>>
    <3>1. ASSUME NEW i \in Live, Set(i, "over") \/ Set(i, "pending") \/ Set(i, "held")
          PROVE  st' \in [Ids -> States] /\ Used' = Used
      BY <3>1, SetKeepsUsed, NodesAreNoStates DEF Live
    <3>2. Held \subseteq Live
      BY DEF Held, Live, Used
    <3>3. ASSUME UNCHANGED st
          PROVE  st' \in [Ids -> States] /\ Used' = Used /\ Live' = Live
      BY <3>3 DEF Types, Used, Live
    <3> QED
      BY <2>3, <3>1, <3>2, <3>3 DEF Disturb
  <2>4. ASSUME NEW n \in Nodes, Recover(n)
        PROVE  /\ st' \in [Ids -> States] /\ Used' = Used /\ Live' = Live /\ UNCHANGED <<name, pin>>
    BY <2>4 DEF Recover, Types, Used, Live
  <2> QED
    BY <2>1, <2>2, <2>3, <2>4 DEF Slurm
<1> QED
  BY <1>1, <1>2 DEF harness, control

\* The controller submits nothing either, and pins at most the job of its decision.
LEMMA PlacedStep ==
  ASSUME Types, NEW i \in Ids, NEW n \in Nodes, Placed(i, n)
  PROVE  /\ st' \in [Ids -> States] /\ Used' = Used /\ Live # {}
         /\ pin' = [pin EXCEPT ![i] = n] /\ UNCHANGED name
<1>1. i \in Used /\ i \in Live
  BY DEF Placed, Used, Live
<1>2. Set(i, "pending")
  BY DEF Placed
<1>3. st' \in [Ids -> States] /\ Used' = Used
  BY <1>1, <1>2, SetKeepsUsed, NodesAreNoStates
<1> QED
  BY <1>1, <1>3 DEF Placed

\* A submission takes the next number; every other job stays as it is.
LEMMA TakenStep ==
  ASSUME Types, next \in 1 .. Stream, Taken
  PROVE  /\ st' \in [Ids -> States] /\ name' \in [Ids -> 0 .. Stream] /\ UNCHANGED pin
         /\ \E k \in Nat : Used' = 1 .. k
         /\ Used \subseteq Used'
         /\ \A i \in Used : name'[i] = name[i]
         /\ \A i \in Used' : name'[i] \in 1 .. Stream
<1> DEFINE i == Cardinality(Used) + 1
<1>1. st' = [st EXCEPT ![i] = Hold] /\ name' = [name EXCEPT ![i] = next] /\ UNCHANGED pin
  BY DEF Taken, Set
<1>2. Hold \in States \ {"none"}
  BY NodesAreNoStates DEF Hold
<1>3. i \notin Used /\ Used \cup {i} = 1 .. i /\ i \in Nat
  BY NextIsFree, FS_Interval DEF Types
<1> HIDE DEF i
<1>4. CASE i \in Ids
  <2>1. Used' = 1 .. i
    BY <1>1, <1>2, <1>3, <1>4 DEF Types, Used
  <2>2. name' \in [Ids -> 0 .. Stream] /\ st' \in [Ids -> States]
    <3>1. next \in 0 .. Stream
      OBVIOUS
    <3>2. Hold \in States
      BY <1>2
    <3> QED
      BY <1>1, <3>1, <3>2 DEF Types
  <2>3. \A j \in Used : j # i /\ j \in Ids /\ name'[j] = name[j]
    BY <1>1, <1>3 DEF Types, Used
  <2>4. name'[i] = next
    BY <1>1, <1>4 DEF Types
  <2>5. \A j \in Used' : j \in Used \/ j = i
    BY <1>3, <2>1
  <2> QED
    BY <1>1, <1>3, <2>1, <2>2, <2>3, <2>4, <2>5 DEF Types
<1>5. CASE i \notin Ids
  <2>1. st' = st /\ name' = name
    BY <1>1, <1>5 DEF Types
  <2>2. Used' = Used
    BY <2>1 DEF Used
  <2>3. \E k \in Nat : Used' = 1 .. k
    BY <2>2 DEF Types
  <2> QED
    BY <1>1, <2>1, <2>2, <2>3 DEF Types
<1> QED
  BY <1>4, <1>5

\* What a step of the harness does.
LEMMA SubmitStep ==
  ASSUME Types, Submit
  PROVE  /\ st' \in [Ids -> States] /\ name' \in [Ids -> 0 .. Stream] /\ UNCHANGED <<pin, empties, pc, view, choice>>
         /\ \E k \in Nat : Used' = 1 .. k
         /\ Used \subseteq Used'
         /\ \A i \in Used : name'[i] = name[i]
         /\ \A i \in Used' : name'[i] \in 1 .. Stream
         /\ next' \in Nat \ {0} /\ (bench' = "submit" => next' <= Stream)
         /\ bench = "submit" /\ bench' \in {"submit", "drain"}
<1>1. bench = "submit" /\ next \in 1 .. Stream /\ Stream \in Nat /\ UNCHANGED <<empties, pc, view, choice>>
  BY HeldAssumption DEF Submit, control, Types
<1>2. next' \in Nat \ {0} /\ (bench' = "submit" => next' <= Stream) /\ bench' \in {"submit", "drain"}
  <2>1. CASE NextJob
    BY <1>1, <2>1 DEF NextJob
  <2>2. CASE UNCHANGED <<bench, next>>
    BY <1>1, <2>2
  <2> QED
    BY <2>1, <2>2 DEF Submit, SubmitOk, SubmitFails
<1>3. CASE Taken
  BY <1>1, <1>2, <1>3, TakenStep
<1>4. CASE UNCHANGED slurm
  <2>1. UNCHANGED <<st, name, pin>>
    BY <1>4 DEF slurm
  <2> QED
    BY <1>1, <1>2, <2>1 DEF Types, Used
<1> QED
  BY <1>3, <1>4 DEF Submit, SubmitOk, SubmitFails

\* The steps of the controller, other than the one that applies a decision.
LEMMA ReadStep ==
  ASSUME Types, ReadJobs \/ ReadNodes \/ Act \/ Refused
  PROVE  /\ UNCHANGED <<st, name, pin, harness>>
         /\ view' = [jobs |-> view'.jobs, nodes |-> view'.nodes, free |-> view'.free] /\ view'.jobs \subseteq Used
<1>1. UNCHANGED <<st, name, pin, harness>>
  BY DEF ReadJobs, ReadNodes, Act, Refused, slurm
<1>2. CASE ReadJobs
  <2>1. view' = [NoView EXCEPT !.jobs = Held]
    BY <1>2 DEF ReadJobs
  <2> QED
    BY <1>1, <2>1 DEF NoView, Held, Used
<1>3. CASE Restart
  BY <1>1, <1>3 DEF Restart, NoView
<1>4. CASE ReadNodes /\ ~Restart
  <2>1. view' = [view EXCEPT !.nodes = Trimmed, !.free = [i \in DOMAIN Trimmed |-> Free(Trimmed[i])]]
    BY <1>4 DEF ReadNodes
  <2>2. view' = [jobs |-> view.jobs, nodes |-> Trimmed, free |-> [i \in DOMAIN Trimmed |-> Free(Trimmed[i])]]
    BY <2>1 DEF Types
  <2> QED
    BY <1>1, <2>2 DEF Types
<1>5. CASE Act /\ ~Restart
  BY <1>1, <1>5 DEF Act, Types
<1> QED
  BY <1>2, <1>3, <1>4, <1>5 DEF Refused

\* Applying a decision.
LEMMA ApplyStep ==
  ASSUME Types, ChoiceInv, Apply
  PROVE  /\ st' \in [Ids -> States] /\ Used' = Used /\ Live # {}
         /\ pin' = [pin EXCEPT ![choice.job] = Resolve] /\ UNCHANGED <<name, harness>>
         /\ view' = NoView /\ pc' = "jobs"
         /\ choice.job \in Used /\ Resolve \in Nodes
<1>1. choice.job \in Used /\ choice.job \in Ids /\ Resolve \in Eligible[name[choice.job]]
  BY DEF ChoiceInv, Apply, Used
<1>2. Resolve \in Nodes
  BY <1>1, HeldAssumption DEF Types
<1> QED
  BY <1>1, <1>2, PlacedStep DEF Apply, Restart

-----------------------------------------------------------------------------
(* The invariants *)

\* A step of the harness that polls or gives up changes nothing but the harness.
LEMMA PollStep ==
  ASSUME Poll \/ GiveUp
  PROVE  /\ UNCHANGED <<st, name, pin, pc, view, choice, next>>
         /\ bench = "drain" /\ bench' \in {"drain", "drained", "gaveUp"}
  BY DEF Poll, GiveUp, slurm, control

LEMMA TypesStep == Types /\ ChoiceInv /\ [Next]_vars => Types'
<1> SUFFICES ASSUME Types, ChoiceInv, [Next]_vars PROVE Types'
  OBVIOUS
<1>1. CASE Slurm
  BY <1>1, SlurmStep DEF Types
<1>2. CASE Submit
  BY <1>2, SubmitStep DEF Types
<1>3. CASE Poll \/ GiveUp
  BY <1>3, PollStep DEF Types, Used
<1>4. CASE ReadJobs \/ ReadNodes \/ Act \/ Refused
  BY <1>4, ReadStep DEF Types, Used, harness
<1>5. CASE Apply
  <2>1. pin' \in [Ids -> Nodes \cup {AnyNode}]
    BY <1>5, ApplyStep DEF Types
  <2> QED
    BY SMTT(30), <1>5, <2>1, ApplyStep DEF Types, NoView, harness
<1>6. CASE UNCHANGED vars
  BY <1>6 DEF vars, slurm, harness, control, Types, Used
<1> QED
  BY <1>1, <1>2, <1>3, <1>4, <1>5, <1>6 DEF Next, Harness, Controller

\* A new decision is one that /act offered for the view.
LEMMA ActIsSound ==
  ASSUME Types, Act, pc' = "apply"
  PROVE  ChoiceInv'
<1>1. choice' \in Placeable /\ UNCHANGED <<view, st, name, pin>>
  BY DEF Act, Restart, slurm
<1>2. choice'.job \in view.jobs /\ Allowed(choice'.job, choice'.index)
  BY <1>1 DEF Placeable, Window
<1>3. Resolve' = view.nodes[choice'.index]
  BY <1>1 DEF Resolve
<1> QED
  BY <1>1, <1>2, <1>3 DEF Allowed, ChoiceInv, Types, Used

LEMMA ChoiceStep == Types /\ ChoiceInv /\ [Next]_vars => ChoiceInv'
<1> SUFFICES ASSUME Types, ChoiceInv, [Next]_vars PROVE ChoiceInv'
  OBVIOUS
<1>1. CASE Slurm
  BY <1>1, SlurmStep DEF ChoiceInv, Resolve
<1>2. CASE Submit
  BY <1>2, SubmitStep DEF ChoiceInv, Resolve
<1>3. CASE Poll \/ GiveUp
  BY <1>3, PollStep DEF ChoiceInv, Resolve, Used
<1>4. CASE ReadJobs \/ ReadNodes \/ Refused
  <2>1. pc' # "apply"
    BY <1>4 DEF ReadJobs, ReadNodes, Refused, Restart
  <2> QED
    BY <2>1 DEF ChoiceInv
<1>5. CASE Act
  BY <1>5, ActIsSound DEF ChoiceInv
<1>6. CASE Apply
  BY <1>6, ApplyStep DEF ChoiceInv
<1>7. CASE UNCHANGED vars
  BY <1>7 DEF vars, slurm, control, ChoiceInv, Resolve, Used
<1> QED
  BY <1>1, <1>2, <1>3, <1>4, <1>5, <1>6, <1>7 DEF Next, Harness, Controller

LEMMA DrainStep == Types /\ ChoiceInv /\ DrainInv /\ [Next]_vars => DrainInv'
<1> SUFFICES ASSUME Types, ChoiceInv, DrainInv, [Next]_vars PROVE DrainInv'
  OBVIOUS
<1>1. CASE Slurm
  BY <1>1, SlurmStep DEF DrainInv
<1>2. CASE Submit
  BY <1>2, SubmitStep DEF DrainInv
<1>3. CASE Poll
  <2>1. Live' = Live /\ bench = "drain" /\ bench' # "submit"
    BY <1>3, PollStep DEF Live, Used
  <2>2. PICK failed \in BOOLEAN : empties' = Count(failed)
    BY <1>3 DEF Poll
  <2>3. empties' \in Nat /\ (empties' > 0 => Live = {})
    BY <2>2 DEF Count, DrainInv
  <2>4. bench' = "drained" => empties' > 0
    BY <1>3, <2>3, HeldAssumption DEF Poll
  <2> QED
    BY <2>1, <2>3, <2>4 DEF DrainInv
<1>4. CASE GiveUp
  <2>1. Live' = Live /\ bench' = "gaveUp" /\ empties' = empties
    BY <1>4, PollStep DEF Live, Used, GiveUp
  <2> QED
    BY <2>1 DEF DrainInv
<1>5. CASE ReadJobs \/ ReadNodes \/ Act \/ Refused
  BY <1>5, ReadStep DEF DrainInv, Live, Used, harness
<1>6. CASE Apply
  BY <1>6, ApplyStep DEF DrainInv, harness
<1>7. CASE UNCHANGED vars
  BY <1>7 DEF vars, slurm, harness, DrainInv, Live, Used
<1> QED
  BY <1>1, <1>2, <1>3, <1>4, <1>5, <1>6, <1>7 DEF Next, Harness, Controller

LEMMA Initially == Init => Types /\ ChoiceInv /\ DrainInv
<1> SUFFICES ASSUME Init PROVE Types /\ ChoiceInv /\ DrainInv
  OBVIOUS
<1>1. Used = {} /\ {} = 1 .. 0 /\ 0 \in Nat
  BY DEF Init, Used
<1>2. /\ st \in [Ids -> States] /\ name \in [Ids -> 0 .. Stream] /\ pin \in [Ids -> Nodes \cup {AnyNode}]
      /\ next \in Nat \ {0} /\ (bench = "submit" => next <= Stream)
  BY HeldAssumption DEF Init, States
<1>3. \E k \in Nat : Used = 1 .. k
  BY <1>1
<1>4. view = NoView
  BY DEF Init
<1>5. Types
  BY <1>1, <1>2, <1>3, <1>4 DEF Types, NoView
<1> QED
  BY <1>5 DEF Init, ChoiceInv, DrainInv

-----------------------------------------------------------------------------
(* The theorems *)

LEMMA Invariants == Spec => [](Types /\ ChoiceInv /\ DrainInv)
<1>1. Types /\ ChoiceInv /\ DrainInv /\ [Next]_vars => (Types /\ ChoiceInv /\ DrainInv)'
  BY TypesStep, ChoiceStep, DrainStep
<1> QED
  BY <1>1, Initially, PTL DEF Spec

\* wait_drain only reports an empty queue when every job of the stream has left it,
\* however many sbatch replies and squeue answers are lost.
THEOREM DrainIsReal == Spec => []DrainedMeansOver
<1>1. DrainInv => DrainedMeansOver
  BY DEF DrainInv, DrainedMeansOver
<1> QED
  BY <1>1, Invariants, PTL

\* The controller pins a job once, to a node its GPU type allows, although the cluster
\* and the queue move between its reads and its write.
THEOREM PinsStaySound == Spec => PinsAreSound
<1>1. Types /\ ChoiceInv /\ [Next]_vars
        => (\A i \in Ids : pin'[i] # pin[i] => pin[i] = AnyNode /\ pin'[i] \in Eligible[name[i]])
  <2> SUFFICES ASSUME Types, ChoiceInv, [Next]_vars, NEW i \in Ids, pin'[i] # pin[i]
               PROVE  pin[i] = AnyNode /\ pin'[i] \in Eligible[name[i]]
    OBVIOUS
  <2>1. Apply
    BY SlurmStep, SubmitStep, PollStep, ReadStep
       DEF Next, Harness, Controller, vars, slurm
  <2>2. pin' = [pin EXCEPT ![choice.job] = Resolve] /\ pc = "apply"
    BY <2>1, ApplyStep DEF Apply
  <2>3. i = choice.job /\ pin'[i] = Resolve
    BY <2>2 DEF Types
  <2> QED
    BY <2>2, <2>3 DEF ChoiceInv
<1> QED
  BY <1>1, Invariants, PTL DEF Spec, PinsAreSound

-----------------------------------------------------------------------------
(* The submissions *)

\* The Slurm jobs that were submitted for a job of the stream.
Of(k) == { i \in Used : name[i] = k }

\* Every attempt takes one number at most, and every attempt after the first has cost a fault.
CountInv ==
  /\ next \in 1 .. Stream + 1 /\ tries \in 1 .. Attempts /\ faults \in Nat
  /\ Cardinality(Used) <= next - 1 + faults
  /\ Cardinality(Used) <= (next - 1) * Attempts + (Attempts - tries)
  /\ bench = "submit" => faults >= Attempts - tries
  /\ \A i \in Used : name[i] <= next
  /\ \A k \in 1 .. next - 1 : Cardinality(Of(k)) <= Attempts /\ (faults < Attempts => Of(k) # {})
  /\ Cardinality(Of(next)) <= Attempts - tries

LEMMA UsedIsFinite == Types => IsFiniteSet(Used)
<1> SUFFICES ASSUME Types PROVE IsFiniteSet(Used)
  OBVIOUS
<1>1. PICK k \in Nat : Used = 1 .. k
  BY DEF Types
<1> QED
  BY <1>1, FS_Interval

\* The jobs of the stream leave a number free for the next attempt.
LEMMA NumbersSuffice ==
  ASSUME Types, CountInv, bench = "submit"
  PROVE  Cardinality(Used) \in Nat /\ Cardinality(Used) + 1 \in Ids
<1> DEFINE c == Cardinality(Used)
           w == (Stream - next) * Attempts
<1>1. c \in Nat
  BY UsedIsFinite, FS_CardinalityType
<1>2. next \in Nat \ {0} /\ next <= Stream /\ Stream \in Nat /\ Attempts \in Nat \ {0} /\ tries \in Nat \ {0}
  <2>1. next \in Nat \ {0} /\ next <= Stream
    BY DEF Types
  <2>2. Stream \in Nat /\ Attempts \in Nat \ {0}
    BY HeldAssumption
  <2>3. tries \in 1 .. Attempts
    BY DEF CountInv
  <2> QED
    BY <2>1, <2>2, <2>3
<1>3. c <= (next - 1) * Attempts + (Attempts - tries)
  BY DEF CountInv
<1>4. w \in Nat /\ Stream * Attempts = (next - 1) * Attempts + Attempts + w /\ (next - 1) * Attempts \in Nat
  <2>1. Stream - next \in Nat /\ next - 1 \in Nat /\ Stream = (next - 1) + 1 + (Stream - next)
    BY <1>2
  <2>2. \A x, y, a \in Nat : (x + 1 + y) * a = x * a + a + y * a /\ x * a \in Nat /\ y * a \in Nat
    OBVIOUS
  <2> QED
    BY <1>2, <2>1, <2>2
<1> HIDE DEF c, w
<1>5. c + 1 <= Stream * Attempts /\ Stream * Attempts \in Nat
  BY <1>1, <1>2, <1>3, <1>4
<1> QED
  BY <1>1, <1>5 DEF Ids, c

\* What a submission adds: one number, for the job of the stream that is submitted.
LEMMA TakenAddsOne ==
  ASSUME Types, CountInv, bench = "submit", Taken
  PROVE  /\ Cardinality(Used') = Cardinality(Used) + 1 /\ Cardinality(Used) \in Nat
         /\ \A i \in Used' : name'[i] <= next
         /\ \A k \in Nat : k # next => Of(k)' = Of(k)
         /\ \A k \in Nat : k = next => Cardinality(Of(k)') = Cardinality(Of(k)) + 1 /\ Of(k)' # {}
<1> DEFINE i == Cardinality(Used) + 1
<1>1. Cardinality(Used) \in Nat /\ i \in Ids
  BY NumbersSuffice
<1>2. st' = [st EXCEPT ![i] = Hold] /\ name' = [name EXCEPT ![i] = next]
  BY DEF Taken, Set
<1>3. Hold # "none"
  BY DEF Hold
<1>4. i \notin Used /\ IsFiniteSet(Used)
  <2>1. PICK k \in Nat : Used = 1 .. k
    BY DEF Types
  <2> QED
    BY <2>1, NextIsFree, FS_Interval
<1> HIDE DEF i
<1>5. Used' = Used \cup {i}
  BY <1>1, <1>2, <1>3 DEF Types, Used
<1>6. name'[i] = next /\ \A j \in Used : j # i /\ name'[j] = name[j]
  BY <1>1, <1>2, <1>4 DEF Types, Used
<1>7. Cardinality(Used') = Cardinality(Used) + 1
  BY <1>4, <1>5, FS_AddElement
<1>8. \A k \in Nat : k # next => Of(k)' = Of(k)
  BY <1>5, <1>6 DEF Of
<1>9. ASSUME NEW k \in Nat, k = next
      PROVE  Cardinality(Of(k)') = Cardinality(Of(k)) + 1 /\ Of(k)' # {}
  <2>1. Of(k)' = Of(k) \cup {i} /\ i \notin Of(k)
    BY <1>4, <1>5, <1>6, <1>9 DEF Of
  <2>2. IsFiniteSet(Of(k))
    BY <1>4, FS_Subset DEF Of
  <2> QED
    BY <2>1, <2>2, FS_AddElement
<1>10. next \in Nat
  BY DEF CountInv
<1> QED
  BY <1>1, <1>5, <1>6, <1>7, <1>8, <1>9, <1>10 DEF CountInv

\* A step that submits nothing leaves the count as it is.
LEMMA NothingSubmitted ==
  ASSUME Types, CountInv, UNCHANGED <<name, next, tries>>, Used' = Used, faults' \in Nat, faults' >= faults,
         bench' = "submit" => bench = "submit"
  PROVE  CountInv'
<1>1. \A k \in Nat : Of(k)' = Of(k)
  BY DEF Of
<1>2. next \in Nat /\ faults \in Nat /\ tries \in Nat /\ Attempts \in Nat /\ Stream \in Nat
  BY HeldAssumption DEF CountInv
<1>3. Cardinality(Of(next)') = Cardinality(Of(next)) /\ Cardinality(Used') = Cardinality(Used)
  BY <1>1, <1>2
<1>4. \A k \in 1 .. next' - 1 :
        Cardinality(Of(k)') <= Attempts /\ (faults' < Attempts => Of(k)' # {})
  BY <1>1, <1>2 DEF CountInv
<1>5. Cardinality(Used') <= next' - 1 + faults'
  <2>1. Cardinality(Used) <= next - 1 + faults
    BY DEF CountInv
  <2>2. Cardinality(Used) \in Nat
    BY UsedIsFinite, FS_CardinalityType
  <2> QED
    BY <1>2, <1>3, <2>1, <2>2
<1> QED
  BY <1>1, <1>2, <1>3, <1>4, <1>5 DEF CountInv

\* The four outcomes of an attempt: the job was taken or not, and the harness tries it
\* again or goes on.
LEMMA SubmitKeepsCount == Types /\ CountInv /\ Submit => CountInv'
<1> SUFFICES ASSUME Types, CountInv, Submit PROVE CountInv'
  OBVIOUS
<1>1. /\ next \in 1 .. Stream /\ Stream \in Nat /\ Attempts \in Nat \ {0} /\ tries \in 1 .. Attempts /\ faults \in Nat
      /\ bench = "submit" /\ faults >= Attempts - tries
  BY HeldAssumption DEF Submit, Types, CountInv
<1> DEFINE c == Cardinality(Used)
           o(k) == Cardinality(Of(k))
           d == IF Taken THEN 1 ELSE 0
<1>2. /\ c \in Nat /\ Cardinality(Used') = c + d
      /\ \A i \in Used' : name'[i] <= next
      /\ \A k \in Nat : k # next => Of(k)' = Of(k)
      /\ \A k \in Nat : k = next => Cardinality(Of(k)') = o(k) + d /\ (Taken => Of(k)' # {})
  <2>1. CASE Taken
    BY <1>1, <2>1, TakenAddsOne
  <2>2. CASE ~Taken
    <3>1. UNCHANGED <<st, name>>
      BY <2>2 DEF Submit, SubmitOk, SubmitFails, slurm
    <3>2. Used' = Used /\ \A k \in Nat : Of(k)' = Of(k)
      BY <3>1 DEF Used, Of
    <3>3. \A i \in Used' : name'[i] <= next
      BY <3>1, <3>2 DEF CountInv
    <3>4. c \in Nat
      BY <1>1, NumbersSuffice
    <3>5. IsFiniteSet(Used)
      BY UsedIsFinite
    <3>6. \A k \in Nat : o(k) \in Nat
      BY <3>5, FS_Subset, FS_CardinalityType DEF Of
    <3> QED
      BY <2>2, <3>2, <3>3, <3>4, <3>6
  <2> QED
    BY <2>1, <2>2
<1>3. d \in {0, 1} /\ (d = 1 <=> Taken)
  OBVIOUS
<1>4. c <= next - 1 + faults /\ c <= (next - 1) * Attempts + (Attempts - tries) /\ o(next) <= Attempts - tries
  BY DEF CountInv
<1>5. o(next) \in Nat
  <2>1. IsFiniteSet(Used)
    BY UsedIsFinite
  <2> QED
    BY <2>1, FS_Subset, FS_CardinalityType DEF Of
<1>6. CASE tries > 1 /\ ~NextJob
  <2>1. faults' = faults + 1 /\ tries' = tries - 1 /\ next' = next /\ bench' = bench
    BY <1>6 DEF Submit, SubmitOk, SubmitFails, Fault
  <2>2. next' \in 1 .. Stream + 1 /\ tries' \in 1 .. Attempts /\ faults' \in Nat /\ faults' >= Attempts - tries'
    BY <1>1, <1>6, <2>1
  <2> DEFINE m == (next - 1) * Attempts
  <2>3. m \in Nat
    BY <1>1
  <2>4. c + d <= next' - 1 + faults' /\ c + d <= (next' - 1) * Attempts + (Attempts - tries')
    <3>1. c <= m + (Attempts - tries) /\ (next' - 1) * Attempts = m
      BY <1>4, <2>1
    <3> HIDE DEF c, d, m
    <3>2. c + d <= m + (Attempts - tries')
      BY <1>1, <1>2, <1>3, <2>1, <2>3, <3>1
    <3>3. c + d <= next' - 1 + faults'
      BY <1>1, <1>2, <1>3, <1>4, <2>1
    <3> QED
      BY <3>1, <3>2, <3>3
  <2>5. Cardinality(Of(next)') <= Attempts - tries'
    <3>1. \A k \in Nat : k = next => Cardinality(Of(k)') = o(k) + d
      BY <1>2
    <3> HIDE DEF o, d
    <3>2. \A k \in Nat : k = next => Cardinality(Of(k)') <= Attempts - tries'
      BY <1>1, <1>3, <1>4, <1>5, <2>1, <3>1
    <3> QED
      BY <1>1, <2>1, <3>2
  <2>6. \A k \in 1 .. next' - 1 : Cardinality(Of(k)') <= Attempts /\ (faults' < Attempts => Of(k)' # {})
    BY <1>1, <1>2, <2>1 DEF CountInv
  <2> QED
    BY <1>2, <2>1, <2>2, <2>4, <2>5, <2>6 DEF CountInv
<1>7. CASE NextJob
  <2>1. next' = next + 1 /\ tries' = Attempts /\ bench' \in {"submit", "drain"}
    BY <1>7 DEF NextJob
  <2>2. faults' \in {faults, faults + 1} /\ (~Taken => faults' = faults + 1 /\ tries = 1)
    <3>1. CASE SubmitOk
      BY <3>1 DEF SubmitOk, Sound, budget
    <3>2. CASE SubmitFails
      BY <1>1, <2>1, <3>2 DEF SubmitFails, Fault
    <3> QED
      BY <3>1, <3>2 DEF Submit
  <2>3. d = 1 \/ faults' >= Attempts
    BY <1>1, <2>2
  <2> DEFINE m == (next - 1) * Attempts
  <2>4. m \in Nat /\ next * Attempts = m + Attempts
    <3>1. \A x, a \in Nat : (x + 1) * a = x * a + a /\ x * a \in Nat
      OBVIOUS
    <3>2. next - 1 \in Nat /\ (next - 1) + 1 = next
      BY <1>1
    <3> QED
      BY <1>1, <3>1, <3>2
  <2>5. c + d <= next' - 1 + faults' /\ c + d <= (next' - 1) * Attempts + (Attempts - tries')
    <3>1. c <= m + (Attempts - tries) /\ next' - 1 = next
      BY <1>1, <1>4, <2>1
    <3> HIDE DEF c, d, m
    <3>2. c + d <= m + Attempts
      BY <1>1, <1>2, <1>3, <2>4, <3>1
    <3>3. c + d <= next + faults'
      <4>1. c <= next - 1 + faults /\ faults' >= faults /\ faults' \in Nat
        BY <1>1, <1>4, <2>2
      <4>2. c \in Nat /\ d \in Nat /\ d <= 1 /\ next \in Nat /\ faults \in Nat
        BY <1>1, <1>2, <1>3
      <4>3. \A x, y, n, f, g \in Nat : x <= n - 1 + f /\ y <= 1 /\ f <= g => x + y <= n + g
        OBVIOUS
      <4>4. faults <= faults'
        BY <4>1
      <4> QED
        BY <4>1, <4>2, <4>3, <4>4
    <3> QED
      BY <1>1, <2>1, <2>4, <3>1, <3>2, <3>3
  <2>6. Of(next)' = {}
    <3>1. \A i \in Used' : name'[i] # next'
      BY <1>1, <1>2, <2>1 DEF CountInv
    <3>2. Used' \subseteq Ids /\ st' \in [Ids -> States] /\ name' \in [Ids -> 0 .. Stream]
      BY SubmitStep DEF Used
    <3> QED
      BY <3>1 DEF Of
  <2>7. \A k \in 1 .. next' - 1 : Cardinality(Of(k)') <= Attempts /\ (faults' < Attempts => Of(k)' # {})
    <3>1. ASSUME NEW k \in 1 .. next' - 1, k # next
          PROVE  Cardinality(Of(k)') <= Attempts /\ (faults' < Attempts => Of(k)' # {})
      <4>1. k \in 1 .. next - 1 /\ Of(k)' = Of(k) /\ (faults' < Attempts => faults < Attempts)
        BY <1>1, <1>2, <2>1, <2>2, <3>1
      <4> QED
        BY <4>1 DEF CountInv
    <3>2. ASSUME NEW k \in 1 .. next' - 1, k = next
          PROVE  Cardinality(Of(k)') <= Attempts /\ (faults' < Attempts => Of(k)' # {})
      <4>1. k \in Nat /\ Cardinality(Of(k)') = o(k) + d /\ (Taken => Of(k)' # {})
        BY <1>1, <1>2, <3>2
      <4>2. o(k) <= Attempts - tries /\ o(k) \in Nat
        BY <1>4, <1>5, <3>2
      <4>3. faults' < Attempts => Of(k)' # {}
        BY <1>1, <1>3, <2>2, <2>3, <4>1
      <4> HIDE DEF o, d
      <4> QED
        BY <1>1, <1>3, <4>1, <4>2, <4>3
    <3> QED
      BY <3>1, <3>2
  <2>8. Cardinality({}) = 0
    BY FS_EmptySet
  <2>9. \A i \in Used' : name'[i] <= next'
    <3>1. \A i \in Used' : name'[i] \in 1 .. Stream
      BY SubmitStep
    <3> QED
      BY <1>1, <1>2, <2>1, <3>1
  <2>10. next' \in 1 .. Stream + 1 /\ tries' \in 1 .. Attempts /\ faults' \in Nat
    BY <1>1, <2>1, <2>2
  <2> HIDE DEF c, d, o, m
  <2>11. /\ Cardinality(Used') <= next' - 1 + faults'
         /\ Cardinality(Used') <= (next' - 1) * Attempts + (Attempts - tries')
    BY <1>2, <2>5
  <2>12. Cardinality(Of(next)') <= Attempts - tries' /\ faults' >= Attempts - tries'
    BY <1>1, <2>1, <2>6, <2>8, <2>10
  <2> QED
    BY <2>6, <2>7, <2>9, <2>10, <2>11, <2>12 DEF CountInv
<1> QED
  BY <1>6, <1>7 DEF Submit, SubmitOk, SubmitFails

LEMMA CountStep == Types /\ ChoiceInv /\ CountInv /\ [Next]_vars => CountInv'
<1> SUFFICES ASSUME Types, ChoiceInv, CountInv, [Next]_vars PROVE CountInv'
  OBVIOUS
<1>1. faults \in Nat
  BY DEF CountInv
<1>2. CASE Slurm
  BY <1>1, <1>2, SlurmStep, NothingSubmitted DEF Slurm, harness
<1>3. CASE Submit
  BY <1>3, SubmitKeepsCount
<1>4. CASE Poll \/ GiveUp
  <2>1. UNCHANGED <<st, name, next, tries, faults>> /\ bench = "drain" /\ bench' # "submit"
    BY <1>4 DEF Poll, GiveUp, slurm, budget
  <2> QED
    BY <1>1, <2>1, NothingSubmitted DEF Used
<1>5. CASE ReadJobs \/ ReadNodes \/ Act \/ Refused \/ Apply
  <2>1. UNCHANGED <<name, harness>> /\ Used' = Used
    BY <1>5, ReadStep, ApplyStep DEF Used
  <2>2. faults' \in {faults, faults + 1}
    BY <1>5 DEF ReadJobs, ReadNodes, Act, Refused, Apply, Sound, Fault, budget
  <2> QED
    BY <1>1, <2>1, <2>2, NothingSubmitted DEF harness
<1>6. CASE UNCHANGED vars
  <2>1. UNCHANGED <<st, name, next, tries, faults, bench>>
    BY <1>6 DEF vars, slurm, harness, budget
  <2> QED
    BY <1>1, <2>1, NothingSubmitted DEF Used
<1> QED
  BY <1>2, <1>3, <1>4, <1>5, <1>6 DEF Next, Harness, Controller

LEMMA CountInitially == Init => CountInv
<1> SUFFICES ASSUME Init PROVE CountInv
  OBVIOUS
<1>1. Used = {} /\ Cardinality({}) = 0
  BY FS_EmptySet DEF Init, Used
<1>2. \A k \in Nat : Of(k) = {}
  BY <1>1 DEF Of
<1>3. next = 1 /\ tries = Attempts /\ faults = 0 /\ Attempts \in Nat \ {0} /\ Stream \in Nat \ {0}
  BY HeldAssumption DEF Init
<1>4. (next - 1) * Attempts = 0 /\ 1 .. next - 1 = {}
  BY <1>3
<1> QED
  BY <1>1, <1>2, <1>3, <1>4 DEF CountInv

\* A lost reply makes submit_stream submit a job twice, but never leaves one out: unless
\* every attempt for a job failed, each job that the harness is done with is in Slurm, and
\* what Slurm holds too much is at most what failed.
THEOREM StreamReachesSlurm == Spec => []StreamIsSubmitted
<1>1. CountInv => StreamIsSubmitted
  <2> SUFFICES ASSUME CountInv PROVE StreamIsSubmitted
    OBVIOUS
  <2>1. \A k \in 1 .. next - 1 : Of(k) = { i \in Used : name[i] = k }
    BY DEF Of
  <2> QED
    BY <2>1 DEF CountInv, StreamIsSubmitted
<1>2. Types /\ ChoiceInv /\ CountInv /\ [Next]_vars => CountInv'
  BY CountStep
<1> QED
  BY <1>1, <1>2, CountInitially, Invariants, PTL DEF Spec
=============================================================================
