---------------------------- MODULE LearningProofs ----------------------------
(***************************************************************************)
(* For every number of environments, capacity of the replay buffer, length *)
(* of the returns, and number of jobs and nodes:                           *)
(*   - AsyncVectorSchedEnv implements SyncVectorSchedEnv: between two      *)
(*     calls every pipe is empty and every worker is where the caller      *)
(*     thinks it is, and during a call each worker has its command or its  *)
(*     reply waiting;                                                      *)
(*   - the rows of the daemon's log tell what happened;                    *)
(*   - whatever is drawn from the sum tree is a stored transition of       *)
(*     positive priority;                                                  *)
(*   - the replay memory holds whole experience.                           *)
(* The prover's library states induction for operators, which no prover    *)
(* here can take. The lemmas LeastNumber and UpTo state it for sets of     *)
(* numbers, and what the model defines by recursion (Above, SetLeaf,       *)
(* Descend, Fed, Filled) is shown to exist, and to be what its definition  *)
(* says, by UpTo.                                                          *)
(***************************************************************************)
EXTENDS Learning, FiniteSetTheorems, SequenceTheorems, NaturalsInduction, WellFoundedInduction, TLAPS

-----------------------------------------------------------------------------
(* Induction, with a set of numbers for the property, and the functions that *)
(* the model defines by recursion                                            *)

LEMMA LeastNumber ==
  ASSUME NEW T \in SUBSET Nat, T # {}
  PROVE  \E l \in T : \A t \in T : l <= t
<1> DEFINE R == OpToRel(<, Nat)
<1>1. IsWellFoundedOn(R, Nat)
  BY NatLessThanWellFounded
<1>2. \E l \in T : \A t \in T : ~ (<<t, l>> \in R)
  <2> HIDE DEF R
  <2> QED
    BY <1>1, WFMin, Zenon
<1>3. PICK l \in T : \A t \in T : ~ (<<t, l>> \in R)
  BY <1>2
<1>4. \A t \in T : <<t, l>> \in Nat \X Nat
  OBVIOUS
<1>5. \A t \in T : ~ (t < l)
  BY <1>3, <1>4 DEF OpToRel
<1> QED
  BY <1>5

LEMMA UpTo ==
  ASSUME NEW n \in Nat, NEW T \in SUBSET Nat, 0 \in T, \A k \in 0 .. n - 1 : k \in T => k + 1 \in T
  PROVE  0 .. n \subseteq T
<1> SUFFICES ASSUME ~ (0 .. n \subseteq T) PROVE FALSE
  OBVIOUS
<1> DEFINE U == (0 .. n) \ T
<1>1. U \in SUBSET Nat /\ U # {}
  OBVIOUS
<1> HIDE DEF U
<1>2. PICK l \in U : \A u \in U : l <= u
  BY <1>1, LeastNumber
<1>3. l \in 1 .. n
  BY <1>2 DEF U
<1>4. l - 1 \in 0 .. n - 1 /\ l - 1 \notin U
  BY <1>2, <1>3
<1>5. l - 1 \in T
  BY <1>4 DEF U
<1>6. (l - 1) + 1 \in T
  BY <1>4, <1>5
<1> QED
  BY <1>2, <1>3, <1>6 DEF U

\* The way from a node of the tree to the root.
Climb(f, n) == IF n = 1 THEN {} ELSE {n \div 2} \cup f[n \div 2]

LEMMA Halves ==
  ASSUME NEW n \in Nat \ {0}
  PROVE  /\ (2 * n) \div 2 = n /\ (2 * n + 1) \div 2 = n
         /\ n > 1 => n \div 2 \in Nat \ {0} /\ n \div 2 < n
OBVIOUS

LEMMA ClimbExists ==
  \E f : f = [n \in TreeNodes |-> Climb(f, n)]
<1> DEFINE N == 2 * Capacity - 1
           Good(f, k) == f = [n \in TreeNodes |-> f[n]] /\ \A n \in 1 .. k : f[n] = Climb(f, n)
           T == {k \in Nat : \E f : Good(f, k)}
<1>0. N \in Nat /\ N >= 1 /\ TreeNodes = 1 .. N
  BY ReplayAssumption DEF TreeNodes
<1> HIDE DEF N
<1>1. 0 \in T
  <2>1. Good([n \in TreeNodes |-> {}], 0)
    OBVIOUS
  <2> QED
    BY <2>1
<1>2. ASSUME NEW k \in 0 .. N - 1, k \in T
      PROVE  k + 1 \in T
  <2>1. PICK f : Good(f, k)
    BY <1>2
  <2> DEFINE g == [n \in TreeNodes |-> IF n = k + 1 THEN Climb(f, n) ELSE f[n]]
  <2>2. k + 1 \in TreeNodes /\ \A n \in 1 .. k : n \in TreeNodes
    BY <1>0
  <2>3. ASSUME NEW n \in 1 .. k + 1
        PROVE  g[n] = Climb(g, n) /\ n \in TreeNodes
    <3>1. n \in TreeNodes
      BY <2>2
    <3>2. n > 1 => g[n \div 2] = f[n \div 2]
      <4> SUFFICES ASSUME n > 1 PROVE g[n \div 2] = f[n \div 2]
        OBVIOUS
      <4>1. n \in Nat \ {0} /\ k \in Nat /\ n <= k + 1
        BY <1>0
      <4>2. n \div 2 \in Nat \ {0} /\ n \div 2 < n
        BY <4>1, Halves
      <4>3. n \div 2 \in 1 .. k
        BY <4>1, <4>2
      <4>4. \A h \in 1 .. k : g[h] = f[h]
        BY <2>2, <4>1
      <4> HIDE DEF g
      <4> QED
        BY <4>3, <4>4
    <3>3. Climb(g, n) = Climb(f, n)
      <4>1. n = 1 \/ n > 1
        BY <1>0
      <4> HIDE DEF g
      <4> QED
        BY <3>2, <4>1 DEF Climb
    <3>4. CASE n = k + 1
      BY <3>1, <3>3, <3>4
    <3>5. CASE n # k + 1
      <4>1. n \in 1 .. k
        BY <3>5
      <4> QED
        BY <2>1, <3>1, <3>3, <3>5, <4>1
    <3> QED
      BY <3>1, <3>4, <3>5
  <2>4. g = [n \in TreeNodes |-> g[n]]
    OBVIOUS
  <2> HIDE DEF g
  <2>5. Good(g, k + 1)
    BY <2>3, <2>4
  <2> QED
    BY <2>5
<1>3. T \in SUBSET Nat
  OBVIOUS
<1>4. N \in T
  <2> HIDE DEF T
  <2>1. \A k \in 0 .. N - 1 : k \in T => k + 1 \in T
    BY <1>2
  <2>2. 0 .. N \subseteq T
    BY <1>0, <1>1, <1>3, <2>1, UpTo
  <2> QED
    BY <1>0, <2>2
<1>5. PICK f : Good(f, N)
  BY <1>4
<1> QED
  BY <1>0, <1>5

LEMMA AboveIs == \A n \in TreeNodes : Above[n] = Climb(Above, n)
<1>1. Above = CHOOSE f : f = [n \in TreeNodes |-> Climb(f, n)]
  BY DEF Above, Climb
<1> QED
  BY <1>1, ClimbExists

-----------------------------------------------------------------------------
(* The workers and their pipes: the inductive invariant *)

Quiet(e)    == commands[e] = <<>> /\ replies[e] = <<>> /\ worker[e] = held[e]
Asked(e)    == commands[e] = <<call.cmd>> /\ replies[e] = <<>> /\ worker[e] = held[e]
Answered(e) == commands[e] = <<>> /\ replies[e] = <<worker[e]>> /\ worker[e] \in Outcomes(held[e], call.cmd)
Received(e) == commands[e] = <<>> /\ replies[e] = <<>> /\ worker[e] \in Outcomes(held[e], call.cmd)

Shape ==
  /\ call = [cmd |-> call.cmd, stage |-> call.stage]
  /\ call.cmd \in Calls /\ call.stage \in {"none", "sending", "receiving", "closed"}
  /\ place \in Envs
  /\ commands = [e \in Envs |-> commands[e]] /\ replies = [e \in Envs |-> replies[e]]
  /\ worker = [e \in Envs |-> worker[e]] /\ held = [e \in Envs |-> held[e]]

Between == call.stage = "none" => place = 1 /\ results = <<>> /\ \A e \in Envs : Quiet(e)

WhileSending ==
  call.stage = "sending" /\ call.cmd # "close" =>
    results = <<>> /\ \A e \in Envs : IF e < place THEN Asked(e) \/ Answered(e) ELSE Quiet(e)

WhileReceiving ==
  call.stage = "receiving" =>
    /\ call.cmd # "close" /\ results = [k \in 1 .. place - 1 |-> worker[k]]
    /\ \A e \in Envs : IF e < place THEN Received(e) ELSE Asked(e) \/ Answered(e)

VectorInv == Shape /\ Between /\ WhileSending /\ WhileReceiving

-----------------------------------------------------------------------------
(* Sequences of at most one element *)

LEMMA OneElement ==
  ASSUME NEW x
  PROVE  /\ Append(<<>>, x) = <<x>> /\ Head(<<x>>) = x /\ Tail(<<x>>) = <<>> /\ <<x>> # <<>>
<1>1. Append(<<>>, x) = <<x>>
  OBVIOUS
<1>2. Head(<<x>>) = x /\ <<x>> # <<>>
  OBVIOUS
<1>3. Tail(<<x>>) = <<>>
  OBVIOUS
<1> QED
  BY <1>1, <1>2, <1>3

LEMMA OneMore ==
  ASSUME NEW n \in Nat, NEW f, NEW x
  PROVE  Append([k \in 1 .. n |-> f[k]], x) = [k \in 1 .. n + 1 |-> IF k <= n THEN f[k] ELSE x]
<1> DEFINE S == {f[k] : k \in 1 .. n} \cup {x}
           s == [k \in 1 .. n |-> f[k]]
<1>1. s \in Seq(S) /\ Len(s) = n /\ x \in S
  OBVIOUS
<1>2. /\ Append(s, x) \in Seq(S) /\ Len(Append(s, x)) = n + 1
      /\ \A k \in 1 .. n + 1 : Append(s, x)[k] = IF k <= n THEN s[k] ELSE x
  BY <1>1, AppendProperties
<1>3. Append(s, x) = [k \in 1 .. n + 1 |-> Append(s, x)[k]]
  BY <1>2
<1> QED
  BY <1>2, <1>3

\* The environments are numbered from 1.
LEMMA Numbered == LastEnv \in Nat \ {0} /\ Envs = 1 .. LastEnv
BY EpisodesAssumption, FS_CardinalityType, FS_EmptySet DEF LastEnv

-----------------------------------------------------------------------------
(* One lemma per action of the workers and their caller *)

LEMMA InitInv == VectorInit => VectorInv
<1> SUFFICES ASSUME VectorInit PROVE VectorInv
  OBVIOUS
<1>1. Shape
  BY Numbered DEF VectorInit, Shape, NoCall, Calls
<1>2. Between
  BY DEF VectorInit, Between, Quiet
<1> QED
  BY <1>1, <1>2 DEF VectorInit, VectorInv, WhileSending, WhileReceiving, NoCall

LEMMA BeginInv ==
  ASSUME VectorInv, NEW cmd \in Calls, Begin(cmd)
  PROVE  VectorInv'
<1>1. /\ call.stage = "none" /\ call' = [cmd |-> cmd, stage |-> "sending"] /\ place' = 1
      /\ UNCHANGED <<held, results, commands, replies, worker>>
  BY DEF Begin
<1>2. Shape'
  BY <1>1, Numbered DEF VectorInv, Shape
<1>3. \A e \in Envs : Quiet(e)' /\ ~(e < 1)
  BY <1>1, Numbered DEF VectorInv, Between, Quiet
<1>4. WhileSending'
  BY <1>1, <1>3 DEF VectorInv, Between, WhileSending
<1> QED
  BY <1>1, <1>2, <1>4 DEF VectorInv, Between, WhileReceiving

LEMMA SendInv ==
  ASSUME VectorInv, Send
  PROVE  VectorInv'
<1>1. /\ call.stage = "sending" /\ commands' = [commands EXCEPT ![place] = Append(@, call.cmd)]
      /\ UNCHANGED <<held, results, replies, worker>>
  BY DEF Send
<1>2. CASE place < LastEnv
  <2>1. place' = place + 1 /\ call' = call
    BY <1>2 DEF Send
  <2>2. place' \in Envs /\ place \in Nat
    BY <1>2, <2>1, Numbered DEF VectorInv, Shape
  <2>3. Shape'
    BY <1>1, <2>1, <2>2 DEF VectorInv, Shape
  <2>4. ASSUME call.cmd # "close"
        PROVE  results' = <<>> /\ \A e \in Envs : IF e < place' THEN (Asked(e) \/ Answered(e))' ELSE Quiet(e)'
    <3>1. results = <<>> /\ \A e \in Envs : IF e < place THEN Asked(e) \/ Answered(e) ELSE Quiet(e)
      BY <1>1, <2>4 DEF VectorInv, WhileSending
    <3>2. ASSUME NEW e \in Envs, e = place PROVE Asked(e)'
      <4>1. Quiet(e)
        BY <3>1, <3>2, Numbered
      <4>2. commands'[e] = Append(<<>>, call.cmd)
        BY <1>1, <3>2, <4>1 DEF Quiet, VectorInv, Shape
      <4>3. commands'[e] = <<call.cmd>> /\ call'.cmd = call.cmd
        BY <2>1, <4>2, OneElement
      <4> QED
        BY <1>1, <4>1, <4>3 DEF Quiet, Asked
    <3>3. ASSUME NEW e \in Envs, e # place
          PROVE  /\ (Asked(e) \/ Answered(e) => (Asked(e) \/ Answered(e))') /\ (Quiet(e) => Quiet(e)')
                 /\ (e < place' <=> e < place)
      <4>1. commands'[e] = commands[e]
        BY <1>1, <3>3 DEF VectorInv, Shape
      <4>2. e < place' <=> e < place
        BY <2>1, <2>2, <3>3, Numbered
      <4> QED
        BY <1>1, <2>1, <4>1, <4>2 DEF Asked, Answered, Quiet
    <3>4. \A e \in Envs : e = place => e < place'
      BY <2>1, <2>2
    <3> QED
      BY <1>1, <3>1, <3>2, <3>3, <3>4
  <2> QED
    BY <1>1, <2>1, <2>3, <2>4 DEF VectorInv, Between, WhileSending, WhileReceiving
<1>3. CASE ~(place < LastEnv)
  <2>1. place' = 1 /\ call' = [call EXCEPT !.stage = IF call.cmd = "close" THEN "closed" ELSE "receiving"]
    BY <1>3 DEF Send
  <2>2. place = LastEnv /\ 1 \in Envs
    BY <1>3, Numbered DEF VectorInv, Shape
  <2>3. call' = [cmd |-> call.cmd, stage |-> IF call.cmd = "close" THEN "closed" ELSE "receiving"]
    BY <2>1 DEF VectorInv, Shape
  <2>4. Shape'
    BY <1>1, <2>1, <2>2, <2>3 DEF VectorInv, Shape
  <2>5. ASSUME call.cmd # "close"
        PROVE  results' = [k \in 1 .. place' - 1 |-> worker'[k]] /\ \A e \in Envs : (Asked(e) \/ Answered(e))'
    <3>1. results = <<>> /\ \A e \in Envs : IF e < place THEN Asked(e) \/ Answered(e) ELSE Quiet(e)
      BY <1>1, <2>5 DEF VectorInv, WhileSending
    <3>2. ASSUME NEW e \in Envs, e = place PROVE Asked(e)'
      <4>1. Quiet(e)
        BY <3>1, <3>2, Numbered
      <4>2. commands'[e] = Append(<<>>, call.cmd)
        BY <1>1, <3>2, <4>1 DEF Quiet, VectorInv, Shape
      <4>3. commands'[e] = <<call.cmd>> /\ call'.cmd = call.cmd
        BY <2>3, <4>2, OneElement
      <4> QED
        BY <1>1, <4>1, <4>3 DEF Quiet, Asked
    <3>3. ASSUME NEW e \in Envs, e # place
          PROVE  (Asked(e) \/ Answered(e))'
      <4>1. commands'[e] = commands[e] /\ e < place
        BY <1>1, <2>2, <3>3, Numbered DEF VectorInv, Shape
      <4> QED
        BY <1>1, <2>3, <3>1, <4>1 DEF Asked, Answered
    <3>4. results' = [k \in 1 .. place' - 1 |-> worker'[k]]
      BY <1>1, <2>1, <3>1
    <3> QED
      BY <3>2, <3>3, <3>4
  <2>6. \A e \in Envs : ~(e < place')
    BY <2>1, Numbered
  <2>7. WhileReceiving'
    BY <2>3, <2>5, <2>6 DEF WhileReceiving
  <2> QED
    BY <2>3, <2>4, <2>7 DEF VectorInv, Between, WhileSending
<1> QED
  BY <1>2, <1>3
\* A receive takes the reply of the environment that is next and leaves its pipe empty.
LEMMA ReceiveStep ==
  ASSUME VectorInv, Receive
  PROVE  /\ call.stage = "receiving" /\ UNCHANGED <<commands, worker>>
         /\ replies' = [replies EXCEPT ![place] = <<>>]
         /\ commands[place] = <<>> /\ worker[place] \in Outcomes(held[place], call.cmd)
         /\ IF place < LastEnv
            THEN /\ place' = place + 1 /\ results' = [k \in 1 .. place |-> worker[k]]
                 /\ UNCHANGED <<held, call>>
            ELSE /\ place' = 1 /\ results' = <<>> /\ call' = NoCall
                 /\ held' = IF call.cmd = "score_action" THEN held ELSE [k \in 1 .. place |-> worker[k]]
<1>1. PICK e \in From(place) :
        /\ replies' = [replies EXCEPT ![e] = Tail(@)]
        /\ IF place < LastEnv
           THEN place' = place + 1 /\ results' = Append(results, Head(replies[e])) /\ UNCHANGED <<held, call>>
           ELSE /\ place' = 1 /\ results' = <<>> /\ call' = NoCall
                /\ held' = IF call.cmd = "score_action" THEN held ELSE Append(results, Head(replies[e]))
  BY DEF Receive
<1>2. e = place /\ place \in Envs /\ replies[place] # <<>> /\ ~(place < place)
  BY <1>1, Numbered DEF From, VectorInv, Shape
<1>3. call.stage = "receiving" /\ UNCHANGED <<commands, worker>>
  BY DEF Receive
<1>4. Answered(place)
  BY <1>2, <1>3 DEF VectorInv, WhileReceiving, Asked
<1>5. Head(replies[e]) = worker[place] /\ Tail(replies[e]) = <<>>
  BY <1>2, <1>4, OneElement DEF Answered
<1>6. replies' = [replies EXCEPT ![place] = <<>>]
  BY <1>1, <1>2, <1>5
<1>7. Append(results, Head(replies[e])) = [k \in 1 .. place |-> worker[k]]
  <2>1. place - 1 \in Nat /\ place \in Nat
    BY <1>2, Numbered
  <2>2. results = [k \in 1 .. place - 1 |-> worker[k]]
    BY <1>3 DEF VectorInv, WhileReceiving
  <2>3. Append(results, worker[place]) = [k \in 1 .. (place - 1) + 1 |-> IF k <= place - 1 THEN worker[k] ELSE worker[place]]
    BY <2>1, <2>2, OneMore
  <2>4. (place - 1) + 1 = place /\ \A k \in 1 .. place : ~(k <= place - 1) => k = place
    BY <2>1
  <2>5. [k \in 1 .. place |-> IF k <= place - 1 THEN worker[k] ELSE worker[place]] = [k \in 1 .. place |-> worker[k]]
    BY <2>4
  <2> QED
    BY <1>5, <2>3, <2>4, <2>5
<1> QED
  BY <1>1, <1>3, <1>4, <1>6, <1>7 DEF Answered

\* When the last reply is in, the caller holds what its workers hold.
LEMMA LastReply ==
  ASSUME VectorInv, Receive, ~(place < LastEnv)
  PROVE  /\ held' = [e \in Envs |-> IF call.cmd = "score_action" THEN held[e] ELSE worker[e]]
         /\ \A e \in Envs : worker[e] \in Outcomes(held[e], call.cmd)
         /\ \A e \in Envs : commands[e] = <<>> /\ replies'[e] = <<>>
<1>1. place = LastEnv /\ place \in Envs /\ call.stage = "receiving"
  BY Numbered, ReceiveStep DEF VectorInv, Shape
<1>2. held' = IF call.cmd = "score_action" THEN held ELSE [k \in 1 .. place |-> worker[k]]
  BY ReceiveStep
<1>3. held' = [e \in Envs |-> IF call.cmd = "score_action" THEN held[e] ELSE worker[e]]
  BY <1>1, <1>2, Numbered DEF VectorInv, Shape
<1>4. \A e \in Envs : e # place => Received(e)
  BY <1>1, Numbered DEF VectorInv, WhileReceiving
<1>5. \A e \in Envs : worker[e] \in Outcomes(held[e], call.cmd) /\ commands[e] = <<>>
  BY <1>4, ReceiveStep DEF Received
<1>6. \A e \in Envs : replies'[e] = <<>>
  BY <1>4, ReceiveStep DEF Received, VectorInv, Shape
<1> QED
  BY <1>3, <1>5, <1>6

LEMMA ReceiveInv ==
  ASSUME VectorInv, Receive
  PROVE  VectorInv'
<1>1. CASE place < LastEnv
  <2>0. /\ place' = place + 1 /\ place \in Nat /\ UNCHANGED <<held, call, commands, worker>>
        /\ results' = [k \in 1 .. place |-> worker[k]] /\ call.stage = "receiving" /\ call.cmd # "close"
    <3>1. place' = place + 1 /\ results' = [k \in 1 .. place |-> worker[k]] /\ UNCHANGED <<held, call>>
      BY <1>1, ReceiveStep
    <3>2. call.stage = "receiving" /\ UNCHANGED <<commands, worker>>
      BY ReceiveStep
    <3>3. place \in Nat /\ call.cmd # "close"
      BY <3>2, Numbered DEF VectorInv, Shape, WhileReceiving
    <3> QED
      BY <3>1, <3>2, <3>3
  <2>1. /\ place' = place + 1 /\ place' \in Envs /\ place \in Nat /\ UNCHANGED <<held, call, commands, worker>>
        /\ results' = [k \in 1 .. place' - 1 |-> worker'[k]] /\ call.stage = "receiving" /\ call.cmd # "close"
    <3>1. place' - 1 = place /\ place' \in Envs
      BY <1>1, <2>0, Numbered DEF VectorInv, Shape
    <3> QED
      BY <2>0, <3>1
  <2>2. Shape'
    BY <2>1, ReceiveStep DEF VectorInv, Shape
  <2>3. ASSUME NEW e \in Envs
        PROVE  IF e < place' THEN Received(e)' ELSE (Asked(e) \/ Answered(e))'
    <3>1. CASE e = place
      <4>1. replies'[e] = <<>> /\ e < place'
        BY <2>1, <3>1, ReceiveStep DEF VectorInv, Shape
      <4> QED
        BY <2>1, <3>1, <4>1, ReceiveStep DEF Received
    <3>2. CASE e # place
      <4>1. replies'[e] = replies[e] /\ (e < place' <=> e < place)
        BY <2>1, <3>2, ReceiveStep, Numbered DEF VectorInv, Shape
      <4>2. IF e < place THEN Received(e) ELSE Asked(e) \/ Answered(e)
        BY <2>1 DEF VectorInv, WhileReceiving
      <4> QED
        BY <2>1, <4>1, <4>2 DEF Received, Asked, Answered
    <3> QED
      BY <3>1, <3>2
  <2> QED
    BY <2>1, <2>2, <2>3 DEF VectorInv, Between, WhileSending, WhileReceiving
<1>2. CASE ~(place < LastEnv)
  <2>1. /\ place' = 1 /\ 1 \in Envs /\ results' = <<>> /\ call' = NoCall /\ UNCHANGED <<commands, worker>>
        /\ call.cmd # "close"
    BY <1>2, ReceiveStep, Numbered DEF VectorInv, WhileReceiving
  <2>2. held' = [e \in Envs |-> IF call.cmd = "score_action" THEN held[e] ELSE worker[e]]
    BY <1>2, LastReply
  <2>3. held' = [e \in Envs |-> held'[e]]
    BY <2>2
  <2>4. Shape'
    BY <2>1, <2>3, ReceiveStep DEF VectorInv, Shape, NoCall, Calls
  <2>5. ASSUME NEW e \in Envs
        PROVE  Quiet(e)'
    <3>1. held'[e] = worker[e]
      BY <1>2, <2>2, LastReply DEF Outcomes
    <3> QED
      BY <1>2, <2>1, <3>1, LastReply DEF Quiet
  <2> QED
    BY <2>1, <2>4, <2>5 DEF VectorInv, Between, WhileSending, WhileReceiving, NoCall
<1> QED
  BY <1>1, <1>2

\* A worker only moves on its own command.
LEMMA WorkInv ==
  ASSUME VectorInv, NEW e \in Envs, Work(e)
  PROVE  VectorInv'
<1>1. commands[e] # <<>> /\ UNCHANGED <<held, call, place, results>> /\ commands' = [commands EXCEPT ![e] = Tail(@)]
  BY DEF Work
<1>2. Shape'
  <2>1. CASE worker' = [worker EXCEPT ![e] = <<>>] /\ UNCHANGED replies
    BY <1>1, <2>1 DEF VectorInv, Shape
  <2>2. CASE \E o \in Outcomes(worker[e], Head(commands[e])) :
               worker' = [worker EXCEPT ![e] = o] /\ replies' = [replies EXCEPT ![e] = Append(@, o)]
    BY <1>1, <2>2 DEF VectorInv, Shape
  <2> QED
    BY <2>1, <2>2 DEF Work
<1>3. \A f \in Envs : f # e => commands'[f] = commands[f] /\ worker'[f] = worker[f] /\ replies'[f] = replies[f]
  BY DEF Work, VectorInv, Shape
<1>4. ASSUME call.cmd # "close", Asked(e)
      PROVE  Answered(e)'
  <2>1. Head(commands[e]) = call.cmd /\ Tail(commands[e]) = <<>>
    BY <1>4, OneElement DEF Asked
  <2>2. PICK o \in Outcomes(worker[e], call.cmd) :
          worker' = [worker EXCEPT ![e] = o] /\ replies' = [replies EXCEPT ![e] = Append(@, o)]
    BY <1>4, <2>1 DEF Work
  <2>3. worker'[e] = o /\ replies'[e] = Append(<<>>, o)
    BY <1>4, <2>2 DEF VectorInv, Shape, Asked
  <2>4. commands'[e] = <<>>
    BY <1>1, <2>1 DEF VectorInv, Shape
  <2> QED
    BY <1>1, <1>4, <2>2, <2>3, <2>4, OneElement DEF Asked, Answered
<1>5. Between'
  BY <1>1 DEF VectorInv, Between, Quiet
<1>6. ASSUME call.stage = "sending", call.cmd # "close"
      PROVE  WhileSending'
  <2>1. results = <<>> /\ \A f \in Envs : IF f < place THEN Asked(f) \/ Answered(f) ELSE Quiet(f)
    BY <1>6 DEF VectorInv, WhileSending
  <2>2. e < place /\ Answered(e)'
    BY <1>1, <1>4, <1>6, <2>1 DEF Quiet, Answered
  <2>3. \A f \in Envs : f # e => IF f < place THEN (Asked(f) \/ Answered(f))' ELSE Quiet(f)'
    BY <1>1, <1>3, <2>1 DEF Quiet, Asked, Answered
  <2> QED
    BY <1>1, <2>1, <2>2, <2>3 DEF WhileSending
<1>7. ASSUME call.stage = "receiving"
      PROVE  WhileReceiving'
  <2>1. /\ call.cmd # "close" /\ results = [k \in 1 .. place - 1 |-> worker[k]]
        /\ \A f \in Envs : IF f < place THEN Received(f) ELSE Asked(f) \/ Answered(f)
    BY <1>7 DEF VectorInv, WhileReceiving
  <2>2. ~(e < place) /\ Answered(e)'
    BY <1>1, <1>4, <2>1 DEF Received, Answered
  <2>3. \A f \in Envs : f # e => IF f < place THEN Received(f)' ELSE (Asked(f) \/ Answered(f))'
    BY <1>1, <1>3, <2>1 DEF Received, Asked, Answered
  <2>4. place \in Envs
    BY DEF VectorInv, Shape
  <2>5. \A k \in 1 .. place - 1 : k \in Envs /\ k # e
    BY <2>2, <2>4, Numbered
  <2>6. [k \in 1 .. place - 1 |-> worker'[k]] = [k \in 1 .. place - 1 |-> worker[k]]
    BY <1>3, <2>5
  <2> QED
    BY <1>1, <2>1, <2>2, <2>3, <2>6 DEF WhileReceiving
<1> QED
  BY <1>1, <1>2, <1>5, <1>6, <1>7 DEF VectorInv, WhileSending, WhileReceiving

LEMMA TerminateInv ==
  ASSUME VectorInv, NEW e \in Envs, Terminate(e)
  PROVE  VectorInv'
<1>1. /\ call.stage = "closed" /\ worker' = [worker EXCEPT ![e] = <<>>]
      /\ UNCHANGED <<held, call, place, results, commands, replies>>
  BY DEF Terminate
<1>2. Shape'
  BY <1>1 DEF VectorInv, Shape
<1> QED
  BY <1>1, <1>2 DEF VectorInv, Between, WhileSending, WhileReceiving

LEMMA StutterInv ==
  ASSUME VectorInv, UNCHANGED vector
  PROVE  VectorInv'
<1>1. UNCHANGED <<held, call, place, results, commands, replies, worker>>
  BY DEF vector
<1> QED
  BY <1>1 DEF VectorInv, Shape, Between, WhileSending, WhileReceiving, Quiet, Asked, Answered, Received

-----------------------------------------------------------------------------
(* The workers implement the environments of one process *)

\* Whatever the order in which workers and caller run, no reply is left over for a
\* later call, and none is missing.
THEOREM PipesStayInStep == VectorSpec => []VectorInv
<1>1. VectorInv /\ [VectorNext]_vector => VectorInv'
  BY BeginInv, SendInv, ReceiveInv, WorkInv, TerminateInv, StutterInv DEF VectorNext
<1> QED
  BY <1>1, InitInv, PTL DEF VectorSpec

\* A call that returns is one step of the environments of one process.
LEMMA StepRefines == VectorInv /\ [VectorNext]_vector => [Sync!Step \/ Sync!Reset]_held
<1> SUFFICES ASSUME VectorInv, [VectorNext]_vector, held' # held PROVE Sync!Step \/ Sync!Reset
  OBVIOUS
<1>1. Receive
  BY DEF VectorNext, vector, Begin, Send, Work, Terminate
<1>2. ~(place < LastEnv)
  BY <1>1, ReceiveStep
<1>3. /\ held' = [e \in Envs |-> IF call.cmd = "score_action" THEN held[e] ELSE worker[e]]
      /\ \A e \in Envs : worker[e] \in Outcomes(held[e], call.cmd)
  BY <1>1, <1>2, LastReply
<1>4. call.cmd \in {"reset", "step"}
  <2>1. call.cmd \in Calls \ {"close"}
    BY <1>1, ReceiveStep DEF VectorInv, Shape, WhileReceiving
  <2>2. call.cmd = "score_action" => held' = held
    BY <1>3 DEF VectorInv, Shape
  <2> QED
    BY <2>1, <2>2 DEF Calls
<1>5. CASE call.cmd = "reset"
  <2>1. \A e \in Envs : worker[e] = NextEpisode(held[e])
    BY <1>3, <1>5 DEF Outcomes
  <2> QED
    BY <1>3, <1>5, <2>1 DEF Sync!Reset, NextEpisode, Sync!NextEpisode, Obs, Sync!Obs
<1>6. CASE call.cmd = "step"
  <2> DEFINE over == {e \in Envs : worker[e] = Returned(held[e], TRUE)}
  <2>1. ASSUME NEW e \in Envs
        PROVE  worker[e] = Returned(held[e], e \in over)
    <3>1. PICK done \in BOOLEAN : worker[e] = Returned(held[e], done)
      BY <1>3, <1>6 DEF Outcomes, MayEnd
    <3>2. worker[e] = NextEpisode(held[e]) \/ worker[e] = Later(held[e])
      BY <3>1 DEF Returned
    <3> QED
      BY <3>2 DEF Returned
  <2>2. held' = [e \in Envs |-> Returned(held[e], e \in over)]
    BY <1>3, <1>6, <2>1
  <2> QED
    BY <2>2 DEF Sync!Step, Returned, Sync!Returned, NextEpisode, Sync!NextEpisode, Later, Sync!Later, Obs, Sync!Obs
<1> QED
  BY <1>4, <1>5, <1>6

\* The environments in worker processes implement the environments of one process: to
\* the caller every call takes all of them one step further, and gives it each one's
\* own result (vec_env.py: "Same interface as the sync version").
THEOREM WorkersImplementSync == Spec => ImplementsSync
<1>1. VectorInit => Sync!Init
  BY DEF VectorInit, Sync!Init, Obs, Sync!Obs
<1>2. Init => VectorInit
  BY DEF Init
<1>3. [Next]_vars => [VectorNext]_vector
  BY DEF Next, vars, Load, JoinDemos
<1> QED
  BY <1>1, <1>2, <1>3, PipesStayInStep, StepRefines, PTL DEF Spec, VectorSpec, ImplementsSync, Sync!Spec

-----------------------------------------------------------------------------
(* The sum tree *)

\* Every inner node has two children, further from the root.
LEMMA Children ==
  /\ Capacity \in Nat \ {0} /\ 1 \in TreeNodes /\ TreeNodes \subseteq Nat \ {0}
  /\ \A n \in 1 .. Capacity - 1 : n \in TreeNodes /\ 2 * n \in TreeNodes /\ 2 * n + 1 \in TreeNodes
  /\ \A n \in TreeNodes : n \in 1 .. Capacity - 1 \/ n - Capacity \in Places
  /\ \A i \in Places : Capacity + i \in TreeNodes /\ Capacity + i >= Capacity /\ i \in Nat
BY ReplayAssumption DEF TreeNodes, Places

\* What is above a node is on the way to the root with it.
LEMMA AboveIsClosed ==
  ASSUME NEW leaf \in TreeNodes, NEW n \in 1 .. Capacity - 1,
         NEW m \in {2 * n, 2 * n + 1}, m = leaf \/ m \in Above[leaf]
  PROVE  n \in Above[leaf]
<1> DEFINE Good(l) == \A x \in Nat \ {0, 1} : x = l \/ x \in Above[l] => x \div 2 \in Above[l]
           T == {l \in TreeNodes : ~ Good(l)}
<1>1. T = {}
  <2> SUFFICES ASSUME T # {} PROVE FALSE
    OBVIOUS
  <2>1. T \in SUBSET Nat
    BY Children
  <2> HIDE DEF T
  <2>2. PICK l \in T : \A t \in T : l <= t
    BY <2>1, LeastNumber
  <2> USE DEF T
  <2>3. l \in TreeNodes /\ l \in Nat \ {0} /\ Above[l] = Climb(Above, l)
    BY <2>2, Children, AboveIs
  <2>4. PICK x \in Nat \ {0, 1} : (x = l \/ x \in Above[l]) /\ x \div 2 \notin Above[l]
    BY <2>2
  <2>5. CASE l = 1
    BY <2>3, <2>4, <2>5 DEF Climb
  <2>6. CASE l # 1
    <3>1. Above[l] = {l \div 2} \cup Above[l \div 2]
      BY <2>3, <2>6 DEF Climb
    <3>2. l \div 2 \in Nat \ {0} /\ l \div 2 < l
      BY <2>3, <2>6, Halves
    <3>3. l \div 2 \in TreeNodes
      <4>1. l <= 2 * Capacity - 1 /\ Capacity \in Nat
        BY <2>3, Children DEF TreeNodes
      <4> QED
        BY <2>3, <3>2, <4>1 DEF TreeNodes
    <3>4. Good(l \div 2)
      <4> DEFINE h == l \div 2
      <4>1. h \in TreeNodes /\ h \in Nat /\ h < l
        BY <3>2, <3>3
      <4> HIDE DEF h, Good
      <4>2. h \notin T
        <5> HIDE DEF T
        <5> QED
          BY <2>2, <2>3, <4>1
      <4>3. Good(h)
        BY <4>1, <4>2
      <4> QED
        BY <4>3 DEF h
    <3>5. x = l \/ x = l \div 2 \/ x \in Above[l \div 2]
      BY <2>4, <3>1
    <3>6. x \div 2 \in Above[l]
      BY <2>4, <3>1, <3>4, <3>5
    <3> QED
      BY <2>4, <3>6
  <2> QED
    BY <2>5, <2>6
<1>2. m \in Nat \ {0, 1} /\ m \div 2 = n
  <2>1. n \in Nat \ {0}
    BY Children
  <2> QED
    BY <2>1, Halves
<1>3. Good(leaf)
  BY <1>1
<1> QED
  BY <1>2, <1>3

\* The tree after a change, node by node.
Renewed(f, t, i, p, n) ==
  IF n = Capacity + i THEN p
  ELSE IF n \in Above[Capacity + i] THEN f[2 * n] + f[2 * n + 1] ELSE t[n]

\* Nothing is above itself, or above the root; so what is above has children.
LEMMA AboveIsInner ==
  ASSUME NEW l \in TreeNodes
  PROVE  Above[l] \subseteq 1 .. Capacity - 1
<1> DEFINE T == {k \in TreeNodes : ~ (Above[k] \subseteq 1 .. Capacity - 1)}
<1> SUFFICES ASSUME T # {} PROVE FALSE
  OBVIOUS
<1>1. T \in SUBSET Nat
  BY Children
<1> HIDE DEF T
<1>2. PICK k \in T : \A t \in T : k <= t
  BY <1>1, LeastNumber
<1>3. k \in TreeNodes /\ k \in Nat \ {0} /\ Above[k] = Climb(Above, k) /\ ~ (Above[k] \subseteq 1 .. Capacity - 1)
  BY <1>2, Children, AboveIs DEF T
<1>4. CASE k = 1
  BY <1>3, <1>4 DEF Climb
<1>5. CASE k # 1
  <2>1. Above[k] = {k \div 2} \cup Above[k \div 2]
    BY <1>3, <1>5 DEF Climb
  <2>2. k \div 2 \in Nat \ {0} /\ k \div 2 < k
    BY <1>3, <1>5, Halves
  <2>3. k \div 2 \in 1 .. Capacity - 1 /\ k \div 2 \in TreeNodes
    <3>1. k <= 2 * Capacity - 1
      BY <1>3 DEF TreeNodes
    <3>2. 2 * (k \div 2) <= k
      BY <1>3
    <3>3. Capacity \in Nat
      BY Children
    <3> QED
      BY <1>3, <2>2, <3>1, <3>2, <3>3 DEF TreeNodes
  <2>4. k \div 2 \notin T
    BY <1>2, <1>3, <2>2
  <2> QED
    BY <1>3, <2>1, <2>3, <2>4 DEF T
<1> QED
  BY <1>4, <1>5

LEMMA RenewedExists ==
  ASSUME NEW t, NEW i \in Places, NEW p
  PROVE  \E f : f = [n \in TreeNodes |-> Renewed(f, t, i, p, n)]
<1> DEFINE N == 2 * Capacity - 1
           Good(f, k) == f = [n \in TreeNodes |-> f[n]]
                         /\ \A n \in TreeNodes : n > N - k => f[n] = Renewed(f, t, i, p, n)
           T == {k \in Nat : \E f : Good(f, k)}
<1>0. N \in Nat /\ N >= 1 /\ TreeNodes = 1 .. N
  BY ReplayAssumption DEF TreeNodes
<1> HIDE DEF N
<1>1. 0 \in T
  <2>1. Good([n \in TreeNodes |-> 0], 0)
    BY <1>0
  <2> QED
    BY <2>1
<1>2. ASSUME NEW k \in 0 .. N - 1, k \in T
      PROVE  k + 1 \in T
  <2>1. PICK f : Good(f, k)
    BY <1>2
  <2> DEFINE m == N - k
             g == [n \in TreeNodes |-> IF n = m THEN Renewed(f, t, i, p, n) ELSE f[n]]
  <2>2. m \in TreeNodes /\ m \in Nat \ {0}
    BY <1>0
  <2>3. ASSUME NEW n \in TreeNodes, n > N - (k + 1)
        PROVE  g[n] = Renewed(g, t, i, p, n)
    <3>1. n \in Nat \ {0} /\ n >= m
      BY <1>0, <2>3
    <3>2. n \in Above[Capacity + i] => g[2 * n] = f[2 * n] /\ g[2 * n + 1] = f[2 * n + 1]
      <4> SUFFICES ASSUME n \in Above[Capacity + i]
                   PROVE  g[2 * n] = f[2 * n] /\ g[2 * n + 1] = f[2 * n + 1]
        OBVIOUS
      <4>1. n \in 1 .. Capacity - 1
        BY Children, AboveIsInner
      <4>2. 2 * n \in TreeNodes /\ 2 * n + 1 \in TreeNodes /\ 2 * n # m /\ 2 * n + 1 # m
        BY <2>2, <3>1, <4>1, Children
      <4> HIDE DEF m
      <4> QED
        BY <4>2
    <3>3. Renewed(g, t, i, p, n) = Renewed(f, t, i, p, n)
      <4> HIDE DEF g
      <4> QED
        BY <3>2 DEF Renewed
    <3>4. g[n] = IF n = m THEN Renewed(f, t, i, p, n) ELSE f[n]
      OBVIOUS
    <3>5. n # m => f[n] = Renewed(f, t, i, p, n)
      <4>1. n # m => n > N - k
        BY <2>2, <3>1
      <4> QED
        BY <2>1, <4>1
    <3> HIDE DEF g, m
    <3> QED
      BY <3>3, <3>4, <3>5
  <2>4. g = [n \in TreeNodes |-> g[n]]
    OBVIOUS
  <2> HIDE DEF g
  <2>5. Good(g, k + 1)
    BY <2>3, <2>4
  <2> QED
    BY <2>5
<1>3. T \in SUBSET Nat
  OBVIOUS
<1>4. N \in T
  <2> HIDE DEF T
  <2>1. \A k \in 0 .. N - 1 : k \in T => k + 1 \in T
    BY <1>2
  <2>2. 0 .. N \subseteq T
    BY <1>0, <1>1, <1>3, <2>1, UpTo
  <2> QED
    BY <1>0, <2>2
<1>5. PICK f : Good(f, N)
  BY <1>4
<1>6. \A n \in TreeNodes : f[n] = Renewed(f, t, i, p, n)
  <2>1. \A n \in TreeNodes : n > N - N
    BY <1>0
  <2> QED
    BY <1>5, <2>1
<1> QED
  BY <1>5, <1>6

LEMMA SetLeafIs ==
  ASSUME NEW t, NEW i \in Places, NEW p
  PROVE  /\ SetLeaf(t, i, p) = [n \in TreeNodes |-> SetLeaf(t, i, p)[n]]
         /\ \A n \in TreeNodes : SetLeaf(t, i, p)[n] = Renewed(SetLeaf(t, i, p), t, i, p, n)
<1>1. SetLeaf(t, i, p) = CHOOSE f : f = [n \in TreeNodes |-> Renewed(f, t, i, p, n)]
  BY DEF SetLeaf, Renewed
<1> DEFINE s == SetLeaf(t, i, p)
<1>2. s = [n \in TreeNodes |-> Renewed(s, t, i, p, n)]
  BY <1>1, RenewedExists
<1> HIDE DEF s
<1>3. s = [n \in TreeNodes |-> s[n]] /\ \A n \in TreeNodes : s[n] = Renewed(s, t, i, p, n)
  BY <1>2
<1> QED
  BY <1>3 DEF s

\* A tree of priorities that adds up.
AddsUp(t) == \A n \in 1 .. Capacity - 1 : t[n] = t[2 * n] + t[2 * n + 1]
TreeOk(t) == t \in [TreeNodes -> Nat] /\ AddsUp(t)

\* After a change of a leaf the tree adds up again, and no other leaf has changed.
LEMMA SetLeafIsSound ==
  ASSUME NEW t, TreeOk(t), NEW i \in Places, NEW p \in Nat
  PROVE  /\ TreeOk(SetLeaf(t, i, p))
         /\ \A k \in Places : Leaf(SetLeaf(t, i, p), k) = IF k = i THEN p ELSE Leaf(t, k)
<1> DEFINE s == SetLeaf(t, i, p)
           leaf == Capacity + i
<1>0. leaf \in TreeNodes /\ leaf \in Nat /\ leaf >= Capacity /\ Capacity \in Nat
  BY Children
<1>1. s = [n \in TreeNodes |-> s[n]] /\ \A n \in TreeNodes : s[n] = Renewed(s, t, i, p, n)
  BY SetLeafIs
<1> HIDE DEF s
<1>2. \A n \in TreeNodes : s[n] = IF n = leaf THEN p
                                  ELSE IF n \in Above[leaf] THEN s[2 * n] + s[2 * n + 1] ELSE t[n]
  BY <1>1 DEF Renewed
<1>3. Above[leaf] \subseteq 1 .. Capacity - 1
  BY <1>0, AboveIsInner
<1> HIDE DEF leaf
<1>4. ASSUME NEW n \in 1 .. Capacity - 1
      PROVE  s[n] = s[2 * n] + s[2 * n + 1]
  <2>1. n \in TreeNodes /\ 2 * n \in TreeNodes /\ 2 * n + 1 \in TreeNodes /\ n # leaf
    BY SMTT(30), <1>0, Children
  <2>2. CASE n \in Above[leaf]
    BY <1>2, <2>1, <2>2
  <2>3. CASE n \notin Above[leaf]
    <3>1. \A m \in {2 * n, 2 * n + 1} : m # leaf /\ m \notin Above[leaf]
      BY <1>0, <2>3, AboveIsClosed
    <3>2. s[n] = t[n] /\ s[2 * n] = t[2 * n] /\ s[2 * n + 1] = t[2 * n + 1]
      BY <1>2, <2>1, <2>3, <3>1
    <3> QED
      BY <3>2 DEF TreeOk, AddsUp
  <2> QED
    BY <2>2, <2>3
<1>5. \A n \in TreeNodes : s[n] \in Nat
  <2> DEFINE T == {n \in TreeNodes : s[n] \notin Nat}
             U == {2 * Capacity - n : n \in T}
  <2> SUFFICES ASSUME T # {} PROVE FALSE
    OBVIOUS
  <2>1. U \in SUBSET Nat /\ U # {}
    BY <1>0 DEF TreeNodes
  <2> HIDE DEF U
  <2>2. PICK l \in U : \A u \in U : l <= u
    BY <2>1, LeastNumber
  <2>3. PICK n \in T : l = 2 * Capacity - n
    BY <2>2 DEF U
  <2>4. \A k \in TreeNodes : k > n => s[k] \in Nat
    <3> SUFFICES ASSUME NEW k \in TreeNodes, k > n, s[k] \notin Nat PROVE FALSE
      OBVIOUS
    <3>1. 2 * Capacity - k \in U
      BY DEF U
    <3>2. k \in Nat /\ n \in Nat
      BY Children
    <3> QED
      BY <1>0, <2>2, <2>3, <3>1, <3>2
  <2>5. n \in TreeNodes /\ s[n] \notin Nat
    BY <2>3
  <2>6. CASE n \in 1 .. Capacity - 1
    <3>1. 2 * n \in TreeNodes /\ 2 * n + 1 \in TreeNodes /\ 2 * n > n /\ 2 * n + 1 > n
      BY <2>6, Children
    <3>2. s[2 * n] \in Nat /\ s[2 * n + 1] \in Nat
      BY <2>4, <3>1
    <3> QED
      BY <1>4, <2>5, <2>6, <3>2
  <2>7. CASE n \notin 1 .. Capacity - 1
    <3>1. n \notin Above[leaf]
      BY <1>3, <2>7
    <3>2. s[n] = p \/ s[n] = t[n]
      BY <1>2, <2>5, <3>1
    <3>3. t[n] \in Nat
      BY <2>5 DEF TreeOk
    <3> QED
      BY <2>5, <3>2, <3>3
  <2> QED
    BY <2>6, <2>7
<1>6. ASSUME NEW k \in Places
      PROVE  Leaf(s, k) = IF k = i THEN p ELSE Leaf(t, k)
  <2>1. Capacity + k \in TreeNodes /\ Capacity + k \notin Above[leaf] /\ k \in Nat /\ i \in Nat
    BY <1>0, <1>3, Children
  <2>2. (Capacity + k = leaf) <=> (k = i)
    BY <1>0, <2>1 DEF leaf
  <2> QED
    BY <1>2, <2>1, <2>2 DEF Leaf
<1>7. s \in [TreeNodes -> Nat]
  BY <1>1, <1>5
<1> QED
  BY <1>4, <1>6, <1>7 DEF s, TreeOk, AddsUp

\* The way down, as the leaf it ends at for each value.
Down(f, t, n) ==
  [v \in 0 .. Total(t) |->
     IF n >= Capacity THEN n - Capacity
     ELSE IF v <= t[2 * n] THEN f[2 * n][v] ELSE f[2 * n + 1][v - t[2 * n]]]

LEMMA DownAt ==
  ASSUME NEW f, NEW t, NEW n, NEW v \in 0 .. Total(t)
  PROVE  Down(f, t, n)[v] = IF n >= Capacity THEN n - Capacity
                            ELSE IF v <= t[2 * n] THEN f[2 * n][v] ELSE f[2 * n + 1][v - t[2 * n]]
  BY Zenon DEF Down

LEMMA DownExists ==
  ASSUME NEW t
  PROVE  \E f : f = [n \in TreeNodes |-> Down(f, t, n)]
<1> DEFINE N == 2 * Capacity - 1
           Good(f, k) == f = [n \in TreeNodes |-> f[n]]
                         /\ \A n \in TreeNodes : n > N - k => f[n] = Down(f, t, n)
           T == {k \in Nat : \E f : Good(f, k)}
<1>0. N \in Nat /\ N >= 1 /\ TreeNodes = 1 .. N /\ Capacity \in Nat
  BY ReplayAssumption DEF TreeNodes
<1> HIDE DEF N
<1>1. 0 \in T
  <2>1. Good([n \in TreeNodes |-> 0], 0)
    BY <1>0
  <2> QED
    BY <2>1
<1>2. ASSUME NEW k \in 0 .. N - 1, k \in T
      PROVE  k + 1 \in T
  <2>1. PICK f : Good(f, k)
    BY <1>2
  <2> DEFINE m == N - k
             g == [n \in TreeNodes |-> IF n = m THEN Down(f, t, n) ELSE f[n]]
  <2>2. m \in TreeNodes /\ m \in Nat \ {0}
    BY <1>0
  <2>3. ASSUME NEW n \in TreeNodes, n > N - (k + 1)
        PROVE  g[n] = Down(g, t, n)
    <3>1. n \in Nat \ {0} /\ n >= m
      BY <1>0, <2>3
    <3>2. ~ (n >= Capacity) => g[2 * n] = f[2 * n] /\ g[2 * n + 1] = f[2 * n + 1]
      <4> SUFFICES ASSUME ~ (n >= Capacity)
                   PROVE  g[2 * n] = f[2 * n] /\ g[2 * n + 1] = f[2 * n + 1]
        OBVIOUS
      <4>1. n \in 1 .. Capacity - 1
        BY <1>0, <3>1
      <4>2. 2 * n \in TreeNodes /\ 2 * n + 1 \in TreeNodes /\ 2 * n # m /\ 2 * n + 1 # m
        BY <2>2, <3>1, <4>1, Children
      <4> HIDE DEF m
      <4> QED
        BY <4>2
    <3>3. Down(g, t, n) = Down(f, t, n)
      <4> HIDE DEF g
      <4> QED
        BY <3>2 DEF Down
    <3>4. g[n] = IF n = m THEN Down(f, t, n) ELSE f[n]
      OBVIOUS
    <3>5. n # m => f[n] = Down(f, t, n)
      <4>1. n # m => n > N - k
        BY <2>2, <3>1
      <4> QED
        BY <2>1, <4>1
    <3> HIDE DEF g, m
    <3> QED
      BY <3>3, <3>4, <3>5
  <2>4. g = [n \in TreeNodes |-> g[n]]
    OBVIOUS
  <2> HIDE DEF g
  <2>5. Good(g, k + 1)
    BY <2>3, <2>4
  <2> QED
    BY <2>5
<1>3. T \in SUBSET Nat
  OBVIOUS
<1>4. N \in T
  <2> HIDE DEF T
  <2>1. \A k \in 0 .. N - 1 : k \in T => k + 1 \in T
    BY <1>2
  <2>2. 0 .. N \subseteq T
    BY <1>0, <1>1, <1>3, <2>1, UpTo
  <2> QED
    BY <1>0, <2>2
<1>5. PICK f : Good(f, N)
  BY <1>4
<1>6. \A n \in TreeNodes : f[n] = Down(f, t, n)
  <2>1. \A n \in TreeNodes : n > N - N
    BY <1>0
  <2> QED
    BY <1>5, <2>1
<1> QED
  BY <1>5, <1>6

\* In a tree that adds up, every value up to the total leads to a leaf of positive priority.
LEMMA DescendFinds ==
  ASSUME NEW t, TreeOk(t), NEW val \in 1 .. Total(t)
  PROVE  Descend(t, val) \in Places /\ Leaf(t, Descend(t, val)) > 0
<1> DEFINE f == CHOOSE f : f = [n \in TreeNodes |-> Down(f, t, n)]
<1>1. Descend(t, val) = f[1][val]
  BY DEF Descend, Down
<1>2. f = [n \in TreeNodes |-> Down(f, t, n)]
  BY DownExists
<1> HIDE DEF f
<1>3. \A n \in TreeNodes : f[n] = Down(f, t, n)
  BY <1>2
<1>4. t \in [TreeNodes -> Nat] /\ Total(t) \in Nat /\ Capacity \in Nat
  BY Children DEF TreeOk, Total
<1> DEFINE Good(n) == \A v \in 1 .. Total(t) : v <= t[n] => f[n][v] \in Places /\ t[Capacity + f[n][v]] > 0
           T == {n \in TreeNodes : ~ Good(n)}
           U == {2 * Capacity - n : n \in T}
<1>5. T = {}
  <2> SUFFICES ASSUME T # {} PROVE FALSE
    OBVIOUS
  <2>0. \A n \in T : n \in TreeNodes /\ ~ Good(n)
    OBVIOUS
  <2> HIDE DEF T, Good
  <2>1. U \in SUBSET Nat /\ U # {}
    <3>1. \A n \in TreeNodes : 2 * Capacity - n \in Nat
      BY <1>4 DEF TreeNodes
    <3> QED
      BY <2>0, <3>1
  <2> USE DEF T, Good
  <2> HIDE DEF U
  <2>2. PICK l \in U : \A u \in U : l <= u
    BY <2>1, LeastNumber
  <2>3. PICK n \in T : l = 2 * Capacity - n
    BY <2>2 DEF U
  <2> HIDE DEF Good
  <2>4. \A k \in TreeNodes : k > n => Good(k)
    <3> SUFFICES ASSUME NEW k \in TreeNodes, k > n, ~ Good(k) PROVE FALSE
      OBVIOUS
    <3>1. 2 * Capacity - k \in U
      BY DEF U
    <3>2. k \in Nat /\ n \in Nat
      BY Children
    <3> QED
      BY <1>4, <2>2, <2>3, <3>1, <3>2
  <2>5. n \in TreeNodes /\ n \in Nat /\ ~ Good(n)
    BY <2>3, Children
  <2>6. PICK v \in 1 .. Total(t) : v <= t[n] /\ ~ (f[n][v] \in Places /\ t[Capacity + f[n][v]] > 0)
    BY <2>5 DEF Good
  <2>7. f[n][v] = IF n >= Capacity THEN n - Capacity
                  ELSE IF v <= t[2 * n] THEN f[2 * n][v] ELSE f[2 * n + 1][v - t[2 * n]]
    <3>1. v \in 0 .. Total(t)
      OBVIOUS
    <3>2. f[n] = Down(f, t, n)
      BY <1>3, <2>5
    <3> QED
      BY <3>1, <3>2, DownAt
  <2>8. CASE n >= Capacity
    <3>1. f[n][v] = n - Capacity /\ n - Capacity \in Places
      BY <1>4, <2>5, <2>7, <2>8, Children
    <3>2. Capacity + (n - Capacity) = n
      BY <1>4, <2>5
    <3>3. t[n] > 0
      BY <1>4, <2>5, <2>6
    <3> QED
      BY <2>6, <3>1, <3>2, <3>3
  <2>9. CASE ~ (n >= Capacity)
    <3>1. n \in 1 .. Capacity - 1
      BY <1>4, <2>5, <2>9 DEF TreeNodes
    <3>2. 2 * n \in TreeNodes /\ 2 * n + 1 \in TreeNodes /\ 2 * n > n /\ 2 * n + 1 > n
      BY <2>5, <3>1, Children
    <3>3. Good(2 * n) /\ Good(2 * n + 1)
      BY <2>4, <3>2
    <3>4. t[n] = t[2 * n] + t[2 * n + 1] /\ t[2 * n] \in Nat /\ t[2 * n + 1] \in Nat
      BY <1>4, <3>1, <3>2 DEF TreeOk, AddsUp
    <3>5. CASE v <= t[2 * n]
      <4>1. f[n][v] = f[2 * n][v]
        BY <2>7, <2>9, <3>5
      <4> QED
        BY <2>6, <3>3, <3>5, <4>1 DEF Good
    <3>6. CASE ~ (v <= t[2 * n])
      <4> DEFINE w == v - t[2 * n]
      <4>1. f[n][v] = f[2 * n + 1][w]
        BY <2>7, <2>9, <3>6
      <4>2. w \in 1 .. Total(t) /\ w <= t[2 * n + 1]
        BY <1>4, <2>6, <3>4, <3>6
      <4> HIDE DEF w
      <4> QED
        BY <2>6, <3>3, <4>1, <4>2 DEF Good
    <3> QED
      BY <3>5, <3>6
  <2> QED
    BY <2>8, <2>9
<1>6. Good(1)
  <2>1. 1 \in TreeNodes /\ 1 \notin T
    BY <1>5, Children
  <2> HIDE DEF Good
  <2> QED
    BY <2>1
<1> QED
  BY <1>1, <1>6 DEF Leaf, Total

\* Priorities are positive where a transition is stored, and 0 elsewhere.
TreeInv(t, size) ==
  /\ TreeOk(t)
  /\ \A i \in Places : Leaf(t, i) \in {0} \cup DOMAIN Power /\ (i >= size => Leaf(t, i) = 0)

LEMMA Powers ==
  1 \in DOMAIN Power /\ \A p \in DOMAIN Power : p \in Nat \ {0} /\ Power[p] \in DOMAIN Power /\ Power[p] \in Nat \ {0}
BY ReplayAssumption

LEMMA GreatestLeaf ==
  ASSUME NEW t, TreeOk(t)
  PROVE  \E i \in Places : \A j \in Places : Leaf(t, i) >= Leaf(t, j)
<1> DEFINE N == Capacity - 1
           T == {k \in Nat : k \notin Places \/ \E i \in 0 .. k : \A j \in 0 .. k : Leaf(t, i) >= Leaf(t, j)}
<1>0. N \in Nat /\ Places = 0 .. N
  BY ReplayAssumption DEF Places
<1>1. \A i \in Places : Leaf(t, i) \in Nat
  BY Children DEF TreeOk, Leaf
<1> HIDE DEF N
<1>2. 0 \in T
  <2>1. 0 \in Places
    BY <1>0
  <2>2. Leaf(t, 0) >= Leaf(t, 0)
    BY <1>1, <2>1
  <2> QED
    BY <2>2
<1>3. ASSUME NEW k \in 0 .. N - 1, k \in T PROVE k + 1 \in T
  <2>1. k \in Places /\ k + 1 \in Places /\ k \in Nat
    BY <1>0
  <2>2. PICK i \in 0 .. k : \A j \in 0 .. k : Leaf(t, i) >= Leaf(t, j)
    BY <1>3, <2>1
  <2>3. \A j \in 0 .. k + 1 : j \in Places /\ (j \in 0 .. k \/ j = k + 1)
    BY <1>0, <2>1
  <2>4. Leaf(t, i) \in Nat /\ Leaf(t, k + 1) \in Nat /\ \A j \in 0 .. k : Leaf(t, j) \in Nat
    BY <1>1, <2>1, <2>3
  <2>5. CASE Leaf(t, i) >= Leaf(t, k + 1)
    <3>1. i \in 0 .. k + 1 /\ \A j \in 0 .. k + 1 : Leaf(t, i) >= Leaf(t, j)
      BY <2>1, <2>2, <2>3, <2>5
    <3> QED
      BY <2>1, <3>1
  <2>6. CASE ~ (Leaf(t, i) >= Leaf(t, k + 1))
    <3>1. k + 1 \in 0 .. k + 1 /\ \A j \in 0 .. k + 1 : Leaf(t, k + 1) >= Leaf(t, j)
      BY <2>1, <2>2, <2>3, <2>4, <2>6
    <3> QED
      BY <2>1, <3>1
  <2> QED
    BY <2>5, <2>6
<1>4. T \in SUBSET Nat
  OBVIOUS
<1>5. N \in T
  <2> HIDE DEF T
  <2>1. \A k \in 0 .. N - 1 : k \in T => k + 1 \in T
    BY <1>3
  <2>2. 0 .. N \subseteq T
    BY <1>0, <1>2, <1>4, <2>1, UpTo
  <2> QED
    BY <1>0, <2>2
<1> QED
  BY <1>0, <1>5

LEMMA MaxPriorityIs ==
  ASSUME NEW t, NEW size, TreeInv(t, size)
  PROVE  MaxPriority(t) \in DOMAIN Power
<1> DEFINE L == {Leaf(t, i) : i \in Places}
           top == CHOOSE p \in L : \A i \in Places : p >= Leaf(t, i)
<1>1. \E p \in L : \A i \in Places : p >= Leaf(t, i)
  BY GreatestLeaf DEF TreeInv
<1>2. top \in L
  BY <1>1
<1>3. top \in {0} \cup DOMAIN Power
  BY <1>2 DEF TreeInv
<1>4. MaxPriority(t) = IF top > 0 THEN top ELSE 1
  BY DEF MaxPriority
<1> HIDE DEF top
<1> QED
  BY <1>3, <1>4, Powers

LEMMA LeafSet ==
  ASSUME NEW t, NEW size \in Nat, TreeInv(t, size), NEW i \in Places, NEW p \in DOMAIN Power,
         NEW more \in Nat, i < more, size <= more
  PROVE  TreeInv(SetLeaf(t, i, p), more)
<1> DEFINE s == SetLeaf(t, i, p)
<1>1. p \in Nat /\ TreeOk(t)
  BY Powers DEF TreeInv
<1>2. TreeOk(s) /\ \A k \in Places : Leaf(s, k) = IF k = i THEN p ELSE Leaf(t, k)
  BY <1>1, SetLeafIsSound
<1> HIDE DEF s
<1>3. ASSUME NEW k \in Places
      PROVE  Leaf(s, k) \in {0} \cup DOMAIN Power /\ (k >= more => Leaf(s, k) = 0)
  <2>1. k \in Nat /\ i \in Nat
    BY Children
  <2>2. k >= more => k # i /\ k >= size
    BY <2>1
  <2>3. Leaf(t, k) \in {0} \cup DOMAIN Power /\ (k >= size => Leaf(t, k) = 0)
    BY DEF TreeInv
  <2> QED
    BY <1>2, <2>2, <2>3
<1> QED
  BY <1>2, <1>3 DEF TreeInv, s

LEMMA LeafAdded ==
  ASSUME NEW t, NEW size \in Nat, TreeInv(t, size), NEW i \in Places, NEW more \in Nat, i < more, size <= more
  PROVE  TreeInv(AddLeaf(t, i), more)
<1>1. Power[MaxPriority(t)] \in DOMAIN Power
  BY MaxPriorityIs, Powers
<1> QED
  BY <1>1, LeafSet DEF AddLeaf

LEMMA DrawnAreStored ==
  ASSUME NEW t, NEW size \in Nat, TreeInv(t, size), NEW val \in 1 .. Total(t)
  PROVE  /\ Descend(t, val) \in Places /\ Descend(t, val) < size /\ Leaf(t, Descend(t, val)) > 0
<1> DEFINE i == Descend(t, val)
<1>1. i \in Places /\ Leaf(t, i) > 0
  BY DescendFinds DEF TreeInv
<1> HIDE DEF i
<1>2. i \in Nat /\ (i >= size => Leaf(t, i) = 0)
  BY <1>1, Children DEF TreeInv
<1>3. i < size
  BY <1>1, <1>2
<1> QED
  BY <1>1, <1>3 DEF i

LEMMA PrioritiesUpdated ==
  ASSUME NEW b, NEW t, b.size \in Nat, TreeInv(t, b.size), NEW learns, NEW s \in Updated(learns, b, t)
  PROVE  TreeInv(s, b.size)
<1>1. CASE s = t
  BY <1>1
<1>2. CASE s # t
  <2>1. PICK i \in Drawn(b, t), p \in DOMAIN Power : s = SetLeaf(t, i, Power[p])
    BY <1>2 DEF Updated
  <2>2. PICK val \in 1 .. Total(t) : i = IF Descend(t, val) < b.size THEN Descend(t, val) ELSE b.size - 1
    BY <2>1 DEF Drawn
  <2>3. i \in Places /\ i < b.size
    BY <2>2, DrawnAreStored
  <2> QED
    BY <2>1, <2>3, LeafSet, Powers
<1> QED
  BY <1>1, <1>2

LEMMA TreeIsSound == TreeInv(tree, buf.size) /\ buf.size \in Nat => SamplesAreStored
<1> SUFFICES ASSUME TreeInv(tree, buf.size), buf.size \in Nat PROVE SamplesAreStored
  OBVIOUS
<1>1. \A n \in 1 .. Capacity - 1 : tree[n] = tree[2 * n] + tree[2 * n + 1]
  BY DEF TreeInv, TreeOk, AddsUp
<1>2. \A val \in 1 .. Total(tree) : Descend(tree, val) < buf.size /\ Leaf(tree, Descend(tree, val)) > 0
  BY DrawnAreStored
<1> QED
  BY <1>1, <1>2 DEF SamplesAreStored

-----------------------------------------------------------------------------
(* The ring and the n-step returns *)

\* The transition x is a stretch of one episode.
Stretch(x) ==
  /\ x.mask = x.obs /\ x.nextMask = x.next
  /\ x.rew = [h \in 1 .. x.gamma |-> [x.obs EXCEPT !.step = @ + h - 1]]
  /\ x.next = [x.obs EXCEPT !.step = @ + x.gamma]

RingOk(b) ==
  /\ b.size \in 0 .. Capacity /\ b.idx \in Places /\ DOMAIN b.slot = Places
  /\ b.size < Capacity => b.idx = b.size

Around(i) == IF i + 1 = Capacity THEN 0 ELSE i + 1

LEMMA RoundTheRing ==
  ASSUME NEW i \in Places
  PROVE  (i + 1) % Capacity = Around(i) /\ Around(i) \in Places
<1>1. Capacity \in Nat \ {0} /\ i \in 0 .. Capacity - 1
  BY ReplayAssumption DEF Places
<1>2. CASE i + 1 = Capacity
  <2>1. Capacity % Capacity = 0
    <3> DEFINE q == Capacity \div Capacity
               r == Capacity % Capacity
    <3>1. Capacity = Capacity * q + r /\ r \in 0 .. Capacity - 1 /\ q \in Int
      BY <1>1
    <3> HIDE DEF q, r
    <3>2. q = 1
      <4>1. CASE q >= 2
        <5>1. Capacity * q >= Capacity * 2
          BY <1>1, <3>1, <4>1
        <5> QED
          BY <1>1, <3>1, <5>1
      <4>2. CASE q <= 0
        <5>1. Capacity * q <= 0
          BY <1>1, <3>1, <4>2
        <5> QED
          BY <1>1, <3>1, <5>1
      <4> QED
        BY <3>1, <4>1, <4>2
    <3>3. r = 0
      BY <1>1, <3>1, <3>2
    <3> QED
      BY <3>3 DEF r
  <2> QED
    BY <1>1, <1>2, <2>1 DEF Around, Places
<1>3. CASE i + 1 # Capacity
  <2>1. (i + 1) % Capacity = i + 1
    <3> DEFINE q == (i + 1) \div Capacity
               r == (i + 1) % Capacity
    <3>1. i + 1 = Capacity * q + r /\ r \in 0 .. Capacity - 1 /\ q \in Int
      BY <1>1
    <3> HIDE DEF q, r
    <3>2. q = 0
      <4>1. CASE q >= 1
        <5>1. Capacity * q >= Capacity
          BY <1>1, <3>1, <4>1
        <5> QED
          BY <1>1, <1>3, <3>1, <5>1
      <4>2. CASE q <= -1
        <5>1. Capacity * q <= 0 - Capacity
          BY <1>1, <3>1, <4>2
        <5> QED
          BY <1>1, <3>1, <5>1
      <4> QED
        BY <3>1, <4>1, <4>2
    <3>3. r = i + 1
      BY <1>1, <3>1, <3>2
    <3> QED
      BY <3>3 DEF r
  <2> QED
    BY <1>1, <1>3, <2>1 DEF Around, Places
<1> QED
  BY <1>2, <1>3

\* What Store leaves behind.
Written(b, t, g) ==
  [obs |-> t.obs, rew |-> t.rew, next |-> t.next, done |-> t.done, gamma |-> g,
   mask |-> Kept(t.mask, b.slot[b.idx].mask), nextMask |-> Kept(t.nextMask, b.slot[b.idx].nextMask)]

LEMMA StoreIs ==
  ASSUME NEW b, RingOk(b), NEW t, NEW g
  PROVE  LET s == Store(b, t, g) IN
         /\ RingOk(s) /\ b.idx < s.size /\ b.size <= s.size
         /\ s.size = (IF b.size < Capacity THEN b.size + 1 ELSE b.size)
         /\ s.idx = Around(b.idx)
         /\ s.slot[b.idx] = Written(b, t, g)
         /\ \A i \in Places : i # b.idx => s.slot[i] = b.slot[i]
         /\ \A i \in 0 .. s.size - 1 : i = b.idx \/ i \in 0 .. b.size - 1
<1> DEFINE s == Store(b, t, g)
<1>1. /\ s.slot = [b.slot EXCEPT ![b.idx] = Written(b, t, g)]
      /\ s.idx = (b.idx + 1) % Capacity
      /\ s.size = IF b.size < Capacity THEN b.size + 1 ELSE Capacity
  BY DEF Store, Written
<1>2. b.idx \in Places /\ DOMAIN b.slot = Places /\ b.size \in 0 .. Capacity
      /\ (b.size < Capacity => b.idx = b.size) /\ Capacity \in Nat \ {0}
  BY ReplayAssumption DEF RingOk
<1>3. s.idx = Around(b.idx) /\ s.idx \in Places
  BY <1>1, <1>2, RoundTheRing
<1> HIDE DEF s
<1>4. DOMAIN s.slot = Places /\ s.slot[b.idx] = Written(b, t, g)
      /\ \A i \in Places : i # b.idx => s.slot[i] = b.slot[i]
  BY <1>1, <1>2
<1>5. /\ s.size = (IF b.size < Capacity THEN b.size + 1 ELSE b.size)
      /\ s.size \in 0 .. Capacity /\ b.idx < s.size /\ b.size <= s.size
      /\ \A i \in 0 .. s.size - 1 : i = b.idx \/ i \in 0 .. b.size - 1
  BY <1>1, <1>2 DEF Places
<1>6. s.size < Capacity => s.idx = s.size
  BY <1>2, <1>3, <1>5 DEF Around
<1>7. RingOk(s)
  BY <1>3, <1>4, <1>5, <1>6 DEF RingOk
<1> QED
  BY <1>3, <1>4, <1>5, <1>7 DEF s

\* A step of an environment that is at o, and the last k steps, of which that was one.
At(o, k) == Obs(o.env, o.episode, k)
Before(o, k) == [h \in 1 .. k |-> Experience(At(o, o.step - k + h - 1), FALSE)]
Past(o, k, done) == [h \in 1 .. k |-> Experience(At(o, o.step - k + h), h = k /\ done)]

IsObs(o) == o = At(o, o.step) /\ o.step \in Nat

LEMMA ExperienceIs ==
  ASSUME NEW o, IsObs(o), NEW done \in BOOLEAN
  PROVE  LET x == Experience(o, done) IN
         /\ x.obs = o /\ x.rew = <<o>> /\ x.next = Later(o) /\ x.done = done /\ x.mask = o /\ x.nextMask = Later(o)
         /\ Later(o) = At(o, o.step + 1) /\ o # NoMask /\ Later(o) # NoMask
<1>1. Successor(o, done) = Later(o)
  BY DEF Successor, Returned
<1>2. Later(o) = At(o, o.step + 1)
  BY DEF Later, At
<1>3. o # NoMask /\ Later(o) # NoMask
  <2>1. \A k : At(o, k) # NoMask
    BY DEF At, Obs, NoMask
  <2> QED
    BY <1>2, <2>1 DEF IsObs
<1> QED
  BY <1>1, <1>2, <1>3 DEF Experience, Transition

\* A deque(maxlen=n) holds the last steps, also with the next one.
LEMMA PushedIs ==
  ASSUME NEW o, IsObs(o), NEW n \in 0 .. NSteps, NEW done \in BOOLEAN
  PROVE  \E k \in 1 .. NSteps : /\ Pushed(Before(o, n), Experience(o, done)) = Past(o, k, done)
                                /\ k = IF n < NSteps THEN n + 1 ELSE n
<1> DEFINE x == Experience(o, done)
           d == Before(o, n)
           S == {d[h] : h \in 1 .. n}
<1>0. NSteps \in Nat \ {0} /\ n \in Nat /\ n <= NSteps /\ o.step \in Nat /\ At(o, o.step) = o
  BY ReplayAssumption DEF IsObs
<1>1. d = [h \in 1 .. n |-> Experience(At(o, o.step - n + h - 1), FALSE)]
  BY DEF Before
<1>2. d \in Seq(S) /\ Len(d) = n /\ DOMAIN d = 1 .. n
  <2> HIDE DEF d
  <2>1. d = [h \in 1 .. n |-> d[h]]
    BY <1>1
  <2>2. d \in [1 .. n -> S]
    BY <2>1
  <2> HIDE DEF S
  <2> QED
    BY <1>0, <2>2
<1> HIDE DEF x, S
<1>3. CASE n < NSteps
  <2> DEFINE e == Append(d, x)
  <2>1. d = [h \in 1 .. n |-> d[h]]
    BY <1>1
  <2>2. e = [h \in 1 .. n + 1 |-> IF h <= n THEN d[h] ELSE x]
    <3> HIDE DEF d
    <3> QED
      BY <1>0, <2>1, OneMore
  <2>3. Past(o, n + 1, done) = [h \in 1 .. n + 1 |-> IF h <= n THEN d[h] ELSE x]
    <3>1. ASSUME NEW h \in 1 .. n + 1
          PROVE  Experience(At(o, o.step - (n + 1) + h), h = n + 1 /\ done) = IF h <= n THEN d[h] ELSE x
      <4>1. CASE h <= n
        <5>1. h \in 1 .. n /\ o.step - (n + 1) + h = o.step - n + h - 1 /\ ~ (h = n + 1)
          BY <1>0, <4>1
        <5>2. (h = n + 1 /\ done) = FALSE
          BY <5>1
        <5>3. d[h] = Experience(At(o, o.step - n + h - 1), FALSE)
          BY <1>1, <5>1
        <5> QED
          BY <4>1, <5>1, <5>2, <5>3
      <4>2. CASE ~ (h <= n)
        <5>1. h = n + 1 /\ o.step - (n + 1) + h = o.step
          BY <1>0, <4>2
        <5>2. (h = n + 1 /\ done) = done
          BY <5>1
        <5>3. At(o, o.step - (n + 1) + h) = o
          BY <1>0, <5>1
        <5> QED
          BY <4>2, <5>2, <5>3 DEF x
      <4> QED
        BY <4>1, <4>2
    <3> HIDE DEF d
    <3> QED
      BY <3>1 DEF Past
  <2>4. Pushed(d, x) = e
    BY <1>2, <1>3 DEF Pushed
  <2>5. n + 1 \in 1 .. NSteps
    BY <1>0, <1>3
  <2> QED
    BY <1>3, <2>2, <2>3, <2>4, <2>5 DEF x
<1>4. CASE ~ (n < NSteps)
  <2>0. n = NSteps /\ n \in 1 .. NSteps /\ n - 1 \in Nat
    BY <1>0, <1>4
  <2> DEFINE t == Tail(d)
             e == Append(t, x)
  <2>1. t = [h \in 1 .. n - 1 |-> t[h]] /\ \A h \in 1 .. n - 1 : t[h] = d[h + 1]
    <3> HIDE DEF d
    <3>1. d # <<>>
      BY <1>2, <2>0
    <3>2. Tail(d) \in Seq(S) /\ Len(Tail(d)) = Len(d) - 1
          /\ \A i \in 1 .. Len(Tail(d)) : Tail(d)[i] = d[i + 1]
      BY <1>2, <3>1, HeadTailProperties
    <3>3. Tail(d) = [h \in 1 .. n - 1 |-> Tail(d)[h]]
      <4> DEFINE u == Tail(d)
      <4>1. u \in Seq(S) /\ Len(u) = n - 1
        BY <1>2, <3>2
      <4> HIDE DEF u
      <4>2. u \in [1 .. Len(u) -> S]
        BY <4>1, LenProperties
      <4>3. u = [h \in 1 .. Len(u) |-> u[h]]
        BY <4>2
      <4>4. u = [h \in 1 .. n - 1 |-> u[h]]
        BY <4>1, <4>3
      <4> QED
        BY <4>4 DEF u
    <3> QED
      BY <1>2, <3>2, <3>3
  <2>2. e = [h \in 1 .. (n - 1) + 1 |-> IF h <= n - 1 THEN t[h] ELSE x]
    <3> HIDE DEF t
    <3> QED
      BY <2>0, <2>1, OneMore
  <2>3. Past(o, n, done) = [h \in 1 .. n |-> IF h <= n - 1 THEN t[h] ELSE x]
    <3>1. ASSUME NEW h \in 1 .. n
          PROVE  Experience(At(o, o.step - n + h), h = n /\ done) = IF h <= n - 1 THEN t[h] ELSE x
      <4>1. CASE h <= n - 1
        <5>1. h \in 1 .. n - 1 /\ h + 1 \in 1 .. n /\ o.step - n + (h + 1) - 1 = o.step - n + h /\ ~ (h = n)
          BY <1>0, <2>0, <4>1
        <5>2. (h = n /\ done) = FALSE
          BY <5>1
        <5>3. d[h + 1] = Experience(At(o, o.step - n + (h + 1) - 1), FALSE)
          BY <1>1, <5>1
        <5>4. t[h] = d[h + 1]
          BY <2>1, <5>1
        <5> HIDE DEF t, d
        <5> QED
          BY <4>1, <5>1, <5>2, <5>3, <5>4
      <4>2. CASE ~ (h <= n - 1)
        <5>1. h = n /\ o.step - n + h = o.step
          BY <1>0, <2>0, <4>2
        <5>2. (h = n /\ done) = done
          BY <5>1
        <5>3. At(o, o.step - n + h) = o
          BY <1>0, <5>1
        <5> QED
          BY <4>2, <5>2, <5>3 DEF x
      <4> QED
        BY <4>1, <4>2
    <3> HIDE DEF t
    <3> QED
      BY <3>1 DEF Past
  <2>4. Pushed(d, x) = e
    BY <1>2, <1>4 DEF Pushed
  <2>5. (n - 1) + 1 = n
    BY <2>0
  <2> QED
    BY <1>4, <2>0, <2>2, <2>3, <2>4, <2>5 DEF x
<1> QED
  BY <1>3, <1>4

\* The whole of the last steps is what is committed.
LEMMA FoldedIs ==
  ASSUME NEW o, IsObs(o), NEW k \in Nat \ {0}, NEW done \in BOOLEAN, NEW d, d = Past(o, k, done)
  PROVE  LET x == Folded(d) IN
         /\ Len(d) = k /\ Horizon(d) = k
         /\ x.obs = At(o, o.step - k + 1) /\ x.mask = x.obs /\ x.next = Later(o) /\ x.nextMask = x.next
         /\ x.rew = [h \in 1 .. k |-> At(o, o.step - k + h)]
<1>0. o.step \in Nat /\ o = At(o, o.step)
  BY DEF IsObs
<1>1. Len(d) = k /\ DOMAIN d = 1 .. k
      /\ \A h \in 1 .. k : d[h] = Experience(At(o, o.step - k + h), h = k /\ done)
  BY DEF Past
<1>2. ASSUME NEW h \in 1 .. k
      PROVE  /\ d[h].obs = At(o, o.step - k + h) /\ d[h].mask = At(o, o.step - k + h)
             /\ d[h].rew = <<At(o, o.step - k + h)>> /\ d[h].done = (h = k /\ done)
  BY <1>1 DEF Experience, Transition
<1>3. Horizon(d) = k
  <2> DEFINE ends == {h \in DOMAIN d : d[h].done}
  <2>1. CASE done
    <3>0. k \in 1 .. k /\ \A h \in 1 .. k : d[h].done <=> h = k
      <4>1. ASSUME NEW h \in 1 .. k
            PROVE  d[h].done <=> h = k
        <5>1. d[h].done = (h = k /\ done)
          BY <1>2
        <5>2. (h = k /\ done) <=> h = k
          BY <2>1
        <5> QED
          BY <5>1, <5>2, Zenon
      <4> QED
        BY <4>1
    <3>1. ends = {k}
      <4> HIDE DEF ends
      <4>1. \A h : h \in ends <=> h \in 1 .. k /\ d[h].done
        BY <1>1 DEF ends
      <4> QED
        BY <3>0, <4>1
    <3>2. Horizon(d) = CHOOSE h \in ends : \A j \in ends : h <= j
      BY <3>1 DEF Horizon
    <3> HIDE DEF ends
    <3>3. \E h \in ends : \A j \in ends : h <= j
      BY <3>1
    <3> QED
      BY <3>1, <3>2, <3>3
  <2>2. CASE ~ done
    <3>1. ends = {}
      BY <1>1, <1>2, <2>2
    <3> QED
      BY <1>1, <3>1 DEF Horizon
  <2> QED
    BY <2>1, <2>2
<1>4. d[k].next = Later(o) /\ d[k].nextMask = Later(o)
  <2>1. d[k] = Experience(At(o, o.step - k + k), k = k /\ done) /\ o.step - k + k = o.step
    BY <1>0, <1>1
  <2>2. d[k] = Experience(o, done)
    BY <1>0, <2>1
  <2> QED
    BY <2>2, ExperienceIs
<1>5. ASSUME NEW h \in 1 .. k
      PROVE  Head(d[h].rew) = At(o, o.step - k + h)
  BY <1>2
<1>6. Folded(d) = Transition(d[1].obs, [h \in 1 .. k |-> Head(d[h].rew)], d[k].next, d[k].done, d[1].mask, d[k].nextMask)
  BY <1>3 DEF Folded
<1>7. [h \in 1 .. k |-> Head(d[h].rew)] = [h \in 1 .. k |-> At(o, o.step - k + h)]
  BY <1>5
<1>8. 1 \in 1 .. k
  OBVIOUS
<1>9. d[1].obs = At(o, o.step - k + 1) /\ d[1].mask = d[1].obs
  BY <1>2, <1>8
<1> QED
  BY <1>1, <1>3, <1>4, <1>6, <1>7, <1>9 DEF Transition

-----------------------------------------------------------------------------
(* One round of the environments *)

\* The tree and the ring fit together, and the ring holds stretches.
MemInv(b, t) ==
  /\ RingOk(b) /\ TreeInv(t, b.size)
  /\ \A i \in 0 .. b.size - 1 : Stretch(b.slot[i])

LEMMA WrittenIsStretch ==
  ASSUME NEW b, NEW x, NEW o, NEW s \in Int, NEW g \in Nat \ {0},
         x.obs = At(o, s), x.mask = x.obs, x.next = At(o, s + g), x.nextMask = x.next,
         x.rew = [h \in 1 .. g |-> At(o, s + h - 1)]
  PROVE  Stretch(Written(b, x, g))
<1> DEFINE w == Written(b, x, g)
<1>1. \A k : At(o, k) # NoMask
  BY DEF At, Obs, NoMask
<1>2. w.obs = At(o, s) /\ w.mask = At(o, s) /\ w.next = At(o, s + g) /\ w.nextMask = At(o, s + g)
      /\ w.gamma = g /\ w.rew = [h \in 1 .. g |-> At(o, s + h - 1)]
  BY <1>1 DEF Written, Kept
<1> HIDE DEF w
<1>3. ASSUME NEW k \in Int
      PROVE  [At(o, s) EXCEPT !.step = @ + k] = At(o, s + k)
  BY DEF At, Obs
<1>4. ASSUME NEW h \in 1 .. g
      PROVE  [w.obs EXCEPT !.step = @ + h - 1] = At(o, s + h - 1)
  BY <1>2 DEF At, Obs
<1>5. w.next = [w.obs EXCEPT !.step = @ + w.gamma]
  BY <1>2, <1>3
<1>6. w.rew = [h \in 1 .. w.gamma |-> [w.obs EXCEPT !.step = @ + h - 1]]
  BY <1>2, <1>4
<1>7. w.mask = w.obs /\ w.nextMask = w.next
  BY <1>2
<1>8. Stretch(w)
  BY <1>5, <1>6, <1>7 DEF Stretch
<1> QED
  BY <1>8 DEF w

LEMMA StretchesKept ==
  ASSUME NEW b, RingOk(b), \A i \in 0 .. b.size - 1 : Stretch(b.slot[i]), NEW x, NEW g, Stretch(Written(b, x, g))
  PROVE  \A i \in 0 .. Store(b, x, g).size - 1 : Stretch(Store(b, x, g).slot[i])
<1> DEFINE s == Store(b, x, g)
<1>1. /\ RingOk(s)
      /\ s.slot[b.idx] = Written(b, x, g)
      /\ \A i \in Places : i # b.idx => s.slot[i] = b.slot[i]
      /\ \A i \in 0 .. s.size - 1 : i = b.idx \/ i \in 0 .. b.size - 1
  BY StoreIs
<1> HIDE DEF s
<1>2. ASSUME NEW i \in 0 .. s.size - 1
      PROVE  Stretch(s.slot[i])
  <2>1. i \in Places
    BY <1>1, ReplayAssumption DEF RingOk, Places
  <2>2. CASE i = b.idx
    BY <1>1, <2>2
  <2>3. CASE i # b.idx
    BY <1>1, <2>1, <2>3
  <2> QED
    BY <2>2, <2>3
<1> QED
  BY <1>2 DEF s

LEMMA TreeGrows ==
  ASSUME NEW t, NEW size \in Nat, NEW more \in Nat, TreeInv(t, size), size <= more
  PROVE  TreeInv(t, more)
<1>1. \A i \in Places : i >= more => i >= size
  BY Children
<1> QED
  BY <1>1 DEF TreeInv

\* Seen from the next step, the last k steps are those past.
LEMMA OneStepOn ==
  ASSUME NEW o, o.step \in Nat, NEW k \in Nat
  PROVE  Before(At(o, o.step + 1), k) = Past(o, k, FALSE)
<1> DEFINE u == At(o, o.step + 1)
           s == o.step + 1
<1>1. u.step = s /\ \A j : At(u, j) = At(o, j)
  BY DEF At, Obs
<1>2. Past(o, k, FALSE) = [h \in 1 .. k |-> Experience(At(o, o.step - k + h), FALSE)]
  <2>1. \A h \in 1 .. k : (h = k /\ FALSE) = FALSE
    OBVIOUS
  <2> QED
    BY <2>1 DEF Past
<1>3. \A h \in 1 .. k : s - k + h - 1 = o.step - k + h
  OBVIOUS
<1> HIDE DEF u, s
<1>4. Before(u, k) = [h \in 1 .. k |-> Experience(At(u, s - k + h - 1), FALSE)]
  BY <1>1 DEF Before
<1> QED
  BY ZenonT(30), <1>1, <1>2, <1>3, <1>4 DEF u

\* One transition through the deque of its environment.
LEMMA FeedStep ==
  ASSUME NEW m, MemInv(m.buf, m.tree), NEW e \in Envs, DOMAIN m.deque = Envs, NEW done \in BOOLEAN,
         IsObs(env[e]), NEW n \in 0 .. NSteps, m.deque[e] = Before(env[e], n)
  PROVE  LET f == Feed(m, e, done) IN
         /\ MemInv(f.buf, f.tree) /\ DOMAIN f.deque = Envs
         /\ \A d \in Envs : d # e => f.deque[d] = m.deque[d]
         /\ \E k \in 0 .. NSteps : f.deque[e] = Before(Returned(env[e], done), k)
<1> DEFINE o == env[e]
           d == Pushed(m.deque[e], Experience(o, done))
           full == Len(d) = NSteps \/ done
           f == Feed(m, e, done)
<1>0. NSteps \in Nat \ {0} /\ o.step \in Nat
  BY ReplayAssumption DEF IsObs
<1>1. PICK k \in 1 .. NSteps : d = Past(o, k, done)
  BY PushedIs
<1>2. k \in Nat \ {0}
  BY <1>0
<1>3. /\ f.buf = IF full THEN Store(m.buf, Folded(d), Horizon(d)) ELSE m.buf
      /\ f.tree = IF full THEN AddLeaf(m.tree, m.buf.idx) ELSE m.tree
      /\ f.deque = [m.deque EXCEPT ![e] = IF done THEN <<>> ELSE d]
  BY DEF Feed
<1> HIDE DEF f, d
<1>4. /\ Len(d) = k /\ Horizon(d) = k
      /\ Folded(d).obs = At(o, o.step - k + 1) /\ Folded(d).mask = Folded(d).obs
      /\ Folded(d).next = Later(o) /\ Folded(d).nextMask = Folded(d).next
      /\ Folded(d).rew = [h \in 1 .. k |-> At(o, o.step - k + h)]
  <2> HIDE DEF o
  <2>1. IsObs(o)
    BY DEF o
  <2> QED
    BY <1>1, <1>2, <2>1, FoldedIs
<1>5. Later(o) = At(o, o.step + 1)
  BY ExperienceIs
<1>6. ASSUME full
      PROVE  MemInv(f.buf, f.tree)
  <2> DEFINE s == o.step - k + 1
             x == Folded(d)
  <2>1. s \in Int /\ s + k = o.step + 1 /\ \A h \in 1 .. k : s + h - 1 = o.step - k + h
    BY <1>0, <1>2
  <2>2. x.obs = At(o, s) /\ x.mask = x.obs /\ x.next = At(o, s + k) /\ x.nextMask = x.next
        /\ x.rew = [h \in 1 .. k |-> At(o, s + h - 1)]
    BY <1>4, <1>5, <2>1
  <2> HIDE DEF s, x
  <2>3. Stretch(Written(m.buf, x, k))
    BY <1>2, <2>1, <2>2, WrittenIsStretch
  <2>4. f.buf = Store(m.buf, x, k) /\ f.tree = AddLeaf(m.tree, m.buf.idx)
    BY <1>3, <1>4, <1>6 DEF x
  <2>5. RingOk(m.buf) /\ m.buf.size \in Nat /\ m.buf.idx \in Places /\ TreeInv(m.tree, m.buf.size)
    BY ReplayAssumption DEF MemInv, RingOk
  <2>6. RingOk(f.buf) /\ m.buf.idx < f.buf.size /\ m.buf.size <= f.buf.size
    BY <2>4, <2>5, StoreIs
  <2>7. \A i \in 0 .. f.buf.size - 1 : Stretch(f.buf.slot[i])
    BY <2>3, <2>4, <2>5, StretchesKept DEF MemInv
  <2>8. f.buf.size \in Nat
    BY <2>6, ReplayAssumption DEF RingOk
  <2>9. TreeInv(f.tree, f.buf.size)
    BY <2>4, <2>5, <2>6, <2>8, LeafAdded
  <2> QED
    BY <2>6, <2>7, <2>9 DEF MemInv
<1>7. MemInv(f.buf, f.tree)
  <2>1. CASE full
    BY <1>6, <2>1
  <2>2. CASE ~ full
    <3>1. f.buf = m.buf /\ f.tree = m.tree
      BY <1>3, <2>2
    <3> QED
      BY <3>1
  <2> QED
    BY <2>1, <2>2
<1>8. DOMAIN f.deque = Envs /\ f.deque[e] = (IF done THEN <<>> ELSE d) /\ \A c \in Envs : c # e => f.deque[c] = m.deque[c]
  BY <1>3
<1>9. \E j \in 0 .. NSteps : f.deque[e] = Before(Returned(o, done), j)
  <2>1. CASE done
    <3>1. Before(Returned(o, done), 0) = <<>>
      BY DEF Before
    <3>2. f.deque[e] = <<>>
      BY <1>8, <2>1
    <3> QED
      BY <1>0, <3>1, <3>2
  <2>2. CASE ~ done
    <3>1. Returned(o, done) = At(o, o.step + 1)
      BY <1>5, <2>2 DEF Returned
    <3>2. At(o, o.step + 1).step = o.step + 1 /\ \A j : At(At(o, o.step + 1), j) = At(o, j)
      BY DEF At, Obs
    <3>3. Past(o, k, done) = Past(o, k, FALSE)
      BY <2>2
    <3>4. Before(At(o, o.step + 1), k) = Past(o, k, done)
      BY <1>0, <1>2, <3>3, OneStepOn
    <3>5. f.deque[e] = d
      BY <1>8, <2>2
    <3>6. f.deque[e] = Before(Returned(o, done), k)
      BY <1>1, <3>1, <3>4, <3>5
    <3>7. k \in 0 .. NSteps
      BY <1>0
    <3> QED
      BY <3>6, <3>7
  <2> QED
    BY <2>1, <2>2
<1>10. MemInv(f.buf, f.tree) /\ DOMAIN f.deque = Envs
       /\ (\A c \in Envs : c # e => f.deque[c] = m.deque[c])
       /\ \E j \in 0 .. NSteps : f.deque[e] = Before(Returned(env[e], done), j)
  BY <1>7, <1>8, <1>9 DEF o
<1> QED
  BY <1>10 DEF f

\* All of them, one after the other.
RoundStart == [buf |-> buf, tree |-> tree, deque |-> deque]
FedStep(m, over, e) == IF e = 0 THEN RoundStart ELSE Feed(m[e - 1], e, e \in over)

LEMMA FedExists ==
  ASSUME NEW n \in Nat, NEW over
  PROVE  \E m : m = [e \in 0 .. n |-> FedStep(m, over, e)]
<1> DEFINE Good(m, k) == m = [e \in 0 .. n |-> m[e]] /\ \A e \in 0 .. k : m[e] = FedStep(m, over, e)
           T == {k \in Nat : \E m : Good(m, k)}
<1>1. 0 \in T
  <2> DEFINE m == [e \in 0 .. n |-> RoundStart]
  <2>1. m = [e \in 0 .. n |-> m[e]] /\ m[0] = RoundStart
    OBVIOUS
  <2> HIDE DEF m
  <2>2. Good(m, 0)
    BY <2>1 DEF FedStep
  <2> QED
    BY <2>2
<1>2. ASSUME NEW k \in 0 .. n - 1, k \in T
      PROVE  k + 1 \in T
  <2>1. PICK f : Good(f, k)
    BY <1>2
  <2> DEFINE g == [e \in 0 .. n |-> IF e = k + 1 THEN FedStep(f, over, e) ELSE f[e]]
  <2>2. k + 1 \in 0 .. n /\ k \in Nat /\ 0 .. k + 1 \subseteq 0 .. n
    OBVIOUS
  <2>3. g = [e \in 0 .. n |-> g[e]] /\ g[k + 1] = FedStep(f, over, k + 1)
        /\ \A e \in 0 .. k : e \in 0 .. n /\ g[e] = f[e]
    BY <2>2
  <2> HIDE DEF g
  <2>4. ASSUME NEW e \in 0 .. k + 1
        PROVE  FedStep(g, over, e) = FedStep(f, over, e)
    <3>1. CASE e = 0
      BY <3>1 DEF FedStep
    <3>2. CASE e # 0
      <4>1. e - 1 \in 0 .. k
        BY <2>2, <3>2
      <4> QED
        BY <2>3, <3>2, <4>1 DEF FedStep
    <3> QED
      BY <3>1, <3>2
  <2>5. ASSUME NEW e \in 0 .. k + 1
        PROVE  g[e] = FedStep(g, over, e)
    <3>1. e = k + 1 \/ e \in 0 .. k
      BY <2>2
    <3> QED
      BY <2>1, <2>3, <2>4, <3>1
  <2>6. Good(g, k + 1)
    BY <2>3, <2>5
  <2> QED
    BY <2>2, <2>6
<1>3. T \in SUBSET Nat
  OBVIOUS
<1>4. n \in T
  <2> HIDE DEF T
  <2>1. 0 .. n \subseteq T
    BY <1>1, <1>2, <1>3, UpTo
  <2> QED
    BY <2>1
<1>5. PICK m : Good(m, n)
  BY <1>4
<1> QED
  BY <1>5

LEMMA FedIs ==
  ASSUME NEW n \in Nat, NEW over
  PROVE  \E m : Fed(n, over) = m[n] /\ m[0] = RoundStart /\ \A e \in 1 .. n : m[e] = Feed(m[e - 1], e, e \in over)
<1> DEFINE m == CHOOSE f : f = [e \in 0 .. n |-> FedStep(f, over, e)]
<1>1. Fed(n, over) = m[n]
  BY DEF Fed, FedStep, RoundStart
<1>2. m = [e \in 0 .. n |-> FedStep(m, over, e)]
  BY FedExists
<1> HIDE DEF m
<1>3. \A e \in 0 .. n : m[e] = FedStep(m, over, e)
  BY <1>2
<1>4. m[0] = RoundStart
  BY <1>3 DEF FedStep
<1>5. ASSUME NEW e \in 1 .. n
      PROVE  m[e] = Feed(m[e - 1], e, e \in over)
  <2>1. e \in 0 .. n /\ e # 0
    OBVIOUS
  <2> QED
    BY <1>3, <2>1 DEF FedStep
<1> QED
  BY <1>1, <1>4, <1>5

LEMMA Numbers == NumEnvs \in Nat \ {0} /\ Envs = 1 .. NumEnvs
  BY EpisodesAssumption, FS_CardinalityType, FS_EmptySet DEF NumEnvs

\* Each deque holds the last steps of its environment.
LastSteps(o, d) == \E k \in 0 .. NSteps : d = Before(o, k)
After(e, n, over) == IF e <= n THEN Returned(env[e], e \in over) ELSE env[e]

LEMMA FedKeeps ==
  ASSUME MemInv(buf, tree), DOMAIN deque = Envs,
         \A e \in Envs : IsObs(env[e]) /\ LastSteps(env[e], deque[e]),
         NEW n \in Nat, 1 .. n \subseteq Envs, NEW over
  PROVE  LET m == Fed(n, over) IN
         /\ MemInv(m.buf, m.tree) /\ DOMAIN m.deque = Envs
         /\ \A e \in Envs : LastSteps(After(e, n, over), m.deque[e])
<1> DEFINE P(f, j) == /\ MemInv(f.buf, f.tree) /\ DOMAIN f.deque = Envs
                      /\ \A e \in Envs : LastSteps(After(e, j, over), f.deque[e])
                                         /\ (e > j => f.deque[e] = deque[e])
<1>1. PICK m : Fed(n, over) = m[n] /\ m[0] = RoundStart /\ \A e \in 1 .. n : m[e] = Feed(m[e - 1], e, e \in over)
  BY FedIs
<1> DEFINE T == {j \in Nat : P(m[j], j)}
<1>2. Envs \subseteq Nat \ {0}
  BY Numbers
<1>3. 0 \in T
  <2>1. \A e \in Envs : After(e, 0, over) = env[e]
    BY <1>2 DEF After
  <2>2. P(RoundStart, 0)
    BY <2>1 DEF RoundStart
  <2> QED
    BY <1>1, <2>2
<1>4. ASSUME NEW j \in 0 .. n - 1, j \in T
      PROVE  j + 1 \in T
  <2> DEFINE e == j + 1
             f == Feed(m[j], e, e \in over)
  <2>1. e \in 1 .. n /\ e \in Envs /\ e - 1 = j /\ j \in Nat
    OBVIOUS
  <2>2. P(m[j], j) /\ m[e] = f
    BY <1>1, <1>4, <2>1
  <2>3. (e \in over) \in BOOLEAN
    OBVIOUS
  <2>4. PICK k \in 0 .. NSteps : deque[e] = Before(env[e], k)
    BY <2>1 DEF LastSteps
  <2>5. m[j].deque[e] = Before(env[e], k) /\ IsObs(env[e])
    <3>1. e > j
      BY <2>1
    <3> QED
      BY <2>1, <2>2, <2>4, <3>1
  <2> HIDE DEF e
  <2>6. /\ MemInv(f.buf, f.tree) /\ DOMAIN f.deque = Envs
        /\ \A c \in Envs : c # e => f.deque[c] = m[j].deque[c]
        /\ LastSteps(Returned(env[e], e \in over), f.deque[e])
    <3>1. MemInv(m[j].buf, m[j].tree) /\ DOMAIN m[j].deque = Envs
      BY <2>2
    <3> DEFINE q == m[j]
               done == e \in over
    <3> HIDE DEF q, done
    <3>2. /\ MemInv(Feed(q, e, done).buf, Feed(q, e, done).tree) /\ DOMAIN Feed(q, e, done).deque = Envs
          /\ \A c \in Envs : c # e => Feed(q, e, done).deque[c] = q.deque[c]
          /\ \E h \in 0 .. NSteps : Feed(q, e, done).deque[e] = Before(Returned(env[e], done), h)
      <4>1. MemInv(q.buf, q.tree) /\ DOMAIN q.deque = Envs /\ done \in BOOLEAN /\ q.deque[e] = Before(env[e], k)
        BY <2>3, <2>5, <3>1 DEF q, done
      <4> QED
        BY <2>1, <2>5, <4>1, FeedStep
    <3> QED
      BY <3>2 DEF LastSteps, q, done
  <2> HIDE DEF f
  <2>7. ASSUME NEW c \in Envs
        PROVE  LastSteps(After(c, e, over), f.deque[c]) /\ (c > e => f.deque[c] = deque[c])
    <3>1. CASE c = e
      <4>1. After(c, e, over) = Returned(env[e], e \in over) /\ ~ (c > e)
        BY <1>2, <3>1 DEF After
      <4> QED
        BY <2>6, <3>1, <4>1
    <3>2. CASE c # e
      <4>1. c \in Nat /\ (c <= e <=> c <= j) /\ (c > e => c > j)
        BY <1>2, <2>1, <3>2
      <4>2. After(c, e, over) = After(c, j, over)
        BY <4>1 DEF After
      <4>3. f.deque[c] = m[j].deque[c]
        BY <2>6, <3>2
      <4>4. LastSteps(After(c, j, over), m[j].deque[c]) /\ (c > j => m[j].deque[c] = deque[c])
        BY <2>2
      <4> QED
        BY <4>1, <4>2, <4>3, <4>4
    <3> QED
      BY <3>1, <3>2
  <2>8. P(f, e)
    BY <2>6, <2>7
  <2>9. e \in Nat
    BY <2>1
  <2> HIDE DEF P
  <2>10. e \in T
    BY <2>2, <2>8, <2>9
  <2> QED
    BY <2>10 DEF e
<1>5. T \in SUBSET Nat
  OBVIOUS
<1>6. n \in T
  <2> HIDE DEF T
  <2>1. 0 .. n \subseteq T
    BY <1>3, <1>4, <1>5, UpTo
  <2> QED
    BY <2>1
<1>7. P(m[n], n)
  BY <1>6
<1> HIDE DEF T
<1> QED
  BY <1>1, <1>7

-----------------------------------------------------------------------------
(* The daemon's log *)

\* A start as the daemon records it: the state it waited in, the job's place in the window of
\* that state, and a node it ran on.
Recorded(j, obs, act) ==
  j \in Jobs /\ obs # NoMask /\ act[1] \in DOMAIN obs.window /\ obs.window[act[1]] = j /\ act[2] \in ran[j]

\* A waiting job is in the window remembered for it, a job in flight has started, and nothing is
\* in the log that did not happen.
SlurmInv ==
  /\ DOMAIN state = Jobs /\ DOMAIN at = Jobs /\ DOMAIN ran = Jobs
  /\ \A j \in Jobs : state[j] = "running" => at[j] \in ran[j]

PendingInv  == \A j \in DOMAIN pendingObs : pendingObs[j] # NoMask /\ j \in Range(pendingObs[j].window)
InFlightInv == \A j \in DOMAIN inFlight : Recorded(j, inFlight[j].obs, inFlight[j].act) /\ state[j] # "new"
LogInv ==
  /\ log \in Seq(Range(log))
  /\ \A k \in DOMAIN log : Recorded(log[k].job, log[k].obs, log[k].act)
  /\ \A k \in DOMAIN log : blind = 0 => state[log[k].job] = "gone"
DaemonInv == blind \in Nat /\ PendingInv /\ InFlightInv /\ LogInv

\* Slurm forgets neither where a job ran nor that a job has gone.
LEMMA SlurmStep ==
  ASSUME SlurmInv, Slurm
  PROVE  /\ SlurmInv' /\ \A j \in Jobs : ran[j] \subseteq ran'[j]
         /\ \A j \in Jobs : (state[j] = "gone" => state'[j] = "gone") /\ (state[j] # "new" => state'[j] # "new")
<1> DEFINE Goal == /\ SlurmInv' /\ \A j \in Jobs : ran[j] \subseteq ran'[j]
                   /\ \A j \in Jobs : (state[j] = "gone" => state'[j] = "gone") /\ (state[j] # "new" => state'[j] # "new")
<1>1. ASSUME NEW j \in Jobs, Submit(j) PROVE Goal
  BY <1>1 DEF Submit, SlurmInv
<1>2. ASSUME NEW j \in Jobs, Requeue(j) PROVE Goal
  BY <1>2 DEF Requeue, Running, SlurmInv
<1>3. ASSUME NEW j \in Jobs, Finish(j) PROVE Goal
  BY <1>3 DEF Finish, Running, SlurmInv
<1>4. ASSUME NEW j \in Jobs, Forget(j) PROVE Goal
  BY <1>4 DEF Forget, SlurmInv
<1>5. ASSUME NEW j \in Jobs, NEW n \in Nodes, Start(j, n) PROVE Goal
  BY <1>5 DEF Start, SlurmInv
<1> QED
  BY <1>1, <1>2, <1>3, <1>4, <1>5 DEF Slurm

LEMMA SlurmKeepsTheLog ==
  ASSUME SlurmInv, DaemonInv, Slurm
  PROVE  DaemonInv'
<1>1. UNCHANGED <<pendingObs, inFlight, log, blind>>
  BY DEF Slurm, daemon
<1>2. ASSUME NEW j, NEW obs, NEW act, Recorded(j, obs, act)
      PROVE  j \in Jobs /\ act[1] \in DOMAIN obs.window /\ obs.window[act[1]] = j /\ act[2] \in ran'[j]
  BY <1>2, SlurmStep DEF Recorded
<1>3. \A j \in DOMAIN inFlight : Recorded(j, inFlight[j].obs, inFlight[j].act)' /\ state'[j] # "new"
  BY <1>1, <1>2, SlurmStep DEF Recorded, DaemonInv, InFlightInv, LogInv
<1>4. \A k \in DOMAIN log : /\ Recorded(log[k].job, log[k].obs, log[k].act)'
                            /\ blind = 0 => state'[log[k].job] = "gone"
  BY <1>1, <1>2, SlurmStep DEF Recorded, DaemonInv, InFlightInv, LogInv
<1> QED
  BY <1>1, <1>3, <1>4 DEF DaemonInv, PendingInv, InFlightInv, LogInv, Range

\* A poll remembers each job with a window it is in, and takes a start for what it was.
LEMMA PollsRecord ==
  ASSUME SlurmInv, DaemonInv, NEW ok \in BOOLEAN, NEW p, p = PollOf(ok)
  PROVE  /\ \A j \in DOMAIN Remember(p) : Remember(p)[j] # NoMask /\ j \in Range(Remember(p)[j].window)
         /\ \A j \in DOMAIN Flying(p) : Recorded(j, Flying(p)[j].obs, Flying(p)[j].act) /\ state[j] # "new"
<1>0. p.snap # NoMask
  BY DEF PollOf, NoPoll, Snapshot, NothingWaits, NoMask
<1>1. ASSUME NEW j \in DOMAIN Remember(p)
      PROVE  Remember(p)[j] # NoMask /\ j \in Range(Remember(p)[j].window)
  BY <1>0 DEF Remember, DaemonInv, PendingInv
<1>2. ASSUME NEW j \in Launched(p)
      PROVE  /\ Recorded(j, Remember(p)[j], Action(p, j)) /\ state[j] # "new"
  <2>1. j \in Jobs /\ state[j] = "running"
    BY DEF Launched, PollOf, NoPoll, Running
  <2>2. Remember(p)[j] # NoMask /\ j \in Range(Remember(p)[j].window)
    BY <1>1 DEF Launched
  <2> DEFINE w == Remember(p)[j].window
  <2>3. \E i \in DOMAIN w : w[i] = j
    BY <2>2 DEF Range
  <2>4. IndexIn(w, j) \in DOMAIN w /\ w[IndexIn(w, j)] = j
    BY <2>3 DEF IndexIn
  <2>5. Action(p, j)[1] = IndexIn(w, j) /\ Action(p, j)[2] = at[j]
    BY DEF Action
  <2>6. at[j] \in ran[j]
    BY <2>1 DEF SlurmInv
  <2>7. Recorded(j, Remember(p)[j], Action(p, j)) = /\ j \in Jobs /\ Remember(p)[j] # NoMask
                                                    /\ Action(p, j)[1] \in DOMAIN w
                                                    /\ w[Action(p, j)[1]] = j /\ Action(p, j)[2] \in ran[j]
    BY DEF Recorded
  <2> HIDE DEF w
  <2> QED
    BY <2>1, <2>2, <2>4, <2>5, <2>6, <2>7
<1>3. ASSUME NEW j \in DOMAIN Flying(p)
      PROVE  Recorded(j, Flying(p)[j].obs, Flying(p)[j].act) /\ state[j] # "new"
  <2>1. CASE j \in Launched(p)
    <3>1. Flying(p)[j].obs = Remember(p)[j] /\ Flying(p)[j].act = Action(p, j)
      BY <2>1 DEF Flying
    <3> QED
      BY <1>2, <2>1, <3>1
  <2>2. CASE j \notin Launched(p)
    <3>1. j \in DOMAIN inFlight /\ Flying(p)[j] = inFlight[j]
      BY <2>2 DEF Flying
    <3> QED
      BY <3>1 DEF DaemonInv, InFlightInv
  <2> QED
    BY <2>1, <2>2
<1> QED
  BY <1>1, <1>3

\* Appending: what the rows of a poll say is true, and the others stay.
LEMMA RowsAdded ==
  ASSUME NEW R, NEW s \in Seq(R), NEW n \in Nat, NEW f \in [1 .. n -> R]
  PROVE  /\ s \o f \in Seq(R)
         /\ \A k \in DOMAIN (s \o f) : (\E i \in DOMAIN s : (s \o f)[k] = s[i])
                                       \/ \E i \in 1 .. n : (s \o f)[k] = f[i]
<1> DEFINE t == s \o f
<1>1. f \in Seq(R) /\ Len(f) = n
  OBVIOUS
<1>2. t \in Seq(R) /\ Len(t) = Len(s) + n
      /\ \A k \in 1 .. Len(t) : t[k] = IF k <= Len(s) THEN s[k] ELSE f[k - Len(s)]
  BY <1>1, ConcatProperties
<1>3. Len(s) \in Nat /\ DOMAIN s = 1 .. Len(s) /\ DOMAIN t = 1 .. Len(t) /\ Len(t) \in Nat
  BY <1>2
<1> HIDE DEF t
<1>4. ASSUME NEW k \in DOMAIN t
      PROVE  (\E i \in DOMAIN s : t[k] = s[i]) \/ \E i \in 1 .. n : t[k] = f[i]
  <2>0. k \in 1 .. Len(s) + n /\ t[k] = (IF k <= Len(s) THEN s[k] ELSE f[k - Len(s)])
    BY <1>2, <1>3
  <2>1. CASE k <= Len(s)
    <3>1. k \in DOMAIN s /\ t[k] = s[k]
      BY <1>3, <2>0, <2>1
    <3> QED
      BY <3>1
  <2>2. CASE k > Len(s)
    <3>1. k - Len(s) \in 1 .. n
      BY <1>3, <2>0, <2>2
    <3>2. t[k] = f[k - Len(s)]
      BY <1>3, <2>0, <2>2
    <3> QED
      BY <3>1, <3>2
  <2> QED
    BY <1>3, <2>0, <2>1, <2>2
<1> QED
  BY <1>2, <1>4 DEF t

\* A sequence is one over its own elements.
LEMMA OverItsElements ==
  ASSUME NEW R, NEW s \in Seq(R)
  PROVE  s \in Seq(Range(s)) /\ Range(s) \subseteq R
<1>1. Len(s) \in Nat /\ s \in [1 .. Len(s) -> R]
  OBVIOUS
<1>2. s \in [1 .. Len(s) -> Range(s)] /\ Range(s) \subseteq R
  BY <1>1 DEF Range
<1> QED
  BY <1>1, <1>2

LEMMA PollStep ==
  ASSUME SlurmInv, DaemonInv, NEW ok \in BOOLEAN, Poll(ok)
  PROVE  SlurmInv' /\ DaemonInv'
<1>1. UNCHANGED <<state, at, order, requeues, ran>> /\ SlurmInv'
  BY DEF Poll, slurm, SlurmInv
<1> DEFINE p == PollOf(ok)
<1>2. /\ pendingObs' = [j \in (DOMAIN Remember(p)) \ Launched(p) |-> Remember(p)[j]]
      /\ inFlight' = [j \in (DOMAIN Flying(p)) \ Vanished(p) |-> Flying(p)[j]]
      /\ blind' = IF ok THEN blind ELSE blind + 1
  BY DEF Poll
<1>3. PICK over \in Bijection(1 .. Cardinality(Vanished(p)), Vanished(p)) :
        log' = log \o [k \in DOMAIN over |-> Row(p, over[k])]
  BY DEF Poll
<1> DEFINE n == Cardinality(Vanished(p))
           f == [k \in 1 .. n |-> Row(p, over[k])]
<1>4. /\ \A j \in DOMAIN Remember(p) : Remember(p)[j] # NoMask /\ j \in Range(Remember(p)[j].window)
      /\ \A j \in DOMAIN Flying(p) : Recorded(j, Flying(p)[j].obs, Flying(p)[j].act) /\ state[j] # "new"
  BY PollsRecord
<1>5. \A j \in Jobs : ok /\ j \notin p.listed => state[j] \in {"new", "gone"}
  BY DEF PollOf
<1>6. ok \/ blind' # 0
  BY <1>2 DEF DaemonInv
<1>7. blind' \in Nat /\ (blind' = 0 => blind = 0)
  BY <1>2 DEF DaemonInv
<1> HIDE DEF p
<1>8. over \in [1 .. n -> Vanished(p)] /\ n \in Nat
  <2>1. Vanished(p) \subseteq Jobs
    BY <1>4 DEF Vanished, Recorded
  <2>2. IsFiniteSet(Jobs)
    <3>1. 1 \in Int /\ NJobs \in Int
      BY DaemonAssumption
    <3> QED
      BY <3>1, FS_Interval DEF Jobs
  <2>3. IsFiniteSet(Vanished(p))
    BY <2>1, <2>2, FS_Subset
  <2>4. n \in Nat
    BY <2>3, FS_CardinalityType
  <2>5. over \in [1 .. n -> Vanished(p)]
    BY <1>3 DEF Bijection, Injection, Surjection
  <2> QED
    BY <2>4, <2>5
<1>9. ASSUME NEW i \in 1 .. n
      PROVE  /\ Recorded(f[i].job, f[i].obs, f[i].act)
             /\ blind' = 0 => state[f[i].job] = "gone"
  <2>1. over[i] \in DOMAIN Flying(p) /\ over[i] \notin p.listed
    BY <1>8 DEF Vanished
  <2>2. /\ f[i].job = over[i] /\ f[i].obs = Flying(p)[over[i]].obs
        /\ f[i].act = Flying(p)[over[i]].act
    BY DEF Row
  <2>3. Recorded(over[i], Flying(p)[over[i]].obs, Flying(p)[over[i]].act) /\ state[over[i]] # "new"
    BY <1>4, <2>1
  <2>4. over[i] \in Jobs
    BY <2>3 DEF Recorded
  <2>5. blind' = 0 => state[over[i]] = "gone"
    BY <1>5, <1>6, <2>1, <2>3, <2>4
  <2> QED
    BY <2>2, <2>3, <2>5
<1>10. log' = log \o f
  BY <1>3, <1>8
<1>11. f = [k \in 1 .. n |-> f[k]]
  OBVIOUS
<1> HIDE DEF f
<1>12. /\ log' \in Seq(Range(log'))
       /\ \A k \in DOMAIN log' : (\E i \in DOMAIN log : log'[k] = log[i]) \/ \E i \in 1 .. n : log'[k] = f[i]
  <2> DEFINE R == Range(log) \cup {f[i] : i \in 1 .. n}
  <2>1. log \in Seq(Range(log))
    BY DEF DaemonInv, LogInv
  <2>2. log \in Seq(R)
    <3>1. log \in [1 .. Len(log) -> Range(log)] /\ Len(log) \in Nat
      BY <2>1
    <3>2. log \in [1 .. Len(log) -> R]
      BY <3>1
    <3> QED
      BY <3>1, <3>2
  <2>3. f \in [1 .. n -> R] /\ n \in Nat
    BY <1>8, <1>11
  <2> HIDE DEF R, n
  <2>4. log' \in Seq(R)
    BY <1>10, <2>2, <2>3, RowsAdded
  <2>5. \A k \in DOMAIN log' : (\E i \in DOMAIN log : log'[k] = log[i]) \/ \E i \in 1 .. n : log'[k] = f[i]
    BY SMTT(30), <1>10, <2>2, <2>3, RowsAdded
  <2> QED
    BY <2>4, <2>5, OverItsElements
<1>13. \A k \in DOMAIN log' : /\ Recorded(log'[k].job, log'[k].obs, log'[k].act)
                              /\ blind' = 0 => state[log'[k].job] = "gone"
  <2> SUFFICES ASSUME NEW k \in DOMAIN log'
               PROVE  /\ Recorded(log'[k].job, log'[k].obs, log'[k].act)
                      /\ blind' = 0 => state[log'[k].job] = "gone"
    OBVIOUS
  <2>1. CASE \E i \in DOMAIN log : log'[k] = log[i]
    <3> PICK i \in DOMAIN log : log'[k] = log[i]
      BY <2>1
    <3>1. Recorded(log[i].job, log[i].obs, log[i].act) /\ (blind = 0 => state[log[i].job] = "gone")
      BY DEF DaemonInv, LogInv
    <3> QED
      BY <1>7, <3>1
  <2>2. CASE \E i \in 1 .. n : log'[k] = f[i]
    BY <1>9, <2>2
  <2> QED
    BY <1>12, <2>1, <2>2
<1>14. \A j \in DOMAIN pendingObs' : pendingObs'[j] # NoMask /\ j \in Range(pendingObs'[j].window)
  BY <1>2, <1>4
<1>15. \A j \in DOMAIN inFlight' : Recorded(j, inFlight'[j].obs, inFlight'[j].act) /\ state[j] # "new"
  BY <1>2, <1>4
<1>16. \A j, obs, act : Recorded(j, obs, act) => (j \in Jobs /\ obs # NoMask /\ act[1] \in DOMAIN obs.window
                                                 /\ obs.window[act[1]] = j /\ act[2] \in ran'[j])
  BY <1>1 DEF Recorded
<1>17. \A j \in DOMAIN inFlight' : Recorded(j, inFlight[j].obs, inFlight[j].act)' /\ state'[j] # "new"
  BY <1>1, <1>15, <1>16 DEF Recorded
<1>18. /\ \A k \in DOMAIN log' : Recorded(log[k].job, log[k].obs, log[k].act)'
       /\ \A k \in DOMAIN log' : blind' = 0 => state'[log'[k].job] = "gone"
  <2>1. \A k \in DOMAIN log' : Recorded(log[k].job, log[k].obs, log[k].act)'
    BY <1>13, <1>16 DEF Recorded
  <2>2. \A k \in DOMAIN log' : blind' = 0 => state'[log'[k].job] = "gone"
    BY <1>1, <1>13
  <2> QED
    BY <2>1, <2>2
<1>19. \A j \in DOMAIN pendingObs' : (pendingObs[j] # NoMask /\ j \in Range(pendingObs[j].window))'
  BY <1>14 DEF Range, NoMask
<1>20. (log \in Seq(Range(log)))'
  BY <1>12 DEF Range
<1>21. PendingInv'
  BY <1>19 DEF PendingInv
<1>22. InFlightInv'
  BY <1>17 DEF InFlightInv, Recorded
<1>23. LogInv'
  <2>1. (\A k \in DOMAIN log : Recorded(log[k].job, log[k].obs, log[k].act))'
    BY <1>18
  <2>2. (\A k \in DOMAIN log : blind = 0 => state[log[k].job] = "gone")'
    BY <1>18
  <2> QED
    BY <1>20, <2>1, <2>2 DEF LogInv
<1> QED
  BY <1>1, <1>7, <1>21, <1>22, <1>23 DEF DaemonInv

LEMMA DaemonStart == DaemonInit => SlurmInv /\ DaemonInv
<1> SUFFICES ASSUME DaemonInit PROVE SlurmInv /\ DaemonInv
  OBVIOUS
<1>1. SlurmInv
  BY DEF DaemonInit, SlurmInv
<1>2. pendingObs = <<>> /\ inFlight = <<>> /\ log = <<>> /\ blind = 0 /\ DOMAIN log = {}
      /\ DOMAIN pendingObs = {} /\ DOMAIN inFlight = {} /\ log \in Seq(Range(log))
  BY DEF DaemonInit
<1> QED
  BY <1>1, <1>2 DEF DaemonInv, PendingInv, InFlightInv, LogInv

LEMMA DaemonStep == SlurmInv /\ DaemonInv /\ [Next]_vars => (SlurmInv /\ DaemonInv)'
<1> SUFFICES ASSUME SlurmInv, DaemonInv, [Next]_vars PROVE SlurmInv' /\ DaemonInv'
  OBVIOUS
<1>1. CASE UNCHANGED <<slurm, daemon>>
  BY <1>1 DEF slurm, daemon, SlurmInv, DaemonInv, PendingInv, InFlightInv, LogInv, Recorded
<1>2. CASE Observe
  BY <1>2, SlurmStep, SlurmKeepsTheLog, PollStep DEF Observe
<1>3. UNCHANGED <<slurm, daemon>> \/ Observe
  BY DEF Next, vars, Load, JoinDemos
<1> QED
  BY <1>1, <1>2, <1>3

LEMMA DaemonInvariant == Spec => [](SlurmInv /\ DaemonInv)
<1>1. Init => SlurmInv /\ DaemonInv
  BY DaemonStart DEF Init
<1> QED
  BY <1>1, DaemonStep, PTL DEF Spec

\* However jobs start, end and are requeued between two polls, and whichever polls fail, a row
\* tells where its job ran and, without a failed poll, of a job that is over (run_daemon).
THEOREM LogTellsWhatHappened == Spec => []RowsTellWhatHappened
<1>1. DaemonInv => RowsTellWhatHappened
  BY DEF DaemonInv, LogInv, Recorded, RowsTellWhatHappened
<1> QED
  BY <1>1, DaemonInvariant, PTL

-----------------------------------------------------------------------------
(* Transitions stored one after the other *)

StoreStep(f, ring, ts, k) == IF k = 0 THEN ring ELSE Store(f[k - 1], ts[k], 1)

LEMMA FilledExists ==
  ASSUME NEW ring, NEW ts, NEW n \in Nat
  PROVE  \E f : f = [k \in 0 .. n |-> StoreStep(f, ring, ts, k)]
<1> DEFINE Good(f, k) == f = [h \in 0 .. n |-> f[h]] /\ \A h \in 0 .. k : f[h] = StoreStep(f, ring, ts, h)
           T == {k \in Nat : \E f : Good(f, k)}
<1>1. 0 \in T
  <2> DEFINE f == [h \in 0 .. n |-> ring]
  <2>1. f = [h \in 0 .. n |-> f[h]] /\ f[0] = ring
    OBVIOUS
  <2> HIDE DEF f
  <2>2. Good(f, 0)
    BY <2>1 DEF StoreStep
  <2> QED
    BY <2>2
<1>2. ASSUME NEW k \in 0 .. n - 1, k \in T
      PROVE  k + 1 \in T
  <2>1. PICK f : Good(f, k)
    BY <1>2
  <2> DEFINE g == [h \in 0 .. n |-> IF h = k + 1 THEN StoreStep(f, ring, ts, h) ELSE f[h]]
  <2>2. k + 1 \in 0 .. n /\ k \in Nat /\ 0 .. k + 1 \subseteq 0 .. n
    OBVIOUS
  <2>3. g = [h \in 0 .. n |-> g[h]] /\ g[k + 1] = StoreStep(f, ring, ts, k + 1)
        /\ \A h \in 0 .. k : h \in 0 .. n /\ g[h] = f[h]
    BY <2>2
  <2> HIDE DEF g
  <2>4. ASSUME NEW h \in 0 .. k + 1
        PROVE  StoreStep(g, ring, ts, h) = StoreStep(f, ring, ts, h)
    <3>1. CASE h = 0
      BY <3>1 DEF StoreStep
    <3>2. CASE h # 0
      <4>1. h - 1 \in 0 .. k
        BY <2>2, <3>2
      <4> QED
        BY <2>3, <3>2, <4>1 DEF StoreStep
    <3> QED
      BY <3>1, <3>2
  <2>5. ASSUME NEW h \in 0 .. k + 1
        PROVE  g[h] = StoreStep(g, ring, ts, h)
    <3>1. h = k + 1 \/ h \in 0 .. k
      BY <2>2
    <3> QED
      BY <2>1, <2>3, <2>4, <3>1
  <2>6. Good(g, k + 1)
    BY <2>3, <2>5
  <2> QED
    BY <2>2, <2>6
<1>3. T \in SUBSET Nat
  OBVIOUS
<1>4. n \in T
  <2> HIDE DEF T
  <2>1. 0 .. n \subseteq T
    BY <1>1, <1>2, <1>3, UpTo
  <2> QED
    BY <2>1
<1>5. PICK f : Good(f, n)
  BY <1>4
<1> QED
  BY <1>5

\* The ring after each of the transitions.
Fillings(f, ring, ts, n) ==
  Filled(ring, ts) = f[n] /\ f[0] = ring /\ \A k \in 1 .. n : f[k] = Store(f[k - 1], ts[k], 1)

LEMMA FilledIs ==
  ASSUME NEW ring, NEW ts, NEW n \in Nat, Len(ts) = n
  PROVE  \E f : Fillings(f, ring, ts, n)
<1> DEFINE f == CHOOSE g : g = [k \in 0 .. n |-> StoreStep(g, ring, ts, k)]
<1>1. Filled(ring, ts) = f[n]
  BY DEF Filled, StoreStep
<1>2. f = [k \in 0 .. n |-> StoreStep(f, ring, ts, k)]
  BY FilledExists
<1> HIDE DEF f
<1>3. \A k \in 0 .. n : f[k] = StoreStep(f, ring, ts, k)
  BY <1>2
<1>4. f[0] = ring
  BY <1>3 DEF StoreStep
<1>5. ASSUME NEW k \in 1 .. n
      PROVE  f[k] = Store(f[k - 1], ts[k], 1)
  <2>1. k \in 0 .. n /\ k # 0
    OBVIOUS
  <2> QED
    BY <1>3, <2>1 DEF StoreStep
<1> QED
  BY <1>1, <1>4, <1>5 DEF Fillings

\* A transition with the masks of its two observations.
Whole(x) == x.mask = x.obs /\ x.nextMask = x.next /\ x.obs # NoMask /\ x.next # NoMask

\* Such transitions change what they do not fit beside only into their like.
LEMMA FilledKeeps ==
  ASSUME NEW b, RingOk(b), NEW ts, NEW n \in Nat, Len(ts) = n, \A k \in 1 .. n : Whole(ts[k])
  PROVE  LET f == Filled(b, ts) IN
         /\ RingOk(f) /\ b.size <= f.size
         /\ \A i \in 0 .. f.size - 1 : Whole(f.slot[i]) \/ (i \in 0 .. b.size - 1 /\ f.slot[i] = b.slot[i])
         /\ n <= Capacity - b.size => \A i \in 0 .. b.size - 1 : f.slot[i] = b.slot[i]
<1> DEFINE P(f, k) ==
      /\ RingOk(f) /\ b.size <= f.size
      /\ \A i \in 0 .. f.size - 1 : Whole(f.slot[i]) \/ (i \in 0 .. b.size - 1 /\ f.slot[i] = b.slot[i])
      /\ n <= Capacity - b.size => f.size = b.size + k /\ \A i \in 0 .. b.size - 1 : f.slot[i] = b.slot[i]
<1>0. PICK f : Fillings(f, b, ts, n)
  BY FilledIs
<1>1. Filled(b, ts) = f[n] /\ f[0] = b /\ \A k \in 1 .. n : f[k] = Store(f[k - 1], ts[k], 1)
  BY <1>0 DEF Fillings
<1> DEFINE T == {k \in Nat : P(f[k], k)}
<1>2. Capacity \in Nat \ {0} /\ b.size \in Nat /\ b.size <= Capacity
  BY ReplayAssumption DEF RingOk
<1>3. 0 \in T
  BY <1>1, <1>2
<1>4. ASSUME NEW k \in 0 .. n - 1, k \in T
      PROVE  k + 1 \in T
  <2> DEFINE r == f[k]
             x == ts[k + 1]
             s == Store(r, x, 1)
  <2>1. k + 1 \in 1 .. n /\ (k + 1) - 1 = k /\ k \in Nat
    OBVIOUS
  <2>2. P(r, k) /\ f[k + 1] = s /\ Whole(x)
    BY <1>1, <1>4, <2>1
  <2> HIDE DEF r, x
  <2>3. Whole(Written(r, x, 1))
    BY <2>2 DEF Whole, Written, Kept
  <2>4. /\ RingOk(s) /\ r.size <= s.size
        /\ s.size = (IF r.size < Capacity THEN r.size + 1 ELSE r.size)
        /\ s.slot[r.idx] = Written(r, x, 1)
        /\ \A i \in Places : i # r.idx => s.slot[i] = r.slot[i]
        /\ \A i \in 0 .. s.size - 1 : i = r.idx \/ i \in 0 .. r.size - 1
    BY <2>2, StoreIs
  <2>5. r.size \in Nat /\ r.size <= Capacity /\ (r.size < Capacity => r.idx = r.size)
    BY <1>2, <2>2 DEF RingOk
  <2> HIDE DEF s
  <2>6. s.size \in Nat /\ s.size <= Capacity /\ 0 .. s.size - 1 \subseteq Places
    BY <1>2, <2>4 DEF RingOk, Places
  <2>7. b.size <= s.size
    <3>1. b.size <= r.size
      BY <2>2
    <3>2. r.size <= s.size
      BY <2>4
    <3> HIDE DEF P
    <3> QED
      BY <1>2, <2>5, <2>6, <3>1, <3>2
  <2>8. ASSUME NEW i \in 0 .. s.size - 1
        PROVE  Whole(s.slot[i]) \/ (i \in 0 .. b.size - 1 /\ s.slot[i] = b.slot[i])
    <3>1. CASE i = r.idx
      BY <2>3, <2>4, <3>1
    <3>2. CASE i # r.idx
      <4>1. i \in Places /\ i \in 0 .. r.size - 1
        BY <2>4, <2>6, <3>2
      <4>2. s.slot[i] = r.slot[i]
        BY <2>4, <3>2, <4>1
      <4> QED
        BY <2>2, <4>1, <4>2
    <3> QED
      BY <3>1, <3>2
  <2>9. ASSUME n <= Capacity - b.size
        PROVE  s.size = b.size + (k + 1) /\ \A i \in 0 .. b.size - 1 : s.slot[i] = b.slot[i]
    <3>1. r.size = b.size + k /\ \A i \in 0 .. b.size - 1 : r.slot[i] = b.slot[i]
      BY <2>2, <2>9
    <3>2. r.size < Capacity /\ r.idx = r.size
      BY <1>2, <2>1, <2>5, <2>9, <3>1
    <3>3. \A i \in 0 .. b.size - 1 : i \in Places /\ i # r.idx
      BY <1>2, <2>1, <3>1, <3>2 DEF Places
    <3>4. s.size = b.size + (k + 1)
      <4>1. s.size = r.size + 1 /\ r.size = b.size + k
        BY <2>4, <3>1, <3>2
      <4> QED
        BY <1>2, <2>1, <4>1
    <3> QED
      BY <2>4, <3>1, <3>3, <3>4
  <2>10. P(s, k + 1)
    BY <2>4, <2>7, <2>8, <2>9
  <2> HIDE DEF P
  <2> QED
    BY <2>1, <2>2, <2>10
<1>5. T \in SUBSET Nat
  OBVIOUS
<1>6. n \in T
  <2> HIDE DEF T
  <2>1. 0 .. n \subseteq T
    BY <1>3, <1>4, <1>5, UpTo
  <2> QED
    BY <2>1
<1>7. P(f[n], n)
  BY <1>6
<1> HIDE DEF T
<1> QED
  BY <1>1, <1>7

-----------------------------------------------------------------------------
(* Rows of the log in the ring *)

\* Where the ring holds what came back-many transitions before the last one.
Spot(idx, back) == IF back < idx THEN idx - 1 - back ELSE Capacity + idx - 1 - back

LEMMA SpotIs ==
  ASSUME NEW idx \in Places, NEW back \in Nat, back < Capacity
  PROVE  /\ Spot(idx, back) \in Places
         /\ Spot(Around(idx), 0) = idx
         /\ back + 1 < Capacity => Spot(Around(idx), back + 1) = Spot(idx, back) /\ Spot(idx, back) # idx
<1>1. Capacity \in Nat \ {0} /\ idx \in 0 .. Capacity - 1
  BY ReplayAssumption DEF Places
<1>2. Spot(idx, back) \in Places
  BY <1>1 DEF Spot, Places
<1>3. Spot(Around(idx), 0) = idx
  BY <1>1 DEF Spot, Around
<1>4. ASSUME back + 1 < Capacity
      PROVE  Spot(Around(idx), back + 1) = Spot(idx, back) /\ Spot(idx, back) # idx
  <2>1. CASE idx + 1 = Capacity
    BY <1>1, <1>4, <2>1 DEF Spot, Around
  <2>2. CASE idx + 1 # Capacity
    BY <1>1, <1>4, <2>2 DEF Spot, Around
  <2> QED
    BY <2>1, <2>2
<1> QED
  BY <1>2, <1>3, <1>4

OfRow(x, r) == x.obs = r.obs /\ x.next = r.next
OfRows(ts, rows, n) ==
  \A k \in 1 .. n : OfRow(ts[k], rows[k]) /\ ts[k].mask = ts[k].obs /\ ts[k].obs # NoMask

\* An empty ring holds the last rows that were stored in it, and nothing else.
LEMMA RowsFill ==
  ASSUME NEW b, RingOk(b), b.size = 0, NEW rows, NEW ts, NEW n \in Nat, Len(ts) = n,
         OfRows(ts, rows, n)
  PROVE  LET f == Filled(b, ts) IN
         /\ RingOk(f)
         /\ \A i \in 0 .. f.size - 1 : f.slot[i].mask = f.slot[i].obs /\ \E k \in 1 .. n : OfRow(f.slot[i], rows[k])
         /\ \A k \in 1 .. n : n - k < Capacity => \E i \in 0 .. f.size - 1 : OfRow(f.slot[i], rows[k])
<1> DEFINE P(f, m) ==
      /\ RingOk(f) /\ (f.size < Capacity => f.size = m)
      /\ \A i \in 0 .. f.size - 1 : f.slot[i].mask = f.slot[i].obs /\ \E k \in 1 .. m : OfRow(f.slot[i], rows[k])
      /\ \A k \in 1 .. m : m - k < Capacity => OfRow(f.slot[Spot(f.idx, m - k)], rows[k])
<1>0. PICK f : Fillings(f, b, ts, n)
  BY FilledIs
<1>1. Filled(b, ts) = f[n] /\ f[0] = b /\ \A k \in 1 .. n : f[k] = Store(f[k - 1], ts[k], 1)
  BY <1>0 DEF Fillings
<1> DEFINE T == {m \in Nat : P(f[m], m)}
<1>2. Capacity \in Nat \ {0}
  BY ReplayAssumption
<1>3. 0 \in T
  BY <1>1, <1>2
<1>4. ASSUME NEW m \in 0 .. n - 1, m \in T
      PROVE  m + 1 \in T
  <2> DEFINE r == f[m]
             x == ts[m + 1]
             s == Store(r, x, 1)
  <2>1. m + 1 \in 1 .. n /\ (m + 1) - 1 = m /\ m \in Nat
    OBVIOUS
  <2>2. P(r, m) /\ f[m + 1] = s /\ OfRow(x, rows[m + 1]) /\ x.mask = x.obs /\ x.obs # NoMask
    BY <1>1, <1>4, <2>1 DEF OfRows
  <2> HIDE DEF r, x
  <2> DEFINE w == Written(r, x, 1)
  <2>3. w.mask = w.obs /\ OfRow(w, rows[m + 1])
    BY <2>2 DEF Written, Kept, OfRow
  <2> HIDE DEF w
  <2>4. /\ RingOk(s) /\ r.size <= s.size
        /\ s.size = (IF r.size < Capacity THEN r.size + 1 ELSE r.size)
        /\ s.idx = Around(r.idx) /\ s.slot[r.idx] = w
        /\ \A i \in Places : i # r.idx => s.slot[i] = r.slot[i]
        /\ \A i \in 0 .. s.size - 1 : i = r.idx \/ i \in 0 .. r.size - 1
    BY <2>2, StoreIs DEF w
  <2>5. r.size \in Nat /\ r.size <= Capacity /\ r.idx \in Places /\ (r.size < Capacity => r.size = m)
    BY <1>2, <2>2 DEF RingOk
  <2> HIDE DEF s
  <2>6. 0 .. s.size - 1 \subseteq Places
    BY <1>2, <2>4 DEF RingOk, Places
  <2>7. s.size < Capacity => s.size = m + 1
    <3>1. s.size = (IF r.size < Capacity THEN r.size + 1 ELSE r.size)
      BY <2>4
    <3> QED
      BY <1>2, <2>1, <2>5, <3>1
  <2>8. ASSUME NEW i \in 0 .. s.size - 1
        PROVE  s.slot[i].mask = s.slot[i].obs /\ \E k \in 1 .. m + 1 : OfRow(s.slot[i], rows[k])
    <3>1. CASE i = r.idx
      BY <2>1, <2>3, <2>4, <3>1
    <3>2. CASE i # r.idx
      <4>1. i \in Places /\ i \in 0 .. r.size - 1
        BY <2>4, <2>6, <3>2
      <4>2. s.slot[i] = r.slot[i]
        BY <2>4, <3>2, <4>1
      <4>3. PICK k \in 1 .. m : OfRow(r.slot[i], rows[k])
        BY <2>2, <4>1
      <4>4. k \in 1 .. m + 1
        BY <2>1
      <4> QED
        BY <2>2, <4>1, <4>2, <4>3, <4>4
    <3> QED
      BY <3>1, <3>2
  <2>9. ASSUME NEW k \in 1 .. m + 1, m + 1 - k < Capacity
        PROVE  OfRow(s.slot[Spot(s.idx, m + 1 - k)], rows[k])
    <3>1. CASE k = m + 1
      <4>1. m + 1 - k = 0 /\ 0 \in Nat /\ 0 < Capacity
        BY <1>2, <2>1, <3>1
      <4>2. Spot(s.idx, m + 1 - k) = r.idx
        BY <2>4, <2>5, <4>1, SpotIs
      <4> QED
        BY <2>3, <2>4, <3>1, <4>2
    <3>2. CASE k # m + 1
      <4> DEFINE back == m - k
      <4>1. k \in 1 .. m /\ back \in Nat /\ back + 1 = m + 1 - k /\ back < Capacity /\ back + 1 < Capacity
        BY <1>2, <2>1, <2>9, <3>2
      <4>2. OfRow(r.slot[Spot(r.idx, back)], rows[k])
        BY <2>2, <4>1
      <4> HIDE DEF back
      <4>3. Spot(r.idx, back) \in Places /\ Spot(s.idx, back + 1) = Spot(r.idx, back) /\ Spot(r.idx, back) # r.idx
        BY <2>4, <2>5, <4>1, SpotIs
      <4>4. s.slot[Spot(r.idx, back)] = r.slot[Spot(r.idx, back)]
        BY <2>4, <4>3
      <4> QED
        BY <4>1, <4>2, <4>3, <4>4
    <3> QED
      BY <3>1, <3>2
  <2>10. P(s, m + 1)
    BY <2>4, <2>7, <2>8, <2>9
  <2> HIDE DEF P
  <2> QED
    BY <2>1, <2>2, <2>10
<1>5. T \in SUBSET Nat
  OBVIOUS
<1>6. n \in T
  <2> HIDE DEF T
  <2>1. 0 .. n \subseteq T
    BY <1>3, <1>4, <1>5, UpTo
  <2> QED
    BY <2>1
<1>7. P(f[n], n)
  BY <1>6
<1> DEFINE g == f[n]
<1>8. ASSUME NEW k \in 1 .. n, n - k < Capacity
      PROVE  \E i \in 0 .. g.size - 1 : OfRow(g.slot[i], rows[k])
  <2> DEFINE back == n - k
             i == Spot(g.idx, back)
  <2>1. back \in Nat /\ back < Capacity /\ back < n
    BY <1>8
  <2>2. g.idx \in Places /\ g.size \in 0 .. Capacity /\ (g.size < Capacity => g.idx = n /\ g.size = n)
    BY <1>7 DEF RingOk
  <2>3. i \in Places
    BY <2>1, <2>2, SpotIs
  <2>4. i \in 0 .. g.size - 1
    <3>1. CASE g.size = Capacity
      BY <2>3, <3>1 DEF Places
    <3>2. CASE g.size # Capacity
      <4>1. g.idx = n /\ g.size = n
        BY <1>2, <2>2, <3>2
      <4>2. i = n - 1 - back
        BY <2>1, <4>1 DEF Spot
      <4> QED
        BY <2>1, <4>1, <4>2
    <3> QED
      BY <3>1, <3>2
  <2>5. OfRow(g.slot[i], rows[k])
    BY <1>7, <1>8
  <2> QED
    BY <2>4, <2>5
<1>9. RingOk(g) /\ \A i \in 0 .. g.size - 1 : g.slot[i].mask = g.slot[i].obs /\ \E k \in 1 .. n : OfRow(g.slot[i], rows[k])
  BY <1>7
<1> HIDE DEF g
<1>10. Filled(b, ts) = g
  BY <1>1 DEF g
<1> QED
  BY <1>8, <1>9, <1>10

-----------------------------------------------------------------------------
(* The replay memory of each program *)

\* The ring and its tree; what a trainer stores; the deques of its environments, which the
\* collection of rollouts leaves empty.
RingInv   == RingOk(buf) /\ TreeInv(tree, buf.size)
StoredInv == program # "rlpd" => \A i \in 0 .. buf.size - 1 : Stretch(buf.slot[i])
StepsInv  == /\ DOMAIN env = Envs /\ DOMAIN deque = Envs
             /\ \A e \in Envs : IsObs(env[e]) /\ LastSteps(env[e], deque[e])
IdleInv   == program = "rollouts" => \A e \in Envs : deque[e] = <<>>
\* The fine-tuning starts with nothing, and then keeps rows of the log and whole transitions.
RowsInv   ==
  /\ loaded \in {"no", "log", "all"} /\ (program # "rlpd" => loaded = "no")
  /\ program = "rlpd" => /\ loaded = "no" => buf.size = 0
                         /\ \A i \in 0 .. buf.size - 1 :
                              /\ buf.slot[i].mask = buf.slot[i].obs
                              /\ (\E k \in DOMAIN log : Row1(i, k)) \/ buf.slot[i].nextMask = buf.slot[i].next
                         /\ loaded # "no" =>
                              \A k \in DOMAIN log : k \in Len(log) - Capacity + 1 .. Len(log) - 1 =>
                                \E i \in 0 .. buf.size - 1 : Row1(i, k)
MemoryInv == RingInv /\ StoredInv /\ StepsInv /\ IdleInv /\ RowsInv

LEMMA EmptyIsOk == RingOk(EmptyRing) /\ TreeInv(EmptyTree, 0)
<1>1. Capacity \in Nat \ {0}
  BY ReplayAssumption
<1>2. RingOk(EmptyRing)
  BY <1>1 DEF RingOk, EmptyRing, Places
<1>3. \A n \in TreeNodes : EmptyTree[n] = 0
  BY DEF EmptyTree
<1>4. EmptyTree \in [TreeNodes -> Nat]
  BY DEF EmptyTree
<1>5. TreeOk(EmptyTree)
  BY <1>3, <1>4, Children DEF TreeOk, AddsUp
<1>6. \A i \in Places : Leaf(EmptyTree, i) = 0
  BY <1>3, Children DEF Leaf
<1> QED
  BY <1>2, <1>5, <1>6 DEF TreeInv

LEMMA NoStepsYet ==
  ASSUME NEW o
  PROVE  LastSteps(o, <<>>)
<1>1. Before(o, 0) = <<>>
  BY DEF Before
<1>2. 0 \in 0 .. NSteps
  BY ReplayAssumption
<1> QED
  BY <1>1, <1>2 DEF LastSteps

LEMMA MemoryStart == Init => MemoryInv
<1> SUFFICES ASSUME Init PROVE MemoryInv
  OBVIOUS
<1>1. env = [e \in Envs |-> Obs(e, 1, 0)] /\ deque = [e \in Envs |-> <<>>] /\ buf = EmptyRing
      /\ tree = EmptyTree /\ loaded = "no" /\ log = <<>>
  BY DEF Init, TrainerInit, DaemonInit
<1>2. buf.size = 0
  BY <1>1 DEF EmptyRing
<1>3. RingInv
  BY <1>1, <1>2, EmptyIsOk DEF RingInv
<1>4. \A e \in Envs : IsObs(env[e])
  BY <1>1 DEF IsObs, At, Obs
<1>5. StepsInv
  BY <1>1, <1>4, NoStepsYet DEF StepsInv
<1>6. 0 .. buf.size - 1 = {}
  BY <1>2
<1> QED
  BY <1>1, <1>2, <1>3, <1>5, <1>6 DEF MemoryInv, StoredInv, IdleInv, RowsInv

LEMMA ReturnedIs ==
  ASSUME NEW o, IsObs(o), NEW done \in BOOLEAN
  PROVE  IsObs(Returned(o, done))
BY DEF IsObs, Returned, NextEpisode, Later, At, Obs

LEMMA RoundStep ==
  ASSUME MemoryInv, NEW n \in Nat, 1 .. n \subseteq Envs, NEW learns, Round(n, learns),
         program \in {"sim_train", "single"}, UNCHANGED <<program, loaded, log>>
  PROVE  MemoryInv'
<1>1. PICK over \in SUBSET (1 .. n) :
        /\ env' = [e \in Envs |-> IF e <= n THEN Returned(env[e], e \in over) ELSE env[e]]
        /\ LET m == Fed(n, over) IN
             /\ buf' = m.buf /\ deque' = m.deque
             /\ tree' \in Updated(learns, m.buf, m.tree)
  BY DEF Round
<1> DEFINE m == Fed(n, over)
<1>2. RingOk(buf) /\ TreeInv(tree, buf.size) /\ program # "rlpd" /\ program # "rollouts"
  BY DEF MemoryInv, RingInv
<1>3. MemInv(buf, tree)
  BY <1>2 DEF MemInv, MemoryInv, StoredInv
<1>4. /\ MemInv(m.buf, m.tree) /\ DOMAIN m.deque = Envs
      /\ \A e \in Envs : LastSteps(After(e, n, over), m.deque[e])
  BY <1>3, FedKeeps DEF MemoryInv, StepsInv
<1>5. buf' = m.buf /\ deque' = m.deque /\ tree' \in Updated(learns, m.buf, m.tree)
  BY <1>1
<1> HIDE DEF m
<1>6. RingOk(buf') /\ TreeInv(m.tree, m.buf.size) /\ m.buf.size \in Nat
  BY <1>4, <1>5 DEF MemInv, RingOk
<1>7. TreeInv(tree', buf'.size)
  BY <1>5, <1>6, PrioritiesUpdated
<1>8. RingInv'
  BY <1>6, <1>7 DEF RingInv
<1>9. \A i \in 0 .. buf'.size - 1 : Stretch(buf'.slot[i])
  BY <1>4, <1>5 DEF MemInv
<1>10. \A e \in Envs : env'[e] = After(e, n, over) /\ IsObs(env'[e])
  <2>1. ASSUME NEW e \in Envs
        PROVE  env'[e] = After(e, n, over) /\ IsObs(env'[e])
    <3>1. env'[e] = After(e, n, over)
      BY <1>1 DEF After
    <3>2. IsObs(env[e]) /\ (e \in over) \in BOOLEAN
      BY DEF MemoryInv, StepsInv
    <3>3. IsObs(Returned(env[e], e \in over))
      BY <3>2, ReturnedIs
    <3> QED
      BY <3>1, <3>2, <3>3 DEF After
  <2> QED
    BY <2>1
<1>11. StepsInv'
  <2>1. DOMAIN env' = Envs /\ DOMAIN deque' = Envs
    BY <1>1, <1>4, <1>5
  <2>2. \A e \in Envs : LastSteps(env'[e], deque'[e])
    BY <1>4, <1>5, <1>10
  <2> QED
    BY <1>10, <2>1, <2>2 DEF StepsInv
<1>12. StoredInv' /\ IdleInv'
  BY <1>2, <1>9 DEF StoredInv, IdleInv
<1>13. RowsInv'
  BY <1>2 DEF MemoryInv, RowsInv
<1> QED
  BY <1>8, <1>11, <1>12, <1>13 DEF MemoryInv

LEMMA StageStep ==
  ASSUME MemoryInv, NextStage, program = "sim_train", UNCHANGED <<program, loaded, log>>
  PROVE  MemoryInv'
<1>1. env' = [e \in Envs |-> NextEpisode(env[e])] /\ deque' = [e \in Envs |-> <<>>] /\ UNCHANGED <<buf, tree>>
  BY DEF NextStage
<1>2. \A e \in Envs : IsObs(env'[e]) /\ LastSteps(env'[e], deque'[e])
  <2>1. \A e \in Envs : IsObs(env'[e])
    BY <1>1 DEF IsObs, NextEpisode, At, Obs
  <2>2. \A e \in Envs : deque'[e] = <<>>
    BY <1>1
  <2> QED
    BY <2>1, <2>2, NoStepsYet
<1>3. StepsInv'
  BY <1>1, <1>2 DEF StepsInv
<1>4. RingInv' /\ StoredInv' /\ IdleInv' /\ RowsInv'
  BY <1>1 DEF MemoryInv, RingInv, StoredInv, IdleInv, RowsInv
<1> QED
  BY <1>3, <1>4 DEF MemoryInv

LEMMA RolloutStep ==
  ASSUME MemoryInv, Rollout, program = "rollouts", UNCHANGED <<program, loaded, log>>
  PROVE  MemoryInv'
<1>1. PICK done \in BOOLEAN :
        /\ buf' = Store(buf, Experience(env[1], done), 1)
        /\ env' = [env EXCEPT ![1] = Returned(@, done)]
        /\ UNCHANGED <<deque, tree>>
  BY DEF Rollout
<1> DEFINE o == env[1]
           x == Experience(o, done)
<1>2. 1 \in Envs
  BY Numbers
<1>3. IsObs(o) /\ DOMAIN env = Envs
  BY <1>2 DEF MemoryInv, StepsInv
<1>4. RingOk(buf) /\ TreeInv(tree, buf.size) /\ \A i \in 0 .. buf.size - 1 : Stretch(buf.slot[i])
  BY DEF MemoryInv, RingInv, StoredInv
<1>5. Stretch(Written(buf, x, 1))
  <2>1. o.step \in Nat /\ o = At(o, o.step)
    BY <1>3 DEF IsObs
  <2>2. x.obs = o /\ x.rew = <<o>> /\ x.next = At(o, o.step + 1) /\ x.mask = x.obs /\ x.nextMask = x.next
    <3> HIDE DEF o
    <3> QED
      BY <1>3, ExperienceIs
  <2> DEFINE s == o.step
  <2>3. s \in Int /\ \A h \in 1 .. 1 : s + h - 1 = s
    BY <2>1
  <2>4. <<o>> = [h \in 1 .. 1 |-> o]
    OBVIOUS
  <2>5. x.rew = [h \in 1 .. 1 |-> At(o, s + h - 1)]
    <3> HIDE DEF s, x
    <3>1. o = At(o, s)
      BY <2>1 DEF s
    <3> HIDE DEF o
    <3> QED
      BY <2>2, <2>3, <2>4, <3>1
  <2>6. x.obs = At(o, s) /\ x.next = At(o, s + 1)
    BY <2>1, <2>2
  <2> DEFINE g == 1
  <2>7. g \in Nat \ {0} /\ x.next = At(o, s + g) /\ x.rew = [h \in 1 .. g |-> At(o, s + h - 1)]
    BY <2>5, <2>6
  <2> HIDE DEF o, x, s, g
  <2>8. Stretch(Written(buf, x, g))
    BY <2>2, <2>3, <2>6, <2>7, WrittenIsStretch
  <2> QED
    BY <2>8 DEF g
<1> HIDE DEF o, x
<1>6. buf' = Store(buf, x, 1)
  BY <1>1 DEF o, x
<1>7. RingOk(buf') /\ buf.size <= buf'.size
  BY <1>4, <1>6, StoreIs
<1>8. \A i \in 0 .. buf'.size - 1 : Stretch(buf'.slot[i])
  BY <1>4, <1>5, <1>6, StretchesKept
<1>9. TreeInv(tree', buf'.size)
  <2>1. buf.size \in Nat /\ buf'.size \in Nat
    BY <1>4, <1>7 DEF RingOk
  <2>2. tree' = tree
    BY <1>1
  <2> QED
    BY <1>4, <1>7, <2>1, <2>2, TreeGrows
<1>10. \A e \in Envs : IsObs(env'[e])
  <2>1. \A e \in Envs : IsObs(env[e])
    BY DEF MemoryInv, StepsInv
  <2>2. IsObs(Returned(env[1], done))
    BY <1>2, <2>1, ReturnedIs
  <2> QED
    BY <1>1, <1>3, <2>1, <2>2
<1>11. \A e \in Envs : deque'[e] = <<>>
  BY <1>1 DEF MemoryInv, IdleInv
<1>12. StepsInv'
  <2>1. DOMAIN env' = Envs /\ DOMAIN deque' = Envs
    BY <1>1 DEF MemoryInv, StepsInv
  <2> QED
    BY <1>10, <1>11, <2>1, NoStepsYet DEF StepsInv
<1>13. RingInv' /\ StoredInv' /\ IdleInv'
  BY <1>7, <1>8, <1>9, <1>11 DEF RingInv, StoredInv, IdleInv
<1>14. RowsInv'
  BY DEF MemoryInv, RowsInv
<1> QED
  BY <1>12, <1>13, <1>14 DEF MemoryInv

LEMMA FirstOnes ==
  ASSUME NEW R, NEW s \in Seq(R), NEW m \in Nat, m <= Len(s)
  PROVE  Len(SubSeq(s, 1, m)) = m /\ \A k \in 1 .. m : SubSeq(s, 1, m)[k] = s[k]
OBVIOUS

\* The sequence f is the beginning of s, and no longer than room.
Begins(f, s, room) == Len(f) \in Nat /\ Len(f) <= room /\ \A k \in 1 .. Len(f) : f[k] = s[k]
OneToN(n, s) == s = [k \in 1 .. n |-> s[k]]

LEMMA FittingIs ==
  ASSUME NEW b, b.size \in 0 .. Capacity, NEW n \in Nat, NEW s, OneToN(n, s)
  PROVE  Len(Fitting(b, s)) <= n /\ Begins(Fitting(b, s), s, Capacity - b.size)
<1> DEFINE room == Capacity - b.size
           m == IF n < room THEN n ELSE room
           R == {s[k] : k \in 1 .. n}
<1>1. room \in Nat
  BY ReplayAssumption
<1>2. s \in [1 .. n -> R]
  <2>1. s = [k \in 1 .. n |-> s[k]]
    BY DEF OneToN
  <2> HIDE DEF R
  <2>2. \A k \in 1 .. n : s[k] \in R
    BY DEF R
  <2> QED
    BY <2>1, <2>2
<1>3. s \in Seq(R) /\ Len(s) = n
  <2> HIDE DEF R
  <2> QED
    BY <1>2
<1>4. Fitting(b, s) = SubSeq(s, 1, m)
  BY <1>3 DEF Fitting
<1> HIDE DEF room
<1>5. m \in Nat /\ m <= n /\ m <= room
  BY <1>1
<1> HIDE DEF m, R
<1>6. Len(Fitting(b, s)) = m /\ \A k \in 1 .. m : Fitting(b, s)[k] = s[k]
  <2>1. s \in Seq(R) /\ m \in Nat /\ m <= Len(s)
    BY <1>3, <1>5
  <2>2. Len(SubSeq(s, 1, m)) = m /\ \A k \in 1 .. m : SubSeq(s, 1, m)[k] = s[k]
    BY <2>1, FirstOnes
  <2> QED
    BY <1>4, <2>2
<1> QED
  BY <1>5, <1>6 DEF room, Begins

\* A demonstration is an episode of whole transitions.
LEMMA DemonstrationIs ==
  ASSUME NEW n \in Nat
  PROVE  /\ RingOk(Demonstration(n))
         /\ \A i \in 0 .. Demonstration(n).size - 1 : Whole(Demonstration(n).slot[i])
<1> DEFINE s == [k \in 1 .. n |-> Experience(Obs(1, 1, k - 1), k = n)]
           t == Fitting(EmptyRing, s)
<1>1. \A k \in 1 .. n : Whole(s[k])
  <2> SUFFICES ASSUME NEW k \in 1 .. n PROVE Whole(s[k])
    OBVIOUS
  <2> DEFINE o == Obs(1, 1, k - 1)
             done == k = n
             x == Experience(o, done)
  <2>1. IsObs(o) /\ done \in BOOLEAN
    BY DEF IsObs, At, Obs
  <2> HIDE DEF o, done
  <2>2. x.obs = o /\ x.next = Later(o) /\ x.mask = o /\ x.nextMask = Later(o) /\ o # NoMask /\ Later(o) # NoMask
    BY <2>1, ExperienceIs
  <2> HIDE DEF x
  <2>3. Whole(x)
    BY <2>2 DEF Whole
  <2> QED
    BY <2>3 DEF x, o, done
<1>2. OneToN(n, s)
  BY DEF OneToN
<1>3. EmptyRing.size = 0 /\ EmptyRing.size \in 0 .. Capacity
  BY ReplayAssumption DEF EmptyRing
<1> HIDE DEF s
<1>4. Len(t) <= n /\ Begins(t, s, Capacity - EmptyRing.size)
  BY <1>2, <1>3, FittingIs
<1> DEFINE m == Len(t)
<1>5. m \in Nat /\ Len(t) = m /\ \A k \in 1 .. m : Whole(t[k])
  BY <1>1, <1>4 DEF Begins
<1>6. Demonstration(n) = Filled(EmptyRing, t)
  BY DEF Demonstration, s
<1> HIDE DEF t, m
<1> DEFINE f == Filled(EmptyRing, t)
<1>7. RingOk(f) /\ \A i \in 0 .. f.size - 1 : Whole(f.slot[i]) \/ i \in 0 .. EmptyRing.size - 1
  BY <1>5, EmptyIsOk, FilledKeeps
<1> HIDE DEF f
<1>8. 0 .. EmptyRing.size - 1 = {}
  BY <1>3
<1> QED
  BY <1>6, <1>7, <1>8 DEF f

LEMMA LoadStep ==
  ASSUME MemoryInv, DaemonInv, Load
  PROVE  MemoryInv'
<1>1. PICK lines \in Lines : buf' = Filled(buf, [k \in 1 .. Len(lines) |-> FromRow(lines[k])])
  BY DEF Load
<1>2. /\ program = "rlpd" /\ loaded = "no" /\ loaded' = "log"
      /\ UNCHANGED <<program, env, deque, tree, log>>
  BY DEF Load, daemon
<1>3. log \in Seq(Range(log)) /\ \A k \in DOMAIN log : log[k].obs # NoMask
  BY DEF DaemonInv, LogInv, Recorded
<1> DEFINE n == Len(lines)
           ts == [k \in 1 .. n |-> FromRow(lines[k])]
<1>4. /\ n \in Nat /\ n <= Len(log) /\ Len(log) - 1 <= n /\ Len(log) \in Nat
      /\ \A k \in 1 .. n : lines[k] = log[k]
  <2>1. CASE lines = log
    BY <1>3, <2>1
  <2>2. CASE log # <<>> /\ lines = Front(log)
    <3>1. lines = SubSeq(log, 1, Len(log) - 1)
      BY <2>2 DEF Front
    <3>2. Len(log) - 1 \in Nat /\ Len(log) - 1 <= Len(log) /\ Len(log) \in Nat
      BY <1>3, <2>2
    <3>3. Len(lines) = Len(log) - 1 /\ \A k \in 1 .. Len(log) - 1 : lines[k] = log[k]
      BY <1>3, <3>1, <3>2, FirstOnes
    <3> QED
      BY <3>2, <3>3
  <2> QED
    BY <2>1, <2>2 DEF Lines
<1>5. DOMAIN log = 1 .. Len(log)
  BY <1>3
<1> HIDE DEF n
<1>6. Len(ts) = n
  BY <1>4
<1>7. OfRows(ts, log, n)
  <2>1. ASSUME NEW k \in 1 .. n
        PROVE  OfRow(ts[k], log[k]) /\ ts[k].mask = ts[k].obs /\ ts[k].obs # NoMask
    <3>1. ts[k] = FromRow(log[k]) /\ k \in DOMAIN log
      BY <1>4, <1>5
    <3>2. FromRow(log[k]).obs = log[k].obs /\ FromRow(log[k]).next = log[k].next /\ FromRow(log[k]).mask = log[k].obs
      BY DEF FromRow, Transition
    <3> HIDE DEF ts
    <3> QED
      BY <1>3, <3>1, <3>2 DEF OfRow
  <2> HIDE DEF ts
  <2> QED
    BY <2>1 DEF OfRows
<1>8. buf' = Filled(buf, ts)
  BY <1>1 DEF n
<1> HIDE DEF ts
<1>9. RingOk(buf) /\ buf.size = 0 /\ TreeInv(tree, buf.size)
  BY <1>2 DEF MemoryInv, RingInv, RowsInv
<1> DEFINE f == Filled(buf, ts)
<1>10. /\ RingOk(f)
       /\ \A i \in 0 .. f.size - 1 : f.slot[i].mask = f.slot[i].obs /\ \E k \in 1 .. n : OfRow(f.slot[i], log[k])
       /\ \A k \in 1 .. n : n - k < Capacity => \E i \in 0 .. f.size - 1 : OfRow(f.slot[i], log[k])
  BY <1>4, <1>6, <1>7, <1>9, RowsFill
<1> HIDE DEF f
<1>11. buf' = f
  BY <1>8 DEF f
<1>12. RingInv'
  <2>1. f.size \in Nat /\ buf.size \in Nat /\ buf.size <= f.size
    BY <1>9, <1>10 DEF RingOk
  <2>2. TreeInv(tree, f.size)
    BY <1>9, <2>1, TreeGrows
  <2> QED
    BY <1>2, <1>10, <1>11, <2>2 DEF RingInv
<1>13. \A i \in 0 .. f.size - 1 : \E k \in DOMAIN log : OfRow(f.slot[i], log[k])
  <2>1. \A k \in 1 .. n : k \in DOMAIN log
    BY <1>4, <1>5
  <2> QED
    BY <1>10, <2>1
<1>14. \A k \in DOMAIN log : k \in Len(log) - Capacity + 1 .. Len(log) - 1 =>
         \E i \in 0 .. f.size - 1 : OfRow(f.slot[i], log[k])
  <2> SUFFICES ASSUME NEW k \in DOMAIN log, k \in Len(log) - Capacity + 1 .. Len(log) - 1
               PROVE  \E i \in 0 .. f.size - 1 : OfRow(f.slot[i], log[k])
    OBVIOUS
  <2>1. k \in 1 .. n /\ n - k < Capacity
    BY <1>4, <1>5, ReplayAssumption
  <2> QED
    BY <1>10, <2>1
<1>15. RowsInv'
  <2>1. \A i, k : Row1(i, k)' <=> OfRow(f.slot[i], log[k])
    BY <1>2, <1>11 DEF Row1, OfRow
  <2>2. \A i \in 0 .. buf'.size - 1 : buf'.slot[i].mask = buf'.slot[i].obs /\ \E k \in DOMAIN log' : Row1(i, k)'
    BY <1>2, <1>10, <1>11, <1>13, <2>1
  <2>3. \A k \in DOMAIN log' : k \in Len(log') - Capacity + 1 .. Len(log') - 1 => \E i \in 0 .. buf'.size - 1 : Row1(i, k)'
    BY <1>2, <1>11, <1>14, <2>1
  <2> QED
    BY <1>2, <2>2, <2>3 DEF RowsInv
<1>16. StoredInv' /\ StepsInv' /\ IdleInv'
  BY <1>2 DEF MemoryInv, StoredInv, StepsInv, IdleInv
<1> QED
  BY <1>12, <1>15, <1>16 DEF MemoryInv

LEMMA JoinStep ==
  ASSUME MemoryInv, JoinDemos
  PROVE  MemoryInv'
<1>1. PICK h \in 1 .. EpisodeCap : LET demos == Demonstration(h) IN
        buf' = Filled(buf, Fitting(buf, [i \in 1 .. demos.size |-> demos.slot[i - 1]]))
  BY DEF JoinDemos
<1> DEFINE demos == Demonstration(h)
           n == demos.size
           s == [i \in 1 .. n |-> demos.slot[i - 1]]
           t == Fitting(buf, s)
<1>2. /\ loaded = "log" /\ loaded' = "all" /\ UNCHANGED <<program, env, deque, tree, log>>
  BY DEF JoinDemos, daemon
<1>3. program = "rlpd" /\ RingOk(buf) /\ TreeInv(tree, buf.size)
  BY <1>2 DEF MemoryInv, RingInv, RowsInv
<1>4. buf' = Filled(buf, t)
  BY <1>1
<1>5. RingOk(demos) /\ \A i \in 0 .. n - 1 : Whole(demos.slot[i])
  BY DemonstrationIs
<1> HIDE DEF demos
<1>6. n \in Nat
  BY <1>5 DEF RingOk
<1> HIDE DEF n
<1>7. OneToN(n, s)
  BY DEF OneToN
<1>8. \A i \in 1 .. n : Whole(s[i])
  BY <1>5, <1>6
<1> HIDE DEF s
<1>9. buf.size \in 0 .. Capacity /\ buf.size \in Nat
  BY <1>3, ReplayAssumption DEF RingOk
<1>10. Len(t) <= n /\ Begins(t, s, Capacity - buf.size)
  BY <1>6, <1>7, <1>9, FittingIs
<1> HIDE DEF t
<1> DEFINE m == Len(t)
           f == Filled(buf, t)
<1>11. m \in Nat /\ Len(t) = m /\ m <= Capacity - buf.size /\ \A k \in 1 .. m : Whole(t[k])
  <2>1. m \in Nat /\ m <= n /\ m <= Capacity - buf.size /\ \A k \in 1 .. m : t[k] = s[k]
    BY <1>10 DEF Begins
  <2> HIDE DEF m
  <2>2. \A k \in 1 .. m : k \in 1 .. n
    BY <1>6, <2>1
  <2>3. \A k \in 1 .. m : Whole(t[k])
    BY <1>8, <2>1, <2>2
  <2> QED
    BY <2>1, <2>3 DEF m
<1> HIDE DEF m
<1>12. /\ RingOk(f) /\ buf.size <= f.size
       /\ \A i \in 0 .. f.size - 1 : Whole(f.slot[i]) \/ (i \in 0 .. buf.size - 1 /\ f.slot[i] = buf.slot[i])
       /\ \A i \in 0 .. buf.size - 1 : f.slot[i] = buf.slot[i]
  BY <1>3, <1>11, FilledKeeps
<1> HIDE DEF f
<1>13. buf' = f
  BY <1>4 DEF f
<1>14. f.size \in Nat
  BY <1>12 DEF RingOk
<1>15. RingInv'
  <2>1. TreeInv(tree, f.size)
    BY <1>3, <1>9, <1>12, <1>14, TreeGrows
  <2> QED
    BY <1>2, <1>12, <1>13, <2>1 DEF RingInv
<1>16. \A i \in 0 .. buf.size - 1 : i \in 0 .. f.size - 1 /\ (\A k : Row1(i, k)' <=> Row1(i, k))
  <2>1. \A i \in 0 .. buf.size - 1 : i \in 0 .. f.size - 1
    BY <1>9, <1>12, <1>14
  <2>2. \A i \in 0 .. buf.size - 1 : buf'.slot[i] = buf.slot[i]
    BY <1>12, <1>13
  <2>3. ASSUME NEW i \in 0 .. buf.size - 1, NEW k
        PROVE  Row1(i, k)' <=> Row1(i, k)
    BY <1>2, <2>2 DEF Row1
  <2> QED
    BY <2>1, <2>3
<1>17. ASSUME NEW i \in 0 .. f.size - 1
       PROVE  /\ buf'.slot[i].mask = buf'.slot[i].obs
              /\ (\E k \in DOMAIN log : Row1(i, k)') \/ buf'.slot[i].nextMask = buf'.slot[i].next
  <2>1. CASE Whole(f.slot[i])
    BY <1>13, <2>1 DEF Whole
  <2>2. CASE i \in 0 .. buf.size - 1 /\ f.slot[i] = buf.slot[i]
    <3>1. /\ buf.slot[i].mask = buf.slot[i].obs
          /\ (\E k \in DOMAIN log : Row1(i, k)) \/ buf.slot[i].nextMask = buf.slot[i].next
      BY <1>3, <2>2 DEF MemoryInv, RowsInv
    <3>2. \A k : Row1(i, k)' <=> Row1(i, k)
      BY <1>16, <2>2
    <3> QED
      BY <1>13, <2>2, <3>1, <3>2
  <2> QED
    BY <1>12, <2>1, <2>2
<1>18. ASSUME NEW k \in DOMAIN log, k \in Len(log) - Capacity + 1 .. Len(log) - 1
       PROVE  \E i \in 0 .. f.size - 1 : Row1(i, k)'
  <2>1. PICK i \in 0 .. buf.size - 1 : Row1(i, k)
    BY <1>2, <1>3, <1>18 DEF MemoryInv, RowsInv
  <2> QED
    BY <1>16, <2>1
<1>19. RowsInv'
  <2>1. \A i \in 0 .. buf'.size - 1 :
          /\ buf'.slot[i].mask = buf'.slot[i].obs
          /\ (\E k \in DOMAIN log' : Row1(i, k)') \/ buf'.slot[i].nextMask = buf'.slot[i].next
    BY <1>2, <1>13, <1>17
  <2>2. \A k \in DOMAIN log' : k \in Len(log') - Capacity + 1 .. Len(log') - 1 => \E i \in 0 .. buf'.size - 1 : Row1(i, k)'
    BY <1>2, <1>13, <1>18
  <2> QED
    BY <1>2, <1>3, <2>1, <2>2 DEF RowsInv
<1>20. StoredInv' /\ StepsInv' /\ IdleInv'
  BY <1>2, <1>3 DEF MemoryInv, StoredInv, StepsInv, IdleInv
<1> QED
  BY <1>15, <1>19, <1>20 DEF MemoryInv

\* The daemon writes the log before the fine-tuning reads it.
LEMMA ObserveStep ==
  ASSUME MemoryInv, program = "rlpd", loaded = "no", UNCHANGED <<program, loaded, trainer>>
  PROVE  MemoryInv'
<1>1. UNCHANGED <<env, deque, buf, tree>>
  BY DEF trainer
<1>2. buf.size = 0 /\ 0 .. buf.size - 1 = {}
  BY DEF MemoryInv, RowsInv
<1>3. RowsInv'
  BY <1>1, <1>2 DEF RowsInv
<1>4. RingInv' /\ StoredInv' /\ StepsInv' /\ IdleInv'
  BY <1>1 DEF MemoryInv, RingInv, StoredInv, StepsInv, IdleInv
<1> QED
  BY <1>3, <1>4 DEF MemoryInv

LEMMA QuietStep ==
  ASSUME MemoryInv, UNCHANGED <<program, loaded, trainer, log>>
  PROVE  MemoryInv'
<1>1. UNCHANGED <<env, deque, buf, tree>>
  BY DEF trainer
<1>2. RowsInv'
  BY <1>1 DEF MemoryInv, RowsInv, Row1
<1>3. RingInv' /\ StoredInv' /\ StepsInv' /\ IdleInv'
  BY <1>1 DEF MemoryInv, RingInv, StoredInv, StepsInv, IdleInv
<1> QED
  BY <1>2, <1>3 DEF MemoryInv

LEMMA MemoryStep == DaemonInv /\ MemoryInv /\ [Next]_vars => MemoryInv'
<1> SUFFICES ASSUME DaemonInv, MemoryInv, [Next]_vars PROVE MemoryInv'
  OBVIOUS
<1>1. ASSUME program = "sim_train", Train, UNCHANGED <<program, loaded, slurm, daemon, vector>>
      PROVE  MemoryInv'
  <2>1. UNCHANGED <<program, loaded, log>>
    BY <1>1 DEF daemon
  <2>2. CASE Collect
    <3>1. Round(NumEnvs, (step' \div NumEnvs) % UpdateEvery = 0)
      BY <2>2 DEF Collect
    <3>2. NumEnvs \in Nat /\ 1 .. NumEnvs \subseteq Envs /\ program \in {"sim_train", "single"}
      BY <1>1, Numbers
    <3> DEFINE learns == (step' \div NumEnvs) % UpdateEvery = 0
    <3> HIDE DEF learns
    <3>3. Round(NumEnvs, learns)
      BY <3>1 DEF learns
    <3> QED
      BY <2>1, <3>2, <3>3, RoundStep
  <2>3. CASE NextStage
    BY <1>1, <2>1, <2>3, StageStep
  <2> QED
    BY <1>1, <2>2, <2>3 DEF Train
<1>2. ASSUME program = "single", CollectSingle, UNCHANGED <<program, loaded, slurm, daemon, vector>>
      PROVE  MemoryInv'
  <2>1. UNCHANGED <<program, loaded, log>>
    BY <1>2 DEF daemon
  <2>2. 1 \in Nat /\ 1 .. 1 \subseteq Envs /\ program \in {"sim_train", "single"}
    BY <1>2, Numbers
  <2> DEFINE learns == step % UpdateEvery = 0
  <2> HIDE DEF learns
  <2>3. Round(1, learns)
    BY <1>2 DEF CollectSingle, learns
  <2> QED
    BY <2>1, <2>2, <2>3, RoundStep
<1>3. ASSUME program = "rollouts", Rollout, UNCHANGED <<program, loaded, slurm, daemon, vector>>
      PROVE  MemoryInv'
  <2>1. UNCHANGED <<program, loaded, log>>
    BY <1>3 DEF daemon
  <2> QED
    BY <1>3, <2>1, RolloutStep
<1>4. CASE program = "rlpd" /\ loaded = "no" /\ Observe /\ UNCHANGED <<program, loaded, trainer, vector>>
  BY <1>4, ObserveStep
<1>5. CASE VectorNext /\ UNCHANGED <<program, loaded, trainer, slurm, daemon>>
  BY <1>5, QuietStep DEF daemon
<1>6. CASE UNCHANGED vars
  BY <1>6, QuietStep DEF vars, daemon
<1>7. CASE Load
  BY <1>7, LoadStep
<1>8. CASE JoinDemos
  BY <1>8, JoinStep
<1> QED
  BY <1>1, <1>2, <1>3, <1>4, <1>5, <1>6, <1>7, <1>8 DEF Next

LEMMA MemoryInvariant == Spec => []MemoryInv
<1>1. Init => MemoryInv
  BY MemoryStart
<1>2. DaemonInv /\ DaemonInv' /\ MemoryInv /\ [Next]_vars => MemoryInv'
  BY MemoryStep
<1> QED
  BY <1>1, <1>2, DaemonInvariant, PTL DEF Spec

\* For every capacity of the buffer, power of two or not, and every history of priorities: the sum
\* tree adds up, and whatever value is drawn leads to a stored transition of positive priority
\* (SumTree, PrioritizedReplayBuffer).
THEOREM DrawsFindExperience == Spec => []SamplesAreStored
<1>1. MemoryInv => SamplesAreStored
  <2>1. RingInv => TreeInv(tree, buf.size) /\ buf.size \in Nat
    BY DEF RingInv, RingOk
  <2> QED
    BY <2>1, TreeIsSound DEF MemoryInv
<1> QED
  BY <1>1, MemoryInvariant, PTL

\* For every number of environments, length of the returns and capacity, and whenever episodes
\* end: the replay memory holds whole stretches of one episode, or rows of the log with their
\* masks that no demonstration has pushed out (Transition, ReplayBuffer.add, _flush_nstep, main of
\* rlpd_finetune.py).
THEOREM MemoryIsWhole == Spec => []MemoryIsSound
<1>1. MemoryInv => MemoryIsSound
  <2> SUFFICES ASSUME MemoryInv PROVE MemoryIsSound
    OBVIOUS
  <2>1. CASE program # "rlpd"
    <3>1. \A i \in 0 .. buf.size - 1 : Stretch(buf.slot[i])
      BY <2>1 DEF MemoryInv, StoredInv
    <3>2. StoredStretchesAreWhole
      BY <3>1 DEF StoredStretchesAreWhole, Stretch
    <3> QED
      BY <2>1, <3>2 DEF MemoryIsSound
  <2>2. CASE program = "rlpd"
    BY <2>2 DEF MemoryInv, RowsInv, MemoryIsSound
  <2> QED
    BY <2>1, <2>2
<1> QED
  BY <1>1, MemoryInvariant, PTL
=============================================================================
