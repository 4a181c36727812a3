------------------------ MODULE ClusterElectionProofs ------------------------
(***************************************************************************)
(* Two replicas are elected in one epoch only when one of them counted a   *)
(* late vote or a master forgot a vote in a crash, for any number of       *)
(* masters, replicas, elections, crashes and restarts.                     *)
(*                                                                         *)
(* The argument: a master's epoch never falls behind its last vote, in     *)
(* memory or in nodes.conf, so each vote is of a later epoch than those    *)
(* before that it remembers, and it votes again in an epoch only when a    *)
(* crash took the first vote; and any two majorities of the masters share  *)
(* a master.                                                               *)
(***************************************************************************)
EXTENDS ClusterElection, FiniteSetTheorems, TLAPS

\* All votes that exist: on their way, counted, or part of an election won.
Cast ==
    {a \in Votes : \/ a \in acks
                   \/ \E r \in Replicas : a \in auth[r].votes
                   \/ \E w \in elected : a \in w.votes}

\* A master's epoch never falls behind its last vote, in memory or in
\* nodes.conf, and nodes.conf is never ahead of memory.
EpochsOrdered ==
    \A n \in Nodes : /\ lastVoteEpoch[n] <= currentEpoch[n]
                     /\ conf[n].vote <= conf[n].epoch
                     /\ conf[n].vote <= lastVoteEpoch[n]
                     /\ conf[n].epoch <= currentEpoch[n]

\* The vote a is one its master lost in a crash.
Lost(a) == [from |-> a.from, epoch |-> a.epoch] \in forgotten

\* No vote is later than its master's last one, as far as the master knows.
VotesPast == \A a \in Cast : a.epoch <= lastVoteEpoch[a.from] \/ Lost(a)

\* A master votes for one replica in an epoch, unless a crash took a vote.
VotesOnce ==
    \A a, b \in Cast :
        a.from = b.from /\ a.epoch = b.epoch => a.to = b.to \/ Lost(a)

\* A replica counts the votes given to it.
VotesOwn ==
    /\ \A r \in Replicas : \A a \in auth[r].votes : a.to = r
    /\ \A w \in elected : \A a \in w.votes : a.to = w.node

\* An election is won with a majority.
Majority == \A w \in elected : Cardinality(w.votes) >= Quorum

IInv == TypeOK /\ EpochsOrdered /\ VotesPast /\ VotesOnce /\ VotesOwn /\ Majority

\* MaxOf on the epochs.
LEMMA MaxOfFacts ==
  ASSUME NEW a \in Nat, NEW b \in Nat
  PROVE  MaxOf(a, b) \in Nat /\ MaxOf(a, b) >= a /\ MaxOf(a, b) >= b
BY DEF MaxOf

\* A vote is of a later epoch than the last one: the guard excludes equality.
LEMMA LaterVote ==
  ASSUME NEW last \in Nat, NEW current \in Nat, NEW e \in Nat,
         last <= current, e >= current, last # e
  PROVE  e > last
OBVIOUS

\* The voters of one epoch are as many as their votes for one replica.
LEMMA VotersCount ==
  ASSUME NEW V \in SUBSET Votes, NEW r, NEW e, IsFiniteSet(Masters),
         \A a \in V : a.to = r /\ a.epoch = e
  PROVE  LET S == {a.from : a \in V}
         IN  /\ S \subseteq Masters
             /\ Cardinality(V) = Cardinality(S)
<1> DEFINE S == {a.from : a \in V}
<1> DEFINE f == [m \in S |-> [from |-> m, to |-> r, epoch |-> e]]
<1>1. S \subseteq Masters
  BY DEF Votes
<1>2. IsFiniteSet(S)
  BY <1>1, FS_Subset
<1>3. \A a \in V : a = [from |-> a.from, to |-> r, epoch |-> e]
  BY DEF Votes
<1>4. f \in [S -> V]
  BY <1>3
<1>5. \A m, n \in S : f[m] = f[n] => m = n
  OBVIOUS
<1>6. \A a \in V : \E m \in S : f[m] = a
  BY <1>3
<1>7. f \in Bijection(S, V)
  BY Zenon, <1>4, <1>5, <1>6 DEF Bijection, Injection, Surjection, IsInjective
<1>8. ExistsBijection(S, V)
  BY <1>7 DEF ExistsBijection
<1> QED
  BY <1>1, <1>2, <1>8, FS_Bijection

\* Two majorities of the votes of one epoch have a voter in common.
LEMMA MajoritiesMeet ==
  ASSUME NEW V \in SUBSET Votes, NEW W \in SUBSET Votes, NEW q, NEW r, NEW e,
         IsFiniteSet(Masters),
         \A a \in V : a.to = q /\ a.epoch = e,
         \A a \in W : a.to = r /\ a.epoch = e,
         Cardinality(V) >= Quorum, Cardinality(W) >= Quorum
  PROVE  \E a \in V, b \in W : a.from = b.from
<1> DEFINE S == {a.from : a \in V}
<1> DEFINE T == {a.from : a \in W}
<1>1. S \subseteq Masters /\ Cardinality(V) = Cardinality(S)
  BY Zenon, VotersCount
<1>2. T \subseteq Masters /\ Cardinality(W) = Cardinality(T)
  BY Zenon, VotersCount
<1>3. Cardinality(Masters) \in Nat /\ Cardinality(S) \in Nat /\ Cardinality(T) \in Nat
  BY <1>1, <1>2, FS_Subset, FS_CardinalityType
<1>4. Cardinality(S) + Cardinality(T) > Cardinality(Masters)
  BY <1>1, <1>2, <1>3 DEF Quorum
<1>5. S \cap T # {}
  BY <1>1, <1>2, <1>4, FS_MajoritiesIntersect
<1> QED
  BY <1>5

-----------------------------------------------------------------------------
\* The types: TypeOK is kept by every step.
LEMMA TypeStep ==
  ASSUME TypeOK, [Next]_vars
  PROVE  TypeOK'
<1> USE DEF TypeOK
<1>1. ASSUME NEW r \in Replicas, Retry(r)
      PROVE  TypeOK'
  BY <1>1 DEF Retry
<1>2. ASSUME NEW r \in Replicas, StartElection(r)
      PROVE  TypeOK'
  <2>1. r \in Nodes /\ currentEpoch[r] + 1 \in Nat
    BY DEF Nodes
  <2>2. \A m \in Masters :
          [from |-> r, to |-> m, epoch |-> currentEpoch[r] + 1] \in Requests
    BY <2>1 DEF Requests
  <2> QED
    BY <1>2, <2>1, <2>2 DEF StartElection
<1>3. ASSUME NEW r \in Replicas, Win(r)
      PROVE  TypeOK'
  <2>1. r \in Nodes /\ currentEpoch[r] \in Nat
    BY DEF Nodes
  <2> QED
    BY <1>3, <2>1 DEF Win, Config
<1>4. ASSUME NEW q \in requests, ReceiveRequest(q)
      PROVE  TypeOK'
  <2> DEFINE m == q.to
  <2> DEFINE e == MaxOf(currentEpoch[m], q.epoch)
  <2>0. m \in Masters /\ m \in Nodes /\ q.epoch \in Nat /\ q.from \in Replicas
    BY DEF Nodes, Requests
  <2>1. m \in Nodes /\ e \in Nat /\ q.from \in Replicas
    BY Zenon, <2>0, MaxOfFacts
  <2>2. [from |-> m, to |-> q.from, epoch |-> e] \in Votes
    BY <2>0, <2>1 DEF Votes
  <2> HIDE DEF e, m
  <2> QED
    BY <1>4, <2>1, <2>2 DEF ReceiveRequest, GiveVote, e, m
<1>5. ASSUME NEW a \in acks, ReceiveAck(a)
      PROVE  TypeOK'
  <2>1. a.to \in Replicas /\ a.to \in Nodes /\ a.epoch \in Nat
    BY DEF Nodes, Votes
  <2>2. MaxOf(currentEpoch[a.to], a.epoch) \in Nat
    BY Zenon, <2>1, MaxOfFacts
  <2>3. auth[a.to].votes \cup (IF Counts(a) THEN {a} ELSE {}) \in SUBSET Votes
    BY <2>1
  <2>4. auth' \in [Replicas -> [sent : BOOLEAN, epoch : Nat, votes : SUBSET Votes]]
    BY <1>5, <2>1, <2>3 DEF ReceiveAck
  <2> QED
    BY <1>5, <2>1, <2>2, <2>4 DEF ReceiveAck
<1>6. ASSUME NEW n \in Nodes, NEW e \in 1 .. MaxEpoch, LearnEpoch(n, e)
      PROVE  TypeOK'
  BY <1>6, ElectionAssumption DEF LearnEpoch
<1>7. ASSUME NEW n \in Nodes, Save(n)
      PROVE  TypeOK'
  BY <1>7 DEF Save, Config
<1>8. ASSUME NEW n \in Nodes, Restart(n)
      PROVE  TypeOK'
  <2>1. auth' \in [Replicas -> [sent : BOOLEAN, epoch : Nat, votes : SUBSET Votes]]
    BY <1>8 DEF Restart, NoElection
  <2>2. conf[n].epoch \in Nat /\ conf[n].vote \in Nat /\ lastVoteEpoch[n] \in Nat
    OBVIOUS
  <2>3. forgotten' \subseteq [from : Nodes, epoch : Nat]
    BY <1>8, <2>2 DEF Restart
  <2> QED
    BY <1>8, <2>1, <2>2, <2>3 DEF Restart
<1>9. CASE UNCHANGED vars
  BY <1>9 DEF vars
<1> QED
  BY <1>1, <1>2, <1>3, <1>4, <1>5, <1>6, <1>7, <1>8, <1>9 DEF Next, TypeOK

\* No step takes a node's epoch behind its last vote, in memory or in
\* nodes.conf: the two are saved and restored together.
LEMMA EpochsStep ==
  ASSUME TypeOK, EpochsOrdered, [Next]_vars
  PROVE  EpochsOrdered'
<1> USE DEF TypeOK, EpochsOrdered
<1>0. Masters \subseteq Nodes /\ Replicas \subseteq Nodes
  BY DEF Nodes
<1>1. ASSUME NEW r \in Replicas, Retry(r)
      PROVE  EpochsOrdered'
  BY <1>1 DEF Retry
<1>2. ASSUME NEW r \in Replicas, StartElection(r)
      PROVE  EpochsOrdered'
  BY <1>0, <1>2 DEF StartElection
<1>3. ASSUME NEW r \in Replicas, Win(r)
      PROVE  EpochsOrdered'
  BY <1>0, <1>3 DEF Win, Config
<1>4. ASSUME NEW q \in requests, ReceiveRequest(q)
      PROVE  EpochsOrdered'
  <2> DEFINE m == q.to
  <2> DEFINE e == MaxOf(currentEpoch[m], q.epoch)
  <2>0. m \in Nodes /\ q.epoch \in Nat
    BY <1>0 DEF Requests
  <2>1. e \in Nat /\ e >= currentEpoch[m]
    BY Zenon, <2>0, MaxOfFacts
  <2>2. currentEpoch' = [currentEpoch EXCEPT ![m] = e] /\ conf' = conf
    BY <1>4 DEF ReceiveRequest
  <2>3. \/ lastVoteEpoch' = lastVoteEpoch
        \/ lastVoteEpoch' = [lastVoteEpoch EXCEPT ![m] = e]
    BY <1>4 DEF ReceiveRequest, GiveVote
  <2> HIDE DEF e, m
  <2> QED
    BY <2>0, <2>1, <2>2, <2>3
<1>5. ASSUME NEW a \in acks, ReceiveAck(a)
      PROVE  EpochsOrdered'
  <2>0. a.to \in Nodes /\ a.epoch \in Nat
    BY <1>0 DEF Votes
  <2>1. /\ MaxOf(currentEpoch[a.to], a.epoch) \in Nat
        /\ MaxOf(currentEpoch[a.to], a.epoch) >= currentEpoch[a.to]
    BY Zenon, <2>0, MaxOfFacts
  <2>2. /\ currentEpoch' = [currentEpoch EXCEPT ![a.to] = MaxOf(@, a.epoch)]
        /\ lastVoteEpoch' = lastVoteEpoch /\ conf' = conf
    BY <1>5 DEF ReceiveAck
  <2> QED
    BY <2>0, <2>1, <2>2
<1>6. ASSUME NEW n \in Nodes, NEW e \in 1 .. MaxEpoch, LearnEpoch(n, e)
      PROVE  EpochsOrdered'
  BY <1>6, ElectionAssumption DEF LearnEpoch
<1>7. ASSUME NEW n \in Nodes, Save(n)
      PROVE  EpochsOrdered'
  BY <1>7 DEF Save, Config
<1>8. ASSUME NEW n \in Nodes, Restart(n)
      PROVE  EpochsOrdered'
  BY <1>8 DEF Restart
<1>9. CASE UNCHANGED vars
  BY <1>9 DEF vars
<1> QED
  BY <1>1, <1>2, <1>3, <1>4, <1>5, <1>6, <1>7, <1>8, <1>9 DEF Next

-----------------------------------------------------------------------------
\* A step adds no vote, or one of a master that gives it in a later epoch than
\* the last one it remembers; and a master that restarts without some of its
\* votes has these in forgotten.
LEMMA CastStep ==
  ASSUME TypeOK, EpochsOrdered, [Next]_vars
  PROVE  \/ /\ Cast' \subseteq Cast /\ forgotten \subseteq forgotten'
            /\ \A m \in Masters, e \in Nat :
                 e <= lastVoteEpoch[m] =>
                   \/ e <= lastVoteEpoch'[m]
                   \/ [from |-> m, epoch |-> e] \in forgotten'
         \/ \E m \in Masters, r \in Replicas, e \in Nat :
              /\ e > lastVoteEpoch[m] /\ forgotten' = forgotten
              /\ lastVoteEpoch' = [lastVoteEpoch EXCEPT ![m] = e]
              /\ Cast' \subseteq Cast \cup {[from |-> m, to |-> r, epoch |-> e]}
<1> DEFINE Same == /\ Cast' \subseteq Cast /\ forgotten' = forgotten
                   /\ lastVoteEpoch' = lastVoteEpoch
<1> DEFINE Less == /\ Cast' \subseteq Cast /\ forgotten \subseteq forgotten'
                   /\ \A m \in Masters, e \in Nat :
                        e <= lastVoteEpoch[m] =>
                          \/ e <= lastVoteEpoch'[m]
                          \/ [from |-> m, epoch |-> e] \in forgotten'
<1> DEFINE New == \E m \in Masters, r \in Replicas, e \in Nat :
             /\ e > lastVoteEpoch[m] /\ forgotten' = forgotten
             /\ lastVoteEpoch' = [lastVoteEpoch EXCEPT ![m] = e]
             /\ Cast' \subseteq Cast \cup {[from |-> m, to |-> r, epoch |-> e]}
<1> USE DEF TypeOK
<1>1. ASSUME NEW r \in Replicas, Retry(r)
      PROVE  Same
  <2>1. \A s \in Replicas : auth'[s].votes \subseteq auth[s].votes
    BY <1>1 DEF Retry
  <2> QED
    BY <1>1, <2>1 DEF Retry, Cast
<1>2. ASSUME NEW r \in Replicas, StartElection(r)
      PROVE  Same
  <2>1. \A s \in Replicas : auth'[s].votes = auth[s].votes
    BY <1>2 DEF StartElection
  <2> QED
    BY <1>2, <2>1 DEF StartElection, Cast
<1>3. ASSUME NEW r \in Replicas, Win(r)
      PROVE  Same
  <2>1. \A w \in elected' : w \in elected \/ w.votes = auth[r].votes
    BY <1>3 DEF Win
  <2>2. /\ acks' = acks /\ auth' = auth
        /\ lastVoteEpoch' = lastVoteEpoch /\ forgotten' = forgotten
    BY <1>3 DEF Win
  <2> QED
    BY <2>1, <2>2 DEF Cast
<1>4. ASSUME NEW q \in requests, ReceiveRequest(q)
      PROVE  Same \/ New
  <2> DEFINE m == q.to
  <2> DEFINE e == MaxOf(currentEpoch[m], q.epoch)
  <2>0. m \in Masters /\ m \in Nodes /\ q.epoch \in Nat /\ q.from \in Replicas
    BY DEF Nodes, Requests
  <2>1. e \in Nat /\ e >= currentEpoch[m]
    BY Zenon, <2>0, MaxOfFacts
  <2>2. auth' = auth /\ elected' = elected /\ forgotten' = forgotten
    BY <1>4 DEF ReceiveRequest
  <2>3. CASE UNCHANGED <<lastVoteEpoch, acks>>
    BY <2>2, <2>3 DEF Cast
  <2>4. CASE Grants(m, e, q) /\ GiveVote(m, e, q.from)
    <3> HIDE DEF e, m
    <3>0. /\ lastVoteEpoch[m] \in Nat /\ currentEpoch[m] \in Nat
          /\ lastVoteEpoch[m] <= currentEpoch[m] /\ lastVoteEpoch[m] # e
      BY <2>0, <2>4 DEF Grants, EpochsOrdered
    <3>1. e > lastVoteEpoch[m]
      BY Zenon, <2>1, <3>0, LaterVote
    <3>2. lastVoteEpoch' = [lastVoteEpoch EXCEPT ![m] = e]
      BY <2>4 DEF GiveVote
    <3>3. Cast' \subseteq Cast \cup {[from |-> m, to |-> q.from, epoch |-> e]}
      BY <2>2, <2>4 DEF GiveVote, Cast
    <3> QED
      BY Zenon, <2>0, <2>1, <2>2, <3>1, <3>2, <3>3
  <2> QED
    BY <1>4, <2>3, <2>4 DEF ReceiveRequest
<1>5. ASSUME NEW a \in acks, ReceiveAck(a)
      PROVE  Same
  <2>1. a.to \in Replicas
    BY DEF Votes
  <2>2. \A s \in Replicas : auth'[s].votes \subseteq auth[s].votes \cup {a}
    BY <1>5, <2>1 DEF ReceiveAck
  <2> QED
    BY <1>5, <2>2 DEF ReceiveAck, Cast
<1>6. ASSUME NEW n \in Nodes, NEW e \in 1 .. MaxEpoch, LearnEpoch(n, e)
      PROVE  Same
  BY <1>6 DEF LearnEpoch, Cast
<1>7. ASSUME NEW n \in Nodes, Save(n)
      PROVE  Same
  BY <1>7 DEF Save, Cast
<1>8. ASSUME NEW n \in Nodes, Restart(n)
      PROVE  Less
  <2>1. \A s \in Replicas : auth'[s].votes \subseteq auth[s].votes
    BY <1>8 DEF Restart, NoElection
  <2>2. Cast' \subseteq Cast
    BY <1>8, <2>1 DEF Restart, Cast
  <2>3. /\ lastVoteEpoch' = [lastVoteEpoch EXCEPT ![n] = conf[n].vote]
        /\ \A e \in (conf[n].vote + 1) .. lastVoteEpoch[n] :
             [from |-> n, epoch |-> e] \in forgotten'
        /\ forgotten \subseteq forgotten'
    BY <1>8 DEF Restart
  <2>4. conf[n].vote \in Nat /\ Masters \subseteq Nodes
    BY DEF Nodes
  <2>5. ASSUME NEW m \in Masters, NEW e \in Nat, e <= lastVoteEpoch[m]
        PROVE  \/ e <= lastVoteEpoch'[m]
               \/ [from |-> m, epoch |-> e] \in forgotten'
    <3>1. CASE m # n
      BY <2>3, <2>4, <2>5, <3>1
    <3>2. CASE m = n /\ e <= conf[n].vote
      BY <2>3, <2>4, <3>2
    <3>3. CASE m = n /\ ~(e <= conf[n].vote)
      <4>1. e \in (conf[n].vote + 1) .. lastVoteEpoch[n]
        BY <2>4, <2>5, <3>3
      <4> QED
        BY Zenon, <2>3, <3>3, <4>1
    <3> QED
      BY <3>1, <3>2, <3>3
  <2> QED
    BY <2>2, <2>3, <2>5
<1>9. ASSUME UNCHANGED vars
      PROVE  Same
  BY <1>9 DEF vars, Cast
<1>10. Same => Less
  OBVIOUS
<1>11. Same \/ Less \/ New
  <2> HIDE DEF Same, Less, New
  <2> QED
    BY <1>1, <1>2, <1>3, <1>4, <1>5, <1>6, <1>7, <1>8, <1>9 DEF Next
<1> QED
  BY <1>10, <1>11

\* Hence a master votes at most once in an epoch, unless a crash took a vote.
LEMMA VotesStep ==
  ASSUME TypeOK, EpochsOrdered, VotesPast, VotesOnce, [Next]_vars
  PROVE  VotesPast' /\ VotesOnce'
<1>0. \A a \in Cast : a.from \in Masters /\ a.epoch \in Nat
  BY DEF Cast, Votes
<1>1. ASSUME Cast' \subseteq Cast, forgotten \subseteq forgotten',
             \A m \in Masters, e \in Nat :
               e <= lastVoteEpoch[m] =>
                 \/ e <= lastVoteEpoch'[m]
                 \/ [from |-> m, epoch |-> e] \in forgotten'
      PROVE  VotesPast' /\ VotesOnce'
  <2>1. \A a : Lost(a) => Lost(a)'
    BY <1>1 DEF Lost
  <2>2. \A a \in Cast : a.epoch <= lastVoteEpoch[a.from] =>
          a.epoch <= lastVoteEpoch'[a.from] \/ Lost(a)'
    BY <1>0, <1>1 DEF Lost
  <2>3. VotesPast'
    BY <1>1, <2>1, <2>2 DEF VotesPast
  <2>4. VotesOnce'
    BY <1>1, <2>1 DEF VotesOnce
  <2> QED
    BY <2>3, <2>4
<1>2. ASSUME NEW m \in Masters, NEW r \in Replicas, NEW e \in Nat,
             e > lastVoteEpoch[m], forgotten' = forgotten,
             lastVoteEpoch' = [lastVoteEpoch EXCEPT ![m] = e],
             Cast' \subseteq Cast \cup {[from |-> m, to |-> r, epoch |-> e]}
      PROVE  VotesPast' /\ VotesOnce'
  <2>0. m \in Nodes /\ Masters \subseteq Nodes
    BY DEF Nodes
  <2>1. \A a : Lost(a)' <=> Lost(a)
    BY <1>2 DEF Lost
  <2>2. \A a \in Cast : a.from = m /\ a.epoch = e => Lost(a)
    BY <1>0, <1>2, <2>0 DEF VotesPast, TypeOK
  <2>3. \A a \in Cast : a.epoch <= lastVoteEpoch'[a.from] \/ Lost(a)
    BY <1>0, <1>2, <2>0 DEF VotesPast, TypeOK
  <2>4. lastVoteEpoch'[m] = e
    BY <1>2, <2>0 DEF TypeOK
  <2>5. VotesPast'
    BY <1>2, <2>1, <2>3, <2>4 DEF VotesPast
  <2>6. ASSUME NEW a \in Cast', NEW b \in Cast', a.from = b.from, a.epoch = b.epoch
        PROVE  a.to = b.to \/ Lost(a)
    <3>1. CASE a \in Cast /\ b \in Cast
      BY <2>6, <3>1 DEF VotesOnce
    <3>2. CASE a \in Cast /\ b = [from |-> m, to |-> r, epoch |-> e]
      BY <2>2, <2>6, <3>2
    <3>3. CASE a = [from |-> m, to |-> r, epoch |-> e] /\ b \in Cast
      <4>1. Lost(b)
        BY <2>2, <2>6, <3>3
      <4> QED
        BY <2>6, <4>1 DEF Lost
    <3>4. CASE /\ a = [from |-> m, to |-> r, epoch |-> e]
               /\ b = [from |-> m, to |-> r, epoch |-> e]
      BY <3>4
    <3> QED
      BY <1>2, <3>1, <3>2, <3>3, <3>4
  <2>7. VotesOnce'
    BY <2>1, <2>6 DEF VotesOnce
  <2> QED
    BY <2>5, <2>7
<1> QED
  BY <1>1, <1>2, CastStep

\* A replica counts only votes given to it, and wins with a majority of them.
LEMMA ElectedStep ==
  ASSUME TypeOK, VotesOwn, Majority, [Next]_vars
  PROVE  VotesOwn' /\ Majority'
<1> USE DEF TypeOK
<1>0. ASSUME elected' = elected,
             \A s \in Replicas : \A a \in auth'[s].votes : a.to = s
      PROVE  VotesOwn' /\ Majority'
  BY <1>0 DEF VotesOwn, Majority
<1>1. ASSUME NEW r \in Replicas, Retry(r)
      PROVE  VotesOwn' /\ Majority'
  <2>1. \A s \in Replicas : auth'[s].votes \subseteq auth[s].votes
    BY <1>1 DEF Retry
  <2> QED
    BY <1>0, <1>1, <2>1 DEF Retry, VotesOwn
<1>2. ASSUME NEW r \in Replicas, StartElection(r)
      PROVE  VotesOwn' /\ Majority'
  <2>1. \A s \in Replicas : auth'[s].votes = auth[s].votes
    BY <1>2 DEF StartElection
  <2> QED
    BY <1>0, <1>2, <2>1 DEF StartElection, VotesOwn
<1>3. ASSUME NEW r \in Replicas, Win(r)
      PROVE  VotesOwn' /\ Majority'
  <2>1. \A w \in elected' : \/ w \in elected
                            \/ w.node = r /\ w.votes = auth[r].votes
    BY <1>3 DEF Win
  <2>2. auth' = auth /\ Cardinality(auth[r].votes) >= Quorum
    BY <1>3 DEF Win
  <2>3. VotesOwn'
    BY <2>1, <2>2 DEF VotesOwn
  <2>4. Majority'
    BY <2>1, <2>2 DEF Majority
  <2> QED
    BY <2>3, <2>4
<1>4. ASSUME NEW q \in requests, ReceiveRequest(q)
      PROVE  VotesOwn' /\ Majority'
  BY <1>0, <1>4 DEF ReceiveRequest, VotesOwn
<1>5. ASSUME NEW a \in acks, ReceiveAck(a)
      PROVE  VotesOwn' /\ Majority'
  <2>1. a.to \in Replicas
    BY DEF Votes
  <2>2. \A s \in Replicas : \A b \in auth'[s].votes :
          b \in auth[s].votes \/ (s = a.to /\ b = a)
    BY <1>5, <2>1 DEF ReceiveAck
  <2> QED
    BY <1>0, <1>5, <2>2 DEF ReceiveAck, VotesOwn
<1>6. ASSUME NEW n \in Nodes, NEW e \in 1 .. MaxEpoch, LearnEpoch(n, e)
      PROVE  VotesOwn' /\ Majority'
  BY <1>0, <1>6 DEF LearnEpoch, VotesOwn
<1>7. ASSUME NEW n \in Nodes, Save(n)
      PROVE  VotesOwn' /\ Majority'
  BY <1>0, <1>7 DEF Save, VotesOwn
<1>8. ASSUME NEW n \in Nodes, Restart(n)
      PROVE  VotesOwn' /\ Majority'
  <2>1. \A s \in Replicas : auth'[s].votes \subseteq auth[s].votes
    BY <1>8 DEF Restart, NoElection
  <2> QED
    BY <1>0, <1>8, <2>1 DEF Restart, VotesOwn
<1>9. CASE UNCHANGED vars
  BY <1>0, <1>9 DEF vars, VotesOwn
<1> QED
  BY <1>1, <1>2, <1>3, <1>4, <1>5, <1>6, <1>7, <1>8, <1>9 DEF Next, TypeOK

-----------------------------------------------------------------------------
\* The inductive invariant holds in every reachable state.
THEOREM Invariance == Spec => []IInv
<1>1. Init => IInv
  <2> SUFFICES ASSUME Init PROVE IInv
    OBVIOUS
  <2>1. TypeOK /\ EpochsOrdered
    BY DEF Init, TypeOK, EpochsOrdered, Nodes, NoElection
  <2>2. Cast = {}
    BY DEF Init, Cast, NoElection
  <2>3. VotesPast /\ VotesOnce
    BY <2>2 DEF VotesPast, VotesOnce
  <2>4. VotesOwn /\ Majority
    BY DEF Init, VotesOwn, Majority, NoElection
  <2> QED
    BY <2>1, <2>3, <2>4 DEF IInv
<1>2. IInv /\ [Next]_vars => IInv'
  BY TypeStep, EpochsStep, VotesStep, ElectedStep DEF IInv
<1> QED
  BY <1>1, <1>2, PTL DEF Spec

\* The variables keep their types.
THEOREM TypeCorrect == Spec => []TypeOK
<1>1. IInv => TypeOK
  BY DEF IInv
<1> QED
  BY <1>1, Invariance, PTL

\* Two replicas are elected in one epoch only when one of them counted a late
\* vote or a master forgot a vote in a crash, for any number of masters and
\* replicas and after any number of elections, retries, crashes and restarts.
THEOREM OnePerEpoch == Spec => []ElectedOnce
<1>1. IInv => ElectedOnce
  <2> SUFFICES ASSUME IInv, NEW w \in elected, NEW x \in elected,
                      w.epoch = x.epoch, w.node # x.node,
                      ~CountedLate(w), ~CountedLate(x)
               PROVE  VotedTwice(w, x)
    BY DEF ElectedOnce
  <2>2. w.votes \in SUBSET Votes /\ x.votes \in SUBSET Votes
    BY DEF IInv, TypeOK
  <2>3. \A a \in w.votes : a.to = w.node /\ a.epoch = w.epoch
    BY DEF IInv, VotesOwn, CountedLate
  <2>4. \A a \in x.votes : a.to = x.node /\ a.epoch = w.epoch
    BY DEF IInv, VotesOwn, CountedLate
  <2>5. Cardinality(w.votes) >= Quorum /\ Cardinality(x.votes) >= Quorum
    BY DEF IInv, Majority
  <2>6. PICK a \in w.votes, b \in x.votes : a.from = b.from
    BY <2>2, <2>3, <2>4, <2>5, MajoritiesMeet, ElectionAssumption
  <2>7. a \in Cast /\ b \in Cast
    BY <2>2 DEF Cast
  <2>8. Lost(a)
    BY <2>3, <2>4, <2>6, <2>7 DEF IInv, VotesOnce
  <2> QED
    BY <2>3, <2>4, <2>6, <2>8 DEF VotedTwice, Lost
<1> QED
  BY <1>1, Invariance, PTL
=============================================================================
