--------------------------- MODULE ClusterElection ---------------------------
(***************************************************************************)
(* The election of a master's successor in Redis Cluster                   *)
(* (src/redis-5.0/src/cluster.c): Replicas, the replicas of one master,    *)
(* ask Masters, the masters that serve slots, for their votes.             *)
(*                                                                         *)
(* A handler changes memory and queues messages; nodes.conf is saved later *)
(* by clusterBeforeSleep (Save). A crash may come between, with the        *)
(* messages already out: AE_BARRIER orders the reading and the writing of  *)
(* one socket, while a vote is written to another one than the request was *)
(* read from (ae.c), and processEventsWhileBlocked (networking.c) handles  *)
(* events several times without beforesleep.                               *)
(*                                                                         *)
(* Whether the master is flagged FAIL, whether a request carries FORCEACK  *)
(* (a manual failover), the passing of time and when a node hears of a     *)
(* promoted replica are left open: a guard on one of them may hold or not. *)
(* What nodes do once they have heard of it is ClusterConfig.              *)
(***************************************************************************)
EXTENDS Naturals, FiniteSets

CONSTANTS
    Masters,     \* the masters that serve slots: the electorate
    Replicas,    \* the replicas of one of them
    MaxEpoch,    \* bound: no election starts at a later epoch
    MaxEvents,   \* bound: elections started and restarts, together
    MaxCrashing  \* bound: nodes that crash

ASSUME ElectionAssumption ==
    /\ IsFiniteSet(Masters) /\ Replicas \cap Masters = {}
    /\ MaxEpoch \in Nat /\ MaxEvents \in Nat /\ MaxCrashing \in Nat

VARIABLES
    currentEpoch,  \* server.cluster->currentEpoch, of each node
    lastVoteEpoch, \* server.cluster->lastVoteEpoch, of each node
    conf,          \* what the nodes.conf of each node says of these
    auth,          \* failover_auth_sent, _epoch and _count of each replica
    requests,      \* FAILOVER_AUTH_REQUEST messages on their way
    acks,          \* FAILOVER_AUTH_ACK messages on their way
    crashing,      \* the nodes that may crash
    events,        \* how many elections and restarts there were
    elected,       \* history: the elections won, with the votes counted
    forgotten      \* history: the votes given and lost in a crash

vars == <<currentEpoch, lastVoteEpoch, conf, auth, requests, acks, crashing,
          events, elected, forgotten>>

Nodes == Masters \cup Replicas

Requests == [from : Replicas, to : Masters, epoch : Nat]
Votes == [from : Masters, to : Replicas, epoch : Nat]

MaxOf(a, b) == IF a > b THEN a ELSE b

-----------------------------------------------------------------------------
NoElection == [sent |-> FALSE, epoch |-> 0, votes |-> {}]

Init ==
    /\ currentEpoch = [n \in Nodes |-> 1] /\ lastVoteEpoch = [n \in Nodes |-> 0]
    /\ conf = [n \in Nodes |-> [epoch |-> 1, vote |-> 0]]
    /\ auth = [r \in Replicas |-> NoElection]
    /\ requests = {} /\ acks = {}
    /\ crashing \in {S \in SUBSET Nodes : Cardinality(S) <= MaxCrashing}
    /\ events = 0 /\ elected = {} /\ forgotten = {}

\* The replicas that were elected: clusterHandleSlaveFailover, which a node
\* calls while it is a replica, has no more to do for them.
Promoted == {w.node : w \in elected}

\* clusterHandleSlaveFailover: the election of r is too old, the next one is
\* scheduled. failover_auth_epoch keeps its value.
Retry(r) ==
    /\ r \notin Promoted
    /\ auth' = [auth EXCEPT ![r] =
         [sent |-> FALSE, epoch |-> auth[r].epoch, votes |-> {}]]
    /\ UNCHANGED <<currentEpoch, lastVoteEpoch, conf, requests, acks, crashing,
                   events, elected, forgotten>>

\* clusterHandleSlaveFailover: r asks for votes. The votes that have come in
\* since the election was scheduled are kept.
StartElection(r) ==
    LET e == currentEpoch[r] + 1 IN
    /\ ~auth[r].sent /\ r \notin Promoted
    /\ e <= MaxEpoch /\ events < MaxEvents
    /\ currentEpoch' = [currentEpoch EXCEPT ![r] = e]
    /\ auth' = [auth EXCEPT ![r] =
         [sent |-> TRUE, epoch |-> e, votes |-> auth[r].votes]]
    /\ requests' = requests \cup
         {[from |-> r, to |-> m, epoch |-> e] : m \in Masters}
    /\ events' = events + 1
    /\ UNCHANGED <<lastVoteEpoch, conf, acks, crashing, elected, forgotten>>

\* clusterSendFailoverAuthIfNeeded on m, whose epoch is now e: the conditions
\* that are not left open.
Grants(m, e, q) ==
    /\ q.epoch >= e
    /\ lastVoteEpoch[m] # e

\* The vote is in memory and its message on its way; the save is asked for.
GiveVote(m, e, r) ==
    /\ lastVoteEpoch' = [lastVoteEpoch EXCEPT ![m] = e]
    /\ acks' = acks \cup {[from |-> m, to |-> r, epoch |-> e]}

\* clusterProcessPacket on a FAILOVER_AUTH_REQUEST. It stays in requests, and
\* until the next crash reading it again grants nothing that reading it only
\* then would not: m has voted for its epoch, or has not.
ReceiveRequest(q) ==
    LET m == q.to
        e == MaxOf(currentEpoch[m], q.epoch)
    IN  /\ currentEpoch' = [currentEpoch EXCEPT ![m] = e]
        /\ \/ Grants(m, e, q) /\ GiveVote(m, e, q.from)
           \/ UNCHANGED <<lastVoteEpoch, acks>>
        /\ UNCHANGED <<conf, auth, requests, crashing, events, elected,
                       forgotten>>

\* A vote counts if it is not of an epoch before failover_auth_epoch.
Counts(a) == a.epoch >= auth[a.to].epoch

\* clusterProcessPacket on a FAILOVER_AUTH_ACK.
ReceiveAck(a) ==
    /\ currentEpoch' = [currentEpoch EXCEPT ![a.to] = MaxOf(@, a.epoch)]
    /\ auth' = [auth EXCEPT ![a.to] =
         [sent |-> auth[a.to].sent, epoch |-> auth[a.to].epoch,
          votes |-> auth[a.to].votes \cup (IF Counts(a) THEN {a} ELSE {})]]
    /\ acks' = acks \ {a}
    /\ UNCHANGED <<lastVoteEpoch, conf, requests, crashing, events, elected,
                   forgotten>>

\* server.cluster->size is the number of masters that serve slots.
Quorum == (Cardinality(Masters) \div 2) + 1

\* What clusterSaveConfig writes of n, in its present state.
Config(n) == [epoch |-> currentEpoch[n], vote |-> lastVoteEpoch[n]]

\* clusterHandleSlaveFailover, with the quorum reached, and
\* clusterFailoverReplaceYourMaster, which saves at once.
Win(r) ==
    /\ auth[r].sent /\ r \notin Promoted
    /\ Cardinality(auth[r].votes) >= Quorum
    /\ conf' = [conf EXCEPT ![r] = Config(r)]
    /\ elected' = elected \cup
         {[node |-> r, epoch |-> auth[r].epoch, votes |-> auth[r].votes]}
    /\ UNCHANGED <<currentEpoch, lastVoteEpoch, auth, requests, acks, crashing,
                   events, forgotten>>

\* clusterProcessPacket on any other message: n learns a newer epoch, of this
\* or of another master's election.
LearnEpoch(n, e) ==
    /\ e > currentEpoch[n]
    /\ currentEpoch' = [currentEpoch EXCEPT ![n] = e]
    /\ UNCHANGED <<lastVoteEpoch, conf, auth, requests, acks, crashing, events,
                   elected, forgotten>>

\* clusterBeforeSleep saves nodes.conf. A vote and the start of an election ask
\* for it, and so do many events that are not modelled: it may happen between
\* any two steps. (The bound: a save no restart can follow changes nothing.)
Save(n) ==
    /\ events < MaxEvents
    /\ conf' = [conf EXCEPT ![n] = Config(n)]
    /\ UNCHANGED <<currentEpoch, lastVoteEpoch, auth, requests, acks, crashing,
                   events, elected, forgotten>>

\* Mutant: clusterLoadConfig restores the epoch but not the last vote.
RestartForgetsVote(n) ==
    /\ events < MaxEvents
    /\ events' = events + 1
    /\ currentEpoch' = [currentEpoch EXCEPT ![n] = conf[n].epoch]
    /\ lastVoteEpoch' = [lastVoteEpoch EXCEPT ![n] = 0]
    /\ auth' = [r \in Replicas |-> IF r = n THEN NoElection ELSE auth[r]]
    /\ requests' = {q \in requests : q.to # n}
    /\ acks' = {a \in acks : a.to # n}
    /\ forgotten' = forgotten \cup
         {[from |-> n, epoch |-> e] :
             e \in (conf[n].vote + 1) .. lastVoteEpoch[n]}
    /\ UNCHANGED <<conf, crashing, elected>>

\* The process of n dies and starts again from nodes.conf (clusterLoadConfig).
\* Its connections die with it, and the messages on their way to it.
Restart(n) ==
    /\ events < MaxEvents
    /\ events' = events + 1
    /\ currentEpoch' = [currentEpoch EXCEPT ![n] = conf[n].epoch]
    /\ lastVoteEpoch' = [lastVoteEpoch EXCEPT ![n] = conf[n].vote]
    /\ auth' = [r \in Replicas |-> IF r = n THEN NoElection ELSE auth[r]]
    /\ requests' = {q \in requests : q.to # n}
    /\ acks' = {a \in acks : a.to # n}
    /\ forgotten' = forgotten \cup
         {[from |-> n, epoch |-> e] :
             e \in (conf[n].vote + 1) .. lastVoteEpoch[n]}
    /\ UNCHANGED <<conf, crashing, elected>>

Next ==
    \/ \E r \in Replicas : Retry(r) \/ StartElection(r) \/ Win(r)
    \/ \E q \in requests : ReceiveRequest(q)
    \/ \E a \in acks : ReceiveAck(a)
    \/ \E n \in Nodes : \E e \in 1 .. MaxEpoch : LearnEpoch(n, e)
    \/ \E n \in crashing : Save(n) \/ Restart(n)

Spec == Init /\ [][Next]_vars

-----------------------------------------------------------------------------
\* The types of the variables.
TypeOK ==
    /\ currentEpoch \in [Nodes -> Nat] /\ lastVoteEpoch \in [Nodes -> Nat]
    /\ conf \in [Nodes -> [epoch : Nat, vote : Nat]]
    /\ auth \in
         [Replicas -> [sent : BOOLEAN, epoch : Nat, votes : SUBSET Votes]]
    /\ requests \subseteq Requests /\ acks \subseteq Votes
    /\ crashing \subseteq Nodes /\ events \in Nat
    /\ elected \subseteq [node : Replicas, epoch : Nat, votes : SUBSET Votes]
    /\ forgotten \subseteq [from : Nodes, epoch : Nat]

\* The election w counted a vote of an earlier election, which came in after
\* the count was reset and before failover_auth_epoch was set anew.
CountedLate(w) == \E a \in w.votes : a.epoch # w.epoch

\* A master voted in the elections w and x of the same epoch because it crashed
\* in between, and nodes.conf had not been saved since the first vote.
VotedTwice(w, x) ==
    \E a \in w.votes, b \in x.votes :
        /\ a.from = b.from /\ a.epoch = b.epoch
        /\ [from |-> a.from, epoch |-> a.epoch] \in forgotten

\* Two replicas are elected in one epoch only when one of them counted a late
\* vote or a master forgot, in a crash, a vote it had given: there is no other
\* way, whatever is lost, delayed or overtaken and whoever restarts.
ElectedOnce ==
    \A w, x \in elected :
        w.epoch = x.epoch /\ w.node # x.node =>
            CountedLate(w) \/ CountedLate(x) \/ VotedTwice(w, x)

\* "It is not possible that different slaves get the same config epoch during
\* a failover election, because the slaves need to get voted by a majority"
\* (cluster.c:1038).
OneReplicaPerEpoch == \A w, x \in elected : w.epoch = x.epoch => w.node = x.node
=============================================================================
