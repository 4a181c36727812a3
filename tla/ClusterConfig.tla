---------------------------- MODULE ClusterConfig ----------------------------
(***************************************************************************)
(* How the nodes of a Redis Cluster come to agree on who serves a set of   *)
(* slots (src/redis-5.0/src/cluster.c). Members are the nodes that serve   *)
(* or replicate the slots. One that is elected, or told to take over,      *)
(* claims the slots with an epoch that need not be unique; heartbeats,     *)
(* UPDATE messages and the resolution of colliding epochs do the rest. The *)
(* masters of other slots only pass on what they are told, as any member   *)
(* does, and are left out.                                                 *)
(*                                                                         *)
(* A handler and its messages are one step. Nodes do not restart here, so  *)
(* nodes.conf is left out. Whether a master is flagged FAIL is left open.  *)
(***************************************************************************)
EXTENDS Naturals, FiniteSets, FiniteSetsExt

CONSTANTS
    Members,       \* the names of the nodes, compared as numbers
    First,         \* the member that serves the slots at the start
    None,          \* NULL
    MaxPromotions, \* bound: promotions
    MaxDelays      \* bound: heartbeats that other messages overtake

ASSUME ConfigAssumption ==
    /\ Members \subseteq Nat /\ IsFiniteSet(Members) /\ First \in Members
    /\ None \notin Members
    /\ MaxPromotions \in Nat /\ MaxDelays \in Nat

VARIABLES
    currentEpoch, \* server.cluster->currentEpoch, of each member
    view,         \* what each member knows of all of them
    updates,      \* UPDATE messages in flight
    late,         \* a heartbeat that is held up, or None
    promotions, delays

vars == <<currentEpoch, view, updates, late, promotions, delays>>

-----------------------------------------------------------------------------
(* A node's table: of each member its configEpoch and its master (None if  *)
(* it is a master itself), and the owner of the slots (None if unassigned).*)

MaxOf(a, b) == IF a > b THEN a ELSE b

IsMaster(v, m) == v.slaveof[m] = None

Serves(v, m) == v.owner = m

\* A member, or the master that it replicates.
MasterOf(v, m) == IF IsMaster(v, m) THEN m ELSE v.slaveof[m]

\* clusterBuildMessageHdr: a replica publishes its master's slots and epoch.
Header(n) ==
    LET v == view[n]
        m == MasterOf(v, n)
    IN  [from |-> n, currentEpoch |-> currentEpoch[n],
         configEpoch |-> v.configEpoch[m], slaveof |-> v.slaveof[n],
         claims |-> Serves(v, m)]

\* clusterProcessPacket: a newer configEpoch of the sender is noted.
Learn(v, m, epoch) ==
    [v EXCEPT !.configEpoch[m] = MaxOf(v.configEpoch[m], epoch)]

\* clusterProcessPacket: the sender's role. A master that has become a
\* replica loses its slots.
SwitchRole(v, m, slaveof) ==
    [v EXCEPT !.slaveof[m] = slaveof,
              !.owner = IF slaveof # None /\ IsMaster(v, m) /\ Serves(v, m)
                          THEN None ELSE v.owner]

\* Mutant: a claim with the owner's own epoch takes the slots as well.
EqualEpochWins(n, v, m, epoch) ==
    IF \/ m = n \/ Serves(v, m)
       \/ v.owner # None /\ v.configEpoch[v.owner] > epoch
      THEN v
    ELSE IF v.owner # None /\ v.owner = MasterOf(v, n)
      THEN [v EXCEPT !.owner = m, !.slaveof[n] = m]
    ELSE [v EXCEPT !.owner = m]

\* clusterUpdateSlotsConfigWith on n, with clusterSetMaster: the slots go to
\* m if its epoch is greater than the owner's, and if they were the slots of
\* n or of its master n becomes a replica of m.
UpdateSlotsConfigWith(n, v, m, epoch) ==
    IF \/ m = n \/ Serves(v, m)
       \/ v.owner # None /\ v.configEpoch[v.owner] >= epoch
      THEN v
    ELSE IF v.owner # None /\ v.owner = MasterOf(v, n)
      THEN [v EXCEPT !.owner = m, !.slaveof[n] = m]
    ELSE [v EXCEPT !.owner = m]

\* Mutant: an epoch that is newer than the sender's is asked for, but it has
\* been noted before.
NewerCollides(n, v, m, epoch) ==
    /\ IsMaster(v, n) /\ IsMaster(v, m)
    /\ epoch > v.configEpoch[m] /\ v.configEpoch[m] = v.configEpoch[n]
    /\ m > n

\* clusterHandleConfigEpochCollision on n, which has just received epoch from
\* the master m: the node with the smaller name moves on.
Collides(n, v, m, epoch) ==
    /\ IsMaster(v, n) /\ IsMaster(v, m)
    /\ epoch = v.configEpoch[n] /\ v.configEpoch[m] = v.configEpoch[n]
    /\ m > n

-----------------------------------------------------------------------------
Init ==
    /\ currentEpoch = [n \in Members |-> 1]
    /\ view = [n \in Members |->
         [configEpoch |-> [m \in Members |-> IF m = n /\ m # First THEN 0 ELSE 1],
          slaveof |-> [m \in Members |-> IF m = First THEN None ELSE First],
          owner |-> First]]
    /\ updates = {} /\ late = None /\ promotions = 0 /\ delays = 0

\* clusterProcessPacket on n, for a PING or PONG with header h: the sender's
\* epoch and role, its slots if they differ from what n has for it, an UPDATE
\* if another master serves them with a greater epoch, a collision of epochs.
Received(n, h) ==
    LET m == h.from
        e == MaxOf(currentEpoch[n], h.currentEpoch)
        v1 == SwitchRole(Learn(view[n], m, h.configEpoch), m, h.slaveof)
        dirty == h.claims # Serves(v1, MasterOf(v1, m))
        v2 == IF IsMaster(v1, m) /\ dirty /\ h.claims
                THEN UpdateSlotsConfigWith(n, v1, m, h.configEpoch) ELSE v1
        collides == Collides(n, v2, m, h.configEpoch)
    IN  [epoch |-> IF collides THEN e + 1 ELSE e,
         view |-> IF collides THEN Learn(v2, n, e + 1) ELSE v2,
         update |-> /\ dirty /\ h.claims /\ v2.owner \notin {m, None}
                    /\ v2.configEpoch[v2.owner] > h.configEpoch]

ProcessHeartbeat(n, h) ==
    LET r == Received(n, h) IN
    /\ currentEpoch' = [currentEpoch EXCEPT ![n] = r.epoch]
    /\ view' = [view EXCEPT ![n] = r.view]
    /\ updates' = IF r.update
         THEN updates \cup
              {[to |-> h.from, about |-> r.view.owner,
                currentEpoch |-> MaxOf(currentEpoch[n], h.currentEpoch),
                epoch |-> r.view.configEpoch[r.view.owner]]}
         ELSE updates

\* A heartbeat of m reaches n.
Heartbeat(m, n) ==
    /\ m # n /\ ProcessHeartbeat(n, Header(m))
    /\ UNCHANGED <<late, promotions, delays>>

\* A heartbeat of m is held up, and the next ones pass it.
Delay(m) ==
    /\ late = None /\ delays < MaxDelays
    /\ late' = Header(m) /\ delays' = delays + 1
    /\ UNCHANGED <<currentEpoch, view, updates, promotions>>

LateHeartbeat(n) ==
    /\ late # None /\ late.from # n
    /\ ProcessHeartbeat(n, late) /\ late' = None
    /\ UNCHANGED <<promotions, delays>>

\* clusterProcessPacket, for an UPDATE. The sender's own configEpoch, which its
\* heartbeats bring as well, is left out.
ReceiveUpdate(u) ==
    LET n == u.to
        v == [view[n] EXCEPT !.slaveof[u.about] = None,
                             !.configEpoch[u.about] = u.epoch]
    IN  /\ currentEpoch' =
             [currentEpoch EXCEPT ![n] = MaxOf(@, u.currentEpoch)]
        /\ view' = IF view[n].configEpoch[u.about] >= u.epoch THEN view
             ELSE [view EXCEPT ![n] = UpdateSlotsConfigWith(n, v, u.about, u.epoch)]
        /\ updates' = updates \ {u}
        /\ UNCHANGED <<late, promotions, delays>>

\* clusterFailoverReplaceYourMaster: the replica n becomes a master with epoch
\* e and claims its master's slots. Without slots there is no election, and a
\* takeover, which would claim nothing, is left out.
Promote(n, e) ==
    /\ promotions < MaxPromotions /\ ~IsMaster(view[n], n)
    /\ Serves(view[n], view[n].slaveof[n])
    /\ currentEpoch' = [currentEpoch EXCEPT ![n] = MaxOf(@, e)]
    /\ view' = [view EXCEPT ![n].configEpoch[n] = e, ![n].slaveof[n] = None,
                            ![n].owner = n]
    /\ promotions' = promotions + 1
    /\ UNCHANGED <<updates, late, delays>>

\* clusterHandleSlaveFailover, with the quorum reached: n was elected in the
\* epoch after its own when it asked, and may have learned of others since.
Elected(n) ==
    \E e \in 2 .. currentEpoch[n] + 1 :
        e > view[n].configEpoch[n] /\ Promote(n, e)

\* clusterBumpConfigEpochWithoutConsensus: the next epoch, unless the epoch of
\* n is already the greatest it knows.
BumpedEpoch(n) ==
    LET mine == view[n].configEpoch[n]
        all == {currentEpoch[n]} \cup {view[n].configEpoch[m] : m \in Members}
    IN  IF mine # 0 /\ mine = Max(all) THEN mine ELSE currentEpoch[n] + 1

\* CLUSTER FAILOVER TAKEOVER: no election.
Takeover(n) == Promote(n, BumpedEpoch(n))

Next ==
    \/ \E m, n \in Members : Heartbeat(m, n)
    \/ \E m \in Members : Delay(m)
    \/ \E n \in Members : LateHeartbeat(n)
    \/ \E u \in updates : ReceiveUpdate(u)
    \/ \E n \in Members : Elected(n) \/ Takeover(n)

Spec == Init /\ [][Next]_vars

\* A heartbeat would change a table.
Pending == \E m, n \in Members : m # n /\ Received(n, Header(m)).view # view[n]

\* clusterCron pings every node again and again, and reconnects broken links:
\* while heartbeats would change tables, tables change.
FairSpec == Spec /\ ([]<>~Pending \/ []<><<view' # view>>_vars)

-----------------------------------------------------------------------------
\* The types of the variables.
TypeOK ==
    /\ currentEpoch \in [Members -> Nat]
    /\ view \in [Members -> [configEpoch : [Members -> Nat],
                             slaveof : [Members -> Members \cup {None}],
                             owner : Members \cup {None}]]

\* Once the promotions are over, every node comes to name the same owner of
\* the slots, for good, and to know it as a master: what
\* clusterUpdateSlotsConfigWith and the UPDATE messages are for. There is no
\* split brain, and no slot is left unassigned, even after two members took
\* the slots with the same epoch and an old heartbeat came in late.
OwnersAgree ==
    <>[](\E m \in Members : \A n \in Members :
           Serves(view[n], m) /\ IsMaster(view[n], m))

\* "In general we want a system that eventually always ends with different
\* masters having different configuration epochs whatever happened, since
\* nothign is worse than a split-brain condition" (cluster.c:1063).
EpochsDiffer ==
    <>[](\A m, n \in Members :
           m # n /\ IsMaster(view[m], m) /\ IsMaster(view[n], n)
             => view[m].configEpoch[m] # view[n].configEpoch[n])
=============================================================================
