-------------------------------- MODULE Cluster --------------------------------
(***************************************************************************)
(* The workers of a cluster spread their genes (getListAndSpread,           *)
(* scheduler.cc): a worker asks the server of module Server for the list of *)
(* workers, sends ten genes to everybody on it, itself included, and asks   *)
(* again.  So a list is as old as the genes take, while workers start and   *)
(* stop, and the registry it is a copy of is behind the truth by itself.    *)
(*                                                                         *)
(* A gene is its sender here; where its genes come from, and what a worker  *)
(* does with those of others, is in module Node.                            *)
(***************************************************************************)
EXTENDS Server

CONSTANTS
    Spreader,       \* bound: the workers whose genes are followed
    SpreadBatch     \* the genes spread per list of fellows, 10

ASSUME ClusterAssumption ==
    /\ Spreader \subseteq Url
    /\ SpreadBatch \in Nat \ {0}

VARIABLES
    at,         \* where the thread of each spreader is
    fellows,    \* its list
    targets,    \* those of the list that do not have the gene in hand yet
    batch       \* the genes it still spreads before it asks (again)

spreading == <<at, fellows, targets, batch>>
clusterVars == <<vars, spreading>>

ClusterInit ==
    /\ Init
    /\ at = [u \in Spreader |-> "refresh"]
    /\ fellows = [u \in Spreader |-> {}]
    /\ targets = [u \in Spreader |-> {}]
    /\ batch = [u \in Spreader |-> SpreadBatch]

Goes(u, to) == at' = [at EXCEPT ![u] = to]

-----------------------------------------------------------------------------
(* getListAndSpread *)

\* faulty variant: a list once known is kept
updateClientListOnce(u, last) ==
    /\ alive[u] /\ at[u] = "refresh"
    /\ undefined => last = 0
    /\ fellows' = [fellows EXCEPT ![u] = IF @ # {} THEN @ ELSE {v \in Registered : v <= last}]
    /\ Goes(u, "take")
    /\ UNCHANGED <<vars, targets, batch>>

\* The list is written url by url and read as far as it comes: if the server cannot
\* be reached it is empty, and genes are spread to nobody.
updateClientList(u, last) ==
    /\ alive[u] /\ at[u] = "refresh"
    /\ undefined => last = 0
    /\ fellows' = [fellows EXCEPT ![u] = {v \in Registered : v <= last}]
    /\ Goes(u, "take")
    /\ UNCHANGED <<vars, targets, batch>>

\* faulty variant: the list is asked for only when the queue is empty
SendAlways(u, rest) ==
    /\ targets' = [targets EXCEPT ![u] = rest]
    /\ Goes(u, IF rest # {} THEN "send" ELSE "take")
    /\ UNCHANGED batch

\* The fellows in `rest` are still to get the gene; without any it is the next
\* gene's turn, or that of the list.
Send(u, rest) ==
    /\ targets' = [targets EXCEPT ![u] = rest]
    /\ Goes(u, IF rest # {} THEN "send" ELSE IF batch[u] = 1 THEN "refresh" ELSE "take")
    /\ batch' = [batch EXCEPT ![u] =
                    IF rest # {} THEN @ ELSE IF @ = 1 THEN SpreadBatch ELSE @ - 1]

\* A gene of its own, from the queue.
TakeGene(u) ==
    /\ alive[u] /\ at[u] = "take"
    /\ Send(u, fellows[u])
    /\ UNCHANGED <<vars, fellows>>

\* de() answers with the default task, which ends the batch.
TakePhantom(u) ==
    /\ alive[u] /\ at[u] = "take"
    /\ batch' = [batch EXCEPT ![u] = SpreadBatch]
    /\ Goes(u, "refresh")
    /\ UNCHANGED <<vars, fellows, targets>>

\* /spread_gene is sent to one fellow after the other, and no answer is read.  The
\* dump that may follow the last is WorkerDumps.
spreadGene(u, v) ==
    /\ alive[u] /\ at[u] = "send"
    /\ v \in targets[u] /\ \A w \in targets[u] : v <= w
    /\ Send(u, targets[u] \ {v})
    /\ UNCHANGED <<vars, fellows>>

\* It arrives (proxyHandler), or is refused.
Deliver(u, v) == alive[v] /\ spreadGene(u, v)
Miss(u, v) == ~alive[v] /\ spreadGene(u, v)

\* A process that is started again has an empty list.
Restarts(u) ==
    /\ at' = [v \in Spreader |-> IF v = u THEN "refresh" ELSE at[v]]
    /\ fellows' = [v \in Spreader |-> IF v = u THEN {} ELSE fellows[v]]
    /\ targets' = [v \in Spreader |-> IF v = u THEN {} ELSE targets[v]]
    /\ batch' = [v \in Spreader |-> IF v = u THEN SpreadBatch ELSE batch[v]]

-----------------------------------------------------------------------------
Spreads(u) ==
    \/ \E last \in Url \cup {0} : updateClientList(u, last)
    \/ TakeGene(u) \/ TakePhantom(u)
    \/ \E v \in Url : Deliver(u, v) \/ Miss(u, v)

ClusterNext ==
    \/ ~undefined /\ (HeartBeat \/ MainIsKept) /\ UNCHANGED spreading
    \/ ~undefined /\ (\E u \in Url : Handle(u)) /\ UNCHANGED spreading
    \/ \E u \in Url : (WorkerStarts(u) \/ WorkerDumps(u)) /\ UNCHANGED spreading
    \/ \E u \in Url : WorkerStops(u) /\ Restarts(u)
    \/ \E u \in Spreader : Spreads(u)

Whole(last) == \A v \in Url : v <= last

(***************************************************************************)
(* The thread runs, and again and again the server is reached and a list    *)
(* comes whole.  A worker has genes to spread again and again, and not only *)
(* while its list came in part; that it takes them is GenesAreSpread of     *)
(* Node.                                                                    *)
(***************************************************************************)
ClusterFairness ==
    /\ Fairness
    /\ \A u \in Spreader :
           /\ WF_clusterVars(Spreads(u))
           /\ SF_clusterVars(\E last \in Url : Whole(last) /\ updateClientList(u, last))
           /\ \A v \in Url : SF_clusterVars(TakeGene(u) /\ v \in fellows[u])

ClusterSpec == ClusterInit /\ [][ClusterNext]_clusterVars
ClusterFairSpec == ClusterSpec /\ ClusterFairness

-----------------------------------------------------------------------------
(***************************************************************************)
(* A worker that stays gets the genes of every other that stays, again and  *)
(* again, whatever the order in which they started, registered and asked    *)
(* for the list, although registrations are lost, lists come in part and a  *)
(* pass of the heartbeat takes the living for dead.                         *)
(***************************************************************************)
GenesReachFellows ==
    \A u \in Spreader, v \in Url :
        <>[](alive[u] /\ alive[v]) => []<><<Deliver(u, v)>>_clusterVars

(***************************************************************************)
(* A worker that stays dead is forgotten by the server, and by every worker *)
(* that had it in its list.                                                 *)
(***************************************************************************)
TheDeadAreLeftAlone ==
    \A v \in Url :
        <>[](~alive[v]) =>
            <>[](v \notin Registered /\ \A u \in Spreader : v \notin fellows[u])

=============================================================================
