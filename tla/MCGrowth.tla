------------------------------ MODULE MCGrowth ------------------------------
(***************************************************************************)
(* Two threads that have been started and mine until the chain is          *)
(* MaxHeight high or somebody calls stop.  Every hash meets the target.    *)
(***************************************************************************)
EXTENDS MCMiner

MCZeros(block) == [i \in 0..(HASH_BYTES - 1) |-> 0]

GrowthInit ==
    /\ Init
    /\ mining = TRUE
    /\ threads = Thread
    /\ control = "idle"
    /\ mine = [t \in Thread |-> Loop("loop")]
    /\ pool = [id \in {} |-> id]
    /\ announced = {}

\* The seconds in which a block was mined on the tip.
Taken == {blockCache[h].time : h \in {k \in DOMAIN blockCache : blockCache[k].prev = bestBlockHash}}

\* A second in which a thread may mine on the tip: a block of one second and
\* parent as another's would be that block.  The clock moves no further than
\* it must.
Current(now) == now \notin Taken /\ \A earlier \in Clock \ Taken : now <= earlier

GrowthStep(t) ==
    /\ MiningStep(t)
    /\ In(t, "best") => Current(mine'[t].time)

GrowthNext ==
    \/ Stop
    \/ Join
    \/ \E t \in Thread : GrowthStep(t)

\* Mining threads never block (the search for a nonce ends), and the thread in
\* stop runs once they have left.  Nobody has to call stop.
GrowthSpec ==
    /\ GrowthInit
    /\ [][GrowthNext]_nodeVars
    /\ \A t \in Thread : WF_nodeVars(GrowthStep(t))
    /\ WF_nodeVars(Join)

\* Late commits set the tip back again and again, and whatever they set it
\* back to the threads read next.  Still the chain grows, unless somebody
\* calls stop.
MiningGrows == <>(height = MaxHeight \/ ~mining)
=============================================================================
