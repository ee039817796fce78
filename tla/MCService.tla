----------------------------- MODULE MCService -----------------------------
(* The components that share no state with each other, each on its own: part says which one
   of them runs, and the others stay as they are. *)
EXTENDS PollModel, PollCache, Viewers, AccessStats, LoadGen, FinalResults, Dedup, TLC

CONSTANTS s1, s2, u1

LatencyOf == s1 :> 1 @@ s2 :> 2
StatusOf == s1 :> 200 @@ s2 :> 418
TrackedStatuses == <<200>>
\* All attempts to vote are of one voter.
OneVoter == [a \in Attempts |-> u1]

VARIABLE part

all == <<part, now, pollVars, cacheVars, viewersVars, statsVars, loadVars, finalVars, dedupVars>>

Init ==
    /\ part \in {"poll", "cache", "viewers", "stats", "load", "final", "dedup"}
    /\ now = 0
    /\ PollInit /\ CacheInit /\ ViewersInit /\ StatsInit /\ LoadInit /\ FinalInit /\ DedupInit

Next ==
    /\ UNCHANGED part
    /\ \/ /\ part = "poll" /\ PollNext
          /\ UNCHANGED <<now, cacheVars, viewersVars, statsVars, loadVars, finalVars, dedupVars>>
       \/ /\ part = "cache" /\ CacheNext
          /\ UNCHANGED <<pollVars, viewersVars, statsVars, loadVars, finalVars, dedupVars>>
       \/ /\ part = "viewers" /\ ViewersNext
          /\ UNCHANGED <<pollVars, cacheVars, statsVars, loadVars, finalVars, dedupVars>>
       \/ /\ part = "stats" /\ StatsNext
          /\ UNCHANGED <<now, pollVars, cacheVars, viewersVars, loadVars, finalVars, dedupVars>>
       \/ /\ part = "load" /\ LoadNext
          /\ UNCHANGED <<now, pollVars, cacheVars, viewersVars, statsVars, finalVars, dedupVars>>
       \/ /\ part = "final" /\ FinalNext
          /\ UNCHANGED <<pollVars, cacheVars, viewersVars, statsVars, loadVars, dedupVars>>
       \/ /\ part = "dedup" /\ DedupNext
          /\ UNCHANGED <<now, pollVars, cacheVars, viewersVars, statsVars, loadVars, finalVars>>

\* The fair steps of a component are disabled until it has been started.
Spec == Init /\ [][Next]_all /\ CacheFairness /\ LoadFairness /\ DedupFairness

TypeOK ==
    /\ PollTypeOK /\ CacheTypeOK /\ ViewersTypeOK /\ StatsTypeOK /\ LoadTypeOK /\ FinalTypeOK
    /\ DedupTypeOK
=============================================================================
