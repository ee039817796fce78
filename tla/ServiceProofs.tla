--------------------------- MODULE ServiceProofs ---------------------------
(***************************************************************************)
(* The components of MCService run in one specification, of which one step  *)
(* moves one of them: what is invariant in each of them is invariant here.  *)
(***************************************************************************)
EXTENDS MCService, PollProofs, EdgeProofs, DedupProofs

\* The component that runs keeps its invariant, the others are where they began.
ServiceInv ==
    /\ IF part = "poll" THEN PollInv ELSE PollInit
    /\ IF part = "cache" THEN CacheInv /\ CacheTyped ELSE CacheInit
    /\ IF part = "viewers" THEN ViewersInv /\ ViewersBounded ELSE ViewersInit
    /\ IF part = "stats" THEN StatsInv /\ StatsBounded ELSE StatsInit
    /\ IF part = "load" THEN LoadInv ELSE LoadInit
    /\ IF part = "final" THEN FinalInv ELSE FinalInit
    /\ IF part = "dedup" THEN DedupInv ELSE DedupInit

-----------------------------------------------------------------------------
\* Every component begins as it does alone.
LEMMA ServiceInitInv == Init => ServiceInv
<1> SUFFICES ASSUME Init PROVE ServiceInv
  OBVIOUS
<1>1. /\ now = 0 /\ PollInit /\ CacheInit /\ ViewersInit /\ StatsInit /\ LoadInit /\ FinalInit
      /\ DedupInit
  BY DEF Init
<1>2. PollInv /\ CacheInv /\ CacheTyped /\ StatsInv /\ StatsBounded /\ LoadInv
  BY <1>1, PollInitInv, CacheInitInv, CacheInitTyped, StatsInitInv, StatsInitBounded, LoadInitInv
<1>3. ViewersInv /\ ViewersBounded /\ FinalInv /\ DedupInv
  BY <1>1, ViewersInitInv, ViewersInitTyped, FinalInitInv, DedupInitInv
<1> QED
  BY <1>1, <1>2, <1>3 DEF ServiceInv

\* A component that does not run stays where it began.
LEMMA InitsStay ==
  /\ PollInit /\ UNCHANGED pollVars => PollInit'
  /\ CacheInit /\ UNCHANGED cacheVars => CacheInit'
  /\ ViewersInit /\ UNCHANGED viewersVars => ViewersInit'
  /\ StatsInit /\ UNCHANGED statsVars => StatsInit'
  /\ LoadInit /\ UNCHANGED loadVars => LoadInit'
  /\ FinalInit /\ UNCHANGED finalVars => FinalInit'
  /\ DedupInit /\ UNCHANGED dedupVars => DedupInit'
<1>1. PollInit /\ UNCHANGED pollVars => PollInit'
  BY DEF PollInit, pollVars
<1>2. CacheInit /\ UNCHANGED cacheVars => CacheInit'
  BY DEF CacheInit, cacheVars, loads, getters
<1>3. ViewersInit /\ UNCHANGED viewersVars => ViewersInit'
  BY DEF ViewersInit, viewersVars
<1>4. StatsInit /\ UNCHANGED statsVars => StatsInit'
  BY DEF StatsInit, statsVars
<1>5. LoadInit /\ UNCHANGED loadVars => LoadInit'
  BY DEF LoadInit, loadVars
<1>6. FinalInit /\ UNCHANGED finalVars => FinalInit'
  BY DEF FinalInit, finalVars
<1>7. DedupInit /\ UNCHANGED dedupVars => DedupInit'
  BY DEF DedupInit, dedupVars, handler
<1> QED
  BY <1>1, <1>2, <1>3, <1>4, <1>5, <1>6, <1>7

\* A step of one component keeps its invariant.
LEMMA PartsKeep ==
  /\ PollInv /\ [PollNext]_pollVars => PollInv'
  /\ CacheInv /\ CacheTyped /\ [CacheNext]_<<now, cacheVars>> => CacheInv' /\ CacheTyped'
  /\ ViewersInv /\ ViewersBounded /\ [ViewersNext]_<<now, viewersVars>>
       => ViewersInv' /\ ViewersBounded'
  /\ StatsInv /\ StatsBounded /\ [StatsNext]_statsVars => StatsInv' /\ StatsBounded'
  /\ LoadInv /\ [LoadNext]_loadVars => LoadInv'
  /\ FinalInv /\ [FinalNext]_<<now, finalVars>> => FinalInv'
  /\ DedupInv /\ [DedupNext]_dedupVars => DedupInv'
<1>1. PollInv /\ [PollNext]_pollVars => PollInv'
  BY PollNextInv
<1>2. CacheInv /\ CacheTyped /\ [CacheNext]_<<now, cacheVars>> => CacheInv' /\ CacheTyped'
  BY CacheNextInv, CacheTypesKeep
<1>3. ViewersInv /\ ViewersBounded /\ [ViewersNext]_<<now, viewersVars>>
        => ViewersInv' /\ ViewersBounded'
  BY ViewersNextInv, ViewersTypesKeep
<1>4. StatsInv /\ StatsBounded /\ [StatsNext]_statsVars => StatsInv' /\ StatsBounded'
  BY StatsNextInv, StatsTypesKeep
<1>5. LoadInv /\ [LoadNext]_loadVars => LoadInv'
  BY LoadNextInv
<1>6. FinalInv /\ [FinalNext]_<<now, finalVars>> => FinalInv'
  BY FinalNextInv
<1>7. DedupInv /\ [DedupNext]_dedupVars => DedupInv'
  BY DedupNextInv
<1> QED
  BY <1>1, <1>2, <1>3, <1>4, <1>5, <1>6, <1>7

\* A step of the service is a step of the component that runs, and of no other.
LEMMA ServiceNextInv ==
  ASSUME ServiceInv, [Next]_all
  PROVE  ServiceInv'
<1>1. part' = part
  BY DEF Next, all
<1>2. part = "poll" => [PollNext]_pollVars
  BY DEF Next, all
<1>3. part # "poll" => UNCHANGED pollVars
  BY DEF Next, all
<1>4. part = "cache" => [CacheNext]_<<now, cacheVars>>
  BY DEF Next, all
<1>5. part # "cache" => UNCHANGED cacheVars
  BY DEF Next, all
<1>6. part = "viewers" => [ViewersNext]_<<now, viewersVars>>
  BY DEF Next, all
<1>7. part # "viewers" => UNCHANGED viewersVars
  BY DEF Next, all
<1>8. part = "stats" => [StatsNext]_statsVars
  BY DEF Next, all
<1>9. part # "stats" => UNCHANGED statsVars
  BY DEF Next, all
<1>10. part = "load" => [LoadNext]_loadVars
  BY DEF Next, all
<1>11. part # "load" => UNCHANGED loadVars
  BY DEF Next, all
<1>12. part = "final" => [FinalNext]_<<now, finalVars>>
  BY DEF Next, all
<1>13. part # "final" => UNCHANGED finalVars
  BY DEF Next, all
<1>14. part = "dedup" => [DedupNext]_dedupVars
  BY DEF Next, all
<1>15. part # "dedup" => UNCHANGED dedupVars
  BY DEF Next, all
<1>16. IF part' = "poll" THEN PollInv' ELSE PollInit'
  BY <1>1, <1>2, <1>3, PartsKeep, InitsStay DEF ServiceInv
<1>17. IF part' = "cache" THEN CacheInv' /\ CacheTyped' ELSE CacheInit'
  BY <1>1, <1>4, <1>5, PartsKeep, InitsStay DEF ServiceInv
<1>18. IF part' = "viewers" THEN ViewersInv' /\ ViewersBounded' ELSE ViewersInit'
  BY <1>1, <1>6, <1>7, PartsKeep, InitsStay DEF ServiceInv
<1>19. IF part' = "stats" THEN StatsInv' /\ StatsBounded' ELSE StatsInit'
  BY <1>1, <1>8, <1>9, PartsKeep, InitsStay DEF ServiceInv
<1>20. IF part' = "load" THEN LoadInv' ELSE LoadInit'
  BY <1>1, <1>10, <1>11, PartsKeep, InitsStay DEF ServiceInv
<1>21. IF part' = "final" THEN FinalInv' ELSE FinalInit'
  BY <1>1, <1>12, <1>13, PartsKeep, InitsStay DEF ServiceInv
<1>22. IF part' = "dedup" THEN DedupInv' ELSE DedupInit'
  BY <1>1, <1>14, <1>15, PartsKeep, InitsStay DEF ServiceInv
<1> QED
  BY <1>16, <1>17, <1>18, <1>19, <1>20, <1>21, <1>22 DEF ServiceInv

\* Every component keeps its own invariant when the other ones are there too.
THEOREM ServiceInvariance == Spec => []ServiceInv
BY ServiceInitInv, ServiceNextInv, PTL DEF Spec

\* The types of all components, in a service of which any one of them runs.
THEOREM ServiceTypes == Spec => []TypeOK
<1>1. PollInv \/ PollInit => PollTypeOK
  BY PollInitInv, PollInvTypes
<1>2. CacheTyped \/ CacheInit => CacheTypeOK
  BY CacheInitTyped DEF CacheTyped
<1>3. ViewersBounded \/ ViewersInit => ViewersTypeOK
  <2>1. ASSUME ViewersInit
        PROVE  ViewersTypeOK
    <3>1. minted = <<>> /\ DOMAIN minted = {}
      BY <2>1 DEF ViewersInit
    <3> QED
      BY <2>1, <3>1 DEF ViewersInit, ViewersTypeOK
  <2> QED
    BY <2>1 DEF ViewersBounded
<1>4. (StatsInv /\ StatsBounded) \/ StatsInit => StatsTypeOK
  BY StatsInitInv, StatsInitBounded
  DEF StatsInv, StatsTypes, StatsBounded, Lives, StatsTypeOK
<1>5. LoadInv \/ LoadInit => LoadTypeOK
  BY LoadInitInv, LoadInvTypes
<1>6. FinalInv \/ FinalInit => FinalTypeOK
  <2>1. 0 \in 0..Cardinality(Ballots) /\ NoSnapshot \in NoSnapshot..Cardinality(Ballots)
        /\ 0 \in 0..ResultsEnd
    <3>1. Cardinality(Ballots) \in Nat
      BY FS_CardinalityType, FinalAssumption
    <3>2. ResultsEnd \in Nat
      BY FinalAssumption
    <3> QED
      BY <3>1, <3>2 DEF NoSnapshot
  <2>2. ASSUME FinalInit
        PROVE  FinalTypeOK
    <3>1. /\ ballot \in [Ballots -> {"none", "accepted", "counted"}]
          /\ cast \in [Ballots -> 0..ResultsEnd]
          /\ snap \in [Servers -> NoSnapshot..Cardinality(Ballots)]
      BY <2>1, <2>2 DEF FinalInit
    <3> QED
      BY <2>1, <2>2, <3>1 DEF FinalInit, FinalTypeOK
  <2> QED
    BY <2>2 DEF FinalInv
<1>7. DedupInv \/ DedupInit => DedupTypeOK
  BY DedupInitInv DEF DedupInv
<1>8. ServiceInv => TypeOK
  BY <1>1, <1>2, <1>3, <1>4, <1>5, <1>6, <1>7 DEF ServiceInv, TypeOK
<1> QED
  BY <1>8, ServiceInvariance, PTL
=============================================================================
