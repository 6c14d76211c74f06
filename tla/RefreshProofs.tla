--------------------------- MODULE RefreshProofs ----------------------------
(***************************************************************************)
(* Why refreshes keep the EnvoyFilters of different revisions apart,       *)
(* although they read them through a cache that lags.                      *)
(***************************************************************************)
EXTENDS LimiterProofs

(* A copy of an EnvoyFilter that claims to be current is; an outdated one   *)
(* may have another spec and another owner, or be of one that is gone or    *)
(* not know one that is there, but never has another revision.              *)
CopyOK(copy, live) ==
  /\ DOMAIN copy = {"obj", "current"}
  /\ copy.current => copy.obj = live
  /\ copy.obj # Nil /\ live # Nil => copy.obj.rev = live.rev

CopyInv ==
  /\ DOMAIN ef = Svc /\ DOMAIN efCache = Svc
  /\ \A s \in Svc : DOMAIN ef[s] = SetNames /\ DOMAIN efCache[s] = SetNames
  /\ \A s \in Svc, x \in SetNames : CopyOK(efCache[s][x], ef[s][x])

(* A copy of a synchronised informer is what it is a copy of.               *)
LEMMA SyncedOK == \A live : CopyOK(Synced(live), live)
  BY DEF CopyOK, Synced

(* No EnvoyFilter and no copy yet.                                          *)
LEMMA InitCopies == Init => CopyInv
  <1> SUFFICES ASSUME Init PROVE CopyInv
    OBVIOUS
  <1>1. /\ ef = [s \in Svc |-> [x \in SetNames |-> Nil]]
        /\ efCache = [s \in Svc |-> [x \in SetNames |-> Synced(Nil)]]
    BY DEF Init, InitState
  <1> QED
    BY <1>1, SyncedOK DEF CopyInv

(* A synchronised cache has good copies.                                    *)
LEMMA SyncKeeps ==
  ASSUME CopyInv, efCache' = SyncedEnvoyFilters, ef' = ef
  PROVE  CopyInv'
  <1>1. /\ DOMAIN efCache' = Svc /\ \A s \in Svc : DOMAIN efCache'[s] = SetNames
        /\ \A s \in Svc, x \in SetNames : efCache'[s][x] = Synced(ef[s][x])
    BY DEF SyncedEnvoyFilters
  <1> QED
    BY <1>1, SyncedOK DEF CopyInv

(* A write that does not replace what the copy shows by an EnvoyFilter of   *)
(* another revision keeps the copies good, and touches one EnvoyFilter.     *)
LEMMA WriteKeeps ==
  ASSUME CopyInv, NEW s \in Svc, NEW x \in SetNames, NEW new, WriteEnvoyFilter(s, x, new),
         efCache[s][x].obj # Nil /\ new # Nil => efCache[s][x].obj.rev = new.rev
  PROVE  /\ CopyInv'
         /\ ef'[s][x] = new
         /\ \A t \in Svc, y \in SetNames : ef'[t][y] # ef[t][y] => t = s /\ y = x
  <1>1. /\ DOMAIN ef' = Svc /\ \A t \in Svc : DOMAIN ef'[t] = SetNames
        /\ ef'[s][x] = new
        /\ \A t \in Svc, y \in SetNames : t # s \/ y # x => ef'[t][y] = ef[t][y]
    BY DEF WriteEnvoyFilter, CopyInv
  <1>2. CASE efCache' = [efCache EXCEPT ![s][x] = Synced(new)]
    <2>1. /\ DOMAIN efCache' = Svc /\ \A t \in Svc : DOMAIN efCache'[t] = SetNames
          /\ efCache'[s][x] = Synced(new)
          /\ \A t \in Svc, y \in SetNames : t # s \/ y # x => efCache'[t][y] = efCache[t][y]
      BY <1>2 DEF CopyInv
    <2> QED
      BY <1>1, <2>1, SyncedOK DEF CopyInv
  <1>3. CASE efCache' = [efCache EXCEPT ![s][x].current = FALSE]
    <2>1. DOMAIN efCache[s][x] = {"obj", "current"}
      BY DEF CopyInv, CopyOK
    <2>2. /\ DOMAIN efCache' = Svc /\ \A t \in Svc : DOMAIN efCache'[t] = SetNames
          /\ efCache'[s][x] = [efCache[s][x] EXCEPT !.current = FALSE]
          /\ \A t \in Svc, y \in SetNames : t # s \/ y # x => efCache'[t][y] = efCache[t][y]
      BY <1>3 DEF CopyInv
    <2>3. CopyOK(efCache'[s][x], new)
      BY <2>1, <2>2 DEF CopyOK
    <2> QED
      BY <1>1, <2>2, <2>3 DEF CopyInv
  <1> QED
    BY <1>1, <1>2, <1>3 DEF WriteEnvoyFilter

(* The EnvoyFilter of set x of service s is collected, or it is written by  *)
(* a refresh of its own revision, which leaves it that revision.            *)
OwnChange(s, x) ==
  \/ cons' = cons /\ Orphan(s, x) /\ ef'[s][x] = Nil
  \/ /\ cons.pc = "ef" /\ cons.svc = s /\ cons.obj.rev = ef[s][x].rev
     /\ ef'[s][x] # Nil => ef'[s][x].rev = ef[s][x].rev

OwnChanges ==
  \A s \in Svc, x \in SetNames : ef[s][x] # Nil /\ ef'[s][x] # ef[s][x] => OwnChange(s, x)

(* One write of a refresh.  What it compares the revision with is a copy;   *)
(* Update only succeeds on a current one, and Delete only hits what has the *)
(* revision of the copy.                                                    *)
LEMMA RefreshEfApart ==
  ASSUME TypeOK, CopyInv, NEW x \in SetNames, RefreshEnvoyFilter(x)
  PROVE  CopyInv' /\ OwnChanges
  <1> DEFINE s == cons.svc
             new == GeneratedEnvoyFilter(cons.out.efs[x], cons.obj)
  <1>1. cons.pc = "ef" /\ s \in Svc
    BY DEF RefreshEnvoyFilter, TypeOK, ConsOK
  <1>2. new.rev = cons.obj.rev
    BY DEF GeneratedEnvoyFilter
  <1>3. CopyOK(efCache[s][x], ef[s][x])
    BY <1>1 DEF CopyInv
  <1>4. CASE Creates(x) /\ WriteEnvoyFilter(s, x, new)
    <2>1. efCache[s][x].obj = Nil /\ ef[s][x] = Nil
      BY <1>4 DEF Creates, Found
    <2> HIDE DEF new, s
    <2> QED
      BY <1>1, <1>4, <2>1, WriteKeeps DEF OwnChanges
  <1>5. CASE Updates(x) /\ WriteEnvoyFilter(s, x, new)
    <2>1. /\ efCache[s][x].obj.rev = cons.obj.rev
          /\ efCache[s][x].obj = ef[s][x] /\ efCache[s][x].obj # Nil
      BY <1>3, <1>5 DEF Updates, Found, SameRevision, CopyOK
    <2> HIDE DEF new
    <2>2. /\ CopyInv' /\ ef'[s][x] = new
          /\ \A t \in Svc, y \in SetNames : ef'[t][y] # ef[t][y] => t = s /\ y = x
      BY <1>1, <1>2, <1>5, <2>1, WriteKeeps
    <2>3. OwnChange(s, x)
      BY <1>1, <1>2, <2>1, <2>2 DEF OwnChange
    <2> HIDE DEF s
    <2> QED
      BY <2>2, <2>3 DEF OwnChanges
  <1>6. CASE Deletes(x) /\ WriteEnvoyFilter(s, x, Nil)
    <2>1. efCache[s][x].obj.rev = cons.obj.rev /\ efCache[s][x].obj # Nil /\ ef[s][x] # Nil
      BY <1>6 DEF Deletes, Found, SameRevision
    <2>2. ef[s][x].rev = cons.obj.rev
      BY <1>3, <2>1 DEF CopyOK
    <2>3. /\ CopyInv' /\ ef'[s][x] = Nil
          /\ \A t \in Svc, y \in SetNames : ef'[t][y] # ef[t][y] => t = s /\ y = x
      BY <1>1, <1>6, WriteKeeps
    <2>4. OwnChange(s, x)
      BY <1>1, <2>2, <2>3 DEF OwnChange
    <2> HIDE DEF s
    <2> QED
      BY <2>3, <2>4 DEF OwnChanges
  <1>7. CASE UNCHANGED <<ef, efCache>>
    BY <1>7 DEF CopyInv, OwnChanges
  <1> HIDE DEF new
  <1> QED
    BY <1>4, <1>5, <1>6, <1>7 DEF RefreshEnvoyFilter, new

(* The invariant is inductive, and every change of an EnvoyFilter is one    *)
(* that its revision allows.                                                *)
LEMMA CopyStep ==
  ASSUME TypeOK, CopyInv, [Next]_vars
  PROVE  CopyInv' /\ OwnChanges
  <1>1. ASSUME UNCHANGED <<ef, efCache>> PROVE CopyInv' /\ OwnChanges
    BY <1>1 DEF CopyInv, OwnChanges
  <1>2. CASE ClusterNext
    <2>1. ASSUME NEW s \in Svc, NEW x \in SetNames, GarbageCollect(s, x)
          PROVE  CopyInv' /\ OwnChanges
      <3>1. Orphan(s, x) /\ WriteEnvoyFilter(s, x, Nil) /\ cons' = cons
        BY <2>1 DEF GarbageCollect
      <3>2. /\ CopyInv' /\ ef'[s][x] = Nil
            /\ \A t \in Svc, y \in SetNames : ef'[t][y] # ef[t][y] => t = s /\ y = x
        BY <3>1, WriteKeeps
      <3> QED
        BY <3>1, <3>2 DEF OwnChanges, OwnChange
    <2>2. CASE Crash \/ SyncEnvoyFilters
      <3>1. efCache' = SyncedEnvoyFilters /\ ef' = ef
        BY <2>2 DEF Crash, SyncEnvoyFilters
      <3> QED
        BY <3>1, SyncKeeps DEF OwnChanges
    <2>3. CASE Users \/ Surroundings \/ SyncCache \/ \E s \in Svc : ReconcileDestinationRule(s)
      BY <1>1, <2>3 DEF Users, Surroundings, Apply, Delete, Resync, SetSubsets, ChangeWorld,
                        SyncCache, ReconcileDestinationRule, objVars
    <2> QED
      BY <1>2, <2>1, <2>2, <2>3 DEF ClusterNext
  <1>3. CASE ReconcileNext
    BY <1>1, <1>3 DEF ReconcileNext, ReconcileStep, ReconcileGet, ReconcileUpsert, ReconcilePop,
                      ReconcileUninterest, ReconcileCmGet, ReconcileCmPut, ReconcileCmFault, objVars
  <1>4. CASE ProducerNext
    BY <1>1, <1>4 DEF ProducerNext, handleTickerEvent, TickerFault, handleWatcherEvent, Send,
                      vars, objVars
  <1>5. CASE ConsumerNext
    <2>1. CASE \E x \in SetNames : RefreshEnvoyFilter(x)
      BY <2>1, RefreshEfApart
    <2>2. CASE ConsumerNext /\ ~(\E x \in SetNames : RefreshEnvoyFilter(x))
      BY <1>1, <2>2 DEF ConsumerNext, RefreshStep, ReceiveMetric, ConsumeMetric, RefreshGet,
                        RefreshGenerate, RefreshCmGet, RefreshCmPut, RefreshStatus, RefreshFault,
                        objVars
    <2> QED
      BY <1>5, <2>1, <2>2
  <1>6. CASE UNCHANGED vars
    BY <1>1, <1>6 DEF vars, objVars
  <1> QED
    BY <1>2, <1>3, <1>4, <1>5, <1>6 DEF Next

(* An EnvoyFilter is changed or deleted only by a refresh of its own        *)
(* revision, or collected as an orphan, for any number of services,         *)
(* subsets, revisions, changes, deletions, faults and restarts, and however *)
(* late the informer sees the writes (refreshEnvoyFilter, process.go:       *)
(* 236-305).                                                                *)
THEOREM RevisionsStayApart == Spec => RevisionsApart
  <1>1. TypeOK /\ CopyInv /\ [Next]_vars => CopyInv'
    BY CopyStep
  <1>2. TypeOK /\ CopyInv /\ [Next]_vars =>
          [\A s \in Svc, x \in SetNames : ef[s][x] # Nil /\ ef'[s][x] # ef[s][x] =>
             \/ cons' = cons /\ Orphan(s, x) /\ ef'[s][x] = Nil
             \/ /\ cons.pc = "ef" /\ cons.svc = s /\ cons.obj.rev = ef[s][x].rev
                /\ ef'[s][x] # Nil => ef'[s][x].rev = ef[s][x].rev]_vars
    BY CopyStep DEF OwnChanges, OwnChange
  <1> QED
    BY <1>1, <1>2, InitCopies, TypeCorrect, PTL DEF Spec, RevisionsApart
=============================================================================
