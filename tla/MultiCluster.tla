---------------------------- MODULE MultiCluster ----------------------------
(***************************************************************************)
(* The controller of member clusters, controllers/multicluster/controller. *)
(* go: secrets in the namespace istio-mc hold the kubeconfigs of member    *)
(* clusters, an informer watches them, and one worker tells subscribers    *)
(* which clusters join and leave.                                          *)
(*                                                                         *)
(* A secret maps cluster IDs to kubeconfigs.  Of a kubeconfig only what    *)
(* addMemberCluster finds out about it is kept: it is empty, it does not   *)
(* load or validate, no client can be made from it, or it is good.         *)
(*                                                                         *)
(* Only the worker touches cs and calls the subscribers, so processItem is *)
(* two steps: looking the secret up in the cache, and acting upon the copy *)
(* found there, which may be old by then.                                  *)
(***************************************************************************)
EXTENDS Integers

CONSTANTS
  Nil,
  Secrets,      \* names of secrets
  Clusters,     \* cluster IDs
  DataOf,       \* secret -> the data it may hold
  maxRetries,
  Limit         \* bound on each kind of environment step

KubeConfigs == {"empty", "invalid", "noClient", "good"}

Kinds == {"user", "fault", "restart"}

ASSUME MultiClusterAssumption ==
  /\ Nil \notin Secrets
  /\ DOMAIN DataOf = Secrets
  /\ \A s \in Secrets : \A data \in DataOf[s] :
       /\ data # Nil
       /\ DOMAIN data \subseteq Clusters
       /\ \A c \in DOMAIN data : data[c] \in KubeConfigs
  /\ maxRetries \in Nat
  /\ Limit \in [Kinds -> Nat]

VARIABLES
  secrets,    \* secret -> its data in the API server, or Nil
  store,      \* the informer's copy of secrets
  events,     \* secrets with an add or delete notification under way
  queue,      \* the work queue
  delayed,    \* secrets that AddRateLimited will put into it
  requeues,   \* secret -> NumRequeues
  worker,     \* [pc, secret, obj]
  cs,         \* cluster -> the secret it was added from, or Nil
  live,       \* clusters whose client was handed to the subscribers
  updated,    \* history: secrets whose data the informer has replaced since
              \* it notified of them, for which there is no handler
  abandoned,  \* history: secrets processNextItem gave up on
  used        \* environment steps taken, by kind

infVars == <<secrets, store, events, updated>>
memVars == <<cs, live>>
vars == <<infVars, queue, delayed, requeues, worker, memVars, abandoned, used>>

Idle == [pc |-> "idle", secret |-> Nil, obj |-> Nil]

Existing == {s \in Secrets : secrets[s] # Nil}

(* Run waits for the first list of the informer before it starts the worker. *)
Init ==
  /\ secrets \in [Secrets -> {Nil} \cup UNION {DataOf[s] : s \in Secrets}]
  /\ \A s \in Secrets : secrets[s] # Nil => secrets[s] \in DataOf[s]
  /\ store = secrets
  /\ events = Existing
  /\ queue = {} /\ delayed = {}
  /\ requeues = [s \in Secrets |-> 0]
  /\ worker = Idle
  /\ cs = [c \in Clusters |-> Nil]
  /\ live = {}
  /\ updated = {} /\ abandoned = {}
  /\ used = [k \in Kinds |-> 0]

Spend(kind) ==
  /\ used[kind] < Limit[kind]
  /\ used' = [used EXCEPT ![kind] = @ + 1]

-----------------------------------------------------------------------------
(* Users create, rewrite and delete secrets.                                *)
Put(s, data) ==
  /\ secrets[s] # data
  /\ Spend("user")
  /\ secrets' = [secrets EXCEPT ![s] = data]
  /\ UNCHANGED <<store, events, updated, queue, delayed, requeues, worker,
                 memVars, abandoned>>

(* The informer catches up with one secret.  Handlers are registered for    *)
(* additions and deletions only; a secret that was deleted and created      *)
(* again before a relist is an update, too.                                 *)
SyncStore(s) ==
  /\ store[s] # secrets[s]
  /\ store' = [store EXCEPT ![s] = secrets[s]]
  /\ IF store[s] # Nil /\ secrets[s] # Nil
     THEN updated' = updated \cup {s} /\ UNCHANGED events
     ELSE updated' = updated \ {s} /\ events' = events \cup {s}
  /\ UNCHANGED <<secrets, queue, delayed, requeues, worker, memVars, abandoned, used>>

(* AddFunc, DeleteFunc.                                                     *)
HandleEvent(s) ==
  /\ s \in events
  /\ events' = events \ {s}
  /\ queue' = queue \cup {s}
  /\ UNCHANGED <<secrets, store, updated, delayed, requeues, worker, memVars,
                 abandoned, used>>

(* The back-off of AddRateLimited is over.                                  *)
AddDelayed(s) ==
  /\ s \in delayed
  /\ delayed' = delayed \ {s}
  /\ queue' = queue \cup {s}
  /\ UNCHANGED <<infVars, requeues, worker, memVars, abandoned, used>>

-----------------------------------------------------------------------------
(* processNextItem takes a secret from the queue, processItem looks it up.  *)
ProcessItem(s) ==
  /\ worker.pc = "idle"
  /\ s \in queue
  /\ queue' = queue \ {s}
  /\ worker' = [pc |-> IF store[s] # Nil THEN "add" ELSE "delete",
                secret |-> s, obj |-> store[s]]
  /\ UNCHANGED <<infVars, delayed, requeues, memVars, abandoned, used>>

ProcessItemFails_OffByOne(s) ==
  /\ worker.pc = "idle"
  /\ s \in queue
  /\ Spend("fault")
  /\ queue' = queue \ {s}
  /\ IF requeues[s] <= maxRetries
     THEN /\ requeues' = [requeues EXCEPT ![s] = @ + 1]
          /\ delayed' = delayed \cup {s}
          /\ UNCHANGED abandoned
     ELSE /\ requeues' = [requeues EXCEPT ![s] = 0]
          /\ abandoned' = abandoned \cup {s}
          /\ UNCHANGED delayed
  /\ UNCHANGED <<infVars, worker, memVars>>

(* The lookup fails: another try after a while, up to maxRetries of them.   *)
ProcessItemFails(s) ==
  /\ worker.pc = "idle"
  /\ s \in queue
  /\ Spend("fault")
  /\ queue' = queue \ {s}
  /\ IF requeues[s] < maxRetries
     THEN /\ requeues' = [requeues EXCEPT ![s] = @ + 1]
          /\ delayed' = delayed \cup {s}
          /\ UNCHANGED abandoned
     ELSE /\ requeues' = [requeues EXCEPT ![s] = 0]
          /\ abandoned' = abandoned \cup {s}
          /\ UNCHANGED delayed
  /\ UNCHANGED <<infVars, worker, memVars>>

(* No error: Forget and Done.                                               *)
ItemDone ==
  /\ requeues' = [requeues EXCEPT ![worker.secret] = 0]
  /\ abandoned' = abandoned \ {worker.secret}
  /\ worker' = Idle
  /\ UNCHANGED <<infVars, queue, delayed, used>>

Accepted(data, c) == c \in DOMAIN data /\ data[c] \in {"noClient", "good"}

addMemberCluster_EndsAtBadData ==
  LET new == {c \in Clusters : cs[c] = Nil /\ Accepted(worker.obj, c)}
      bad == {c \in DOMAIN worker.obj : cs[c] = Nil} \ new
  IN  /\ worker.pc = "add"
      /\ \E done \in SUBSET new :
           /\ bad = {} => done = new
           /\ cs' = [c \in Clusters |-> IF c \in done THEN worker.secret ELSE cs[c]]
           /\ live' = live \cup {c \in done : worker.obj[c] = "good"}
      /\ ItemDone

addMemberCluster_SubscribesLast ==
  LET new == {c \in Clusters : cs[c] = Nil /\ Accepted(worker.obj, c)}
      good == {c \in new : worker.obj[c] = "good"}
  IN  /\ worker.pc = "add"
      /\ cs' = [c \in Clusters |-> IF c \in new THEN worker.secret ELSE cs[c]]
      /\ IF good = {} THEN live' = live ELSE \E last \in good : live' = live \cup {last}
      /\ ItemDone

(* A cluster ID that is known already, from whichever secret, is left as it *)
(* is.  The cluster is entered before its client is made, and stays entered *)
(* when that fails.                                                         *)
addMemberCluster ==
  LET new == {c \in Clusters : cs[c] = Nil /\ Accepted(worker.obj, c)}
  IN  /\ worker.pc = "add"
      /\ cs' = [c \in Clusters |-> IF c \in new THEN worker.secret ELSE cs[c]]
      /\ live' = live \cup {c \in new : worker.obj[c] = "good"}
      /\ ItemDone

deleteMemberCluster_KeepsEntry ==
  LET own == {c \in Clusters : cs[c] = worker.secret}
  IN  /\ worker.pc = "delete"
      /\ cs' = cs
      /\ live' = live \ own
      /\ ItemDone

deleteMemberCluster ==
  LET own == {c \in Clusters : cs[c] = worker.secret}
  IN  /\ worker.pc = "delete"
      /\ cs' = [c \in Clusters |-> IF c \in own THEN Nil ELSE cs[c]]
      /\ live' = live \ own
      /\ ItemDone

(* A new process: New, and the first list.                                  *)
Restart ==
  /\ Spend("restart")
  /\ store' = secrets
  /\ events' = Existing
  /\ queue' = {} /\ delayed' = {}
  /\ requeues' = [s \in Secrets |-> 0]
  /\ worker' = Idle
  /\ cs' = [c \in Clusters |-> Nil]
  /\ live' = {}
  /\ updated' = {} /\ abandoned' = {}
  /\ UNCHANGED secrets

-----------------------------------------------------------------------------
Worker ==
  \/ \E s \in Secrets : ProcessItem(s)
  \/ addMemberCluster
  \/ deleteMemberCluster

Next ==
  \/ \E s \in Secrets : \E data \in DataOf[s] \cup {Nil} : Put(s, data)
  \/ \E s \in Secrets : SyncStore(s) \/ HandleEvent(s) \/ AddDelayed(s)
  \/ \E s \in Secrets : ProcessItemFails(s)
  \/ Worker
  \/ Restart

(* The informer and its notifications get through, back-offs end, and the   *)
(* worker runs; users, failing lookups and restarts are not fair.           *)
Fairness ==
  /\ \A s \in Secrets : WF_vars(SyncStore(s)) /\ WF_vars(HandleEvent(s))
                        /\ WF_vars(AddDelayed(s))
  /\ WF_vars(Worker)

Spec == Init /\ [][Next]_vars

FairSpec == Spec /\ Fairness

-----------------------------------------------------------------------------
OptionalData(s) == DataOf[s] \cup {Nil}

(* The worker has data in hand only of a secret that may hold it, retries   *)
(* stay within maxRetries, and the subscribers have clients of members only. *)
TypeOK ==
  /\ DOMAIN secrets = Secrets /\ DOMAIN store = Secrets
  /\ \A s \in Secrets : secrets[s] \in OptionalData(s) /\ store[s] \in OptionalData(s)
  /\ events \subseteq Secrets /\ queue \subseteq Secrets /\ delayed \subseteq Secrets
  /\ requeues \in [Secrets -> 0..maxRetries]
  /\ worker.pc \in {"idle", "add", "delete"}
  /\ worker.pc # "idle" => worker.secret \in Secrets
  /\ worker.pc = "add" => worker.obj \in DataOf[worker.secret]
  /\ cs \in [Clusters -> Secrets \cup {Nil}]
  /\ live \subseteq {c \in Clusters : cs[c] # Nil}

(* The controller has nothing left to do.                                   *)
CaughtUp ==
  /\ store = secrets
  /\ events = {} /\ queue = {} /\ delayed = {}
  /\ worker.pc = "idle"

(* No other secret ever offers the cluster.                                 *)
Sole(s, c) ==
  \A t \in Secrets \ {s} : \A data \in DataOf[t] : ~Accepted(data, c)

(* Once it has caught up, no cluster is a member for a secret that is gone: *)
(* whatever order deletions, re-creations, late notifications, retries and  *)
(* the worker's look at the cache take, a deletion is not lost between      *)
(* DeleteFunc, the deduplicating queue and GetByKey.                        *)
MembersBacked ==
  CaughtUp => \A c \in Clusters :
    cs[c] # Nil => secrets[cs[c]] # Nil \/ cs[c] \in abandoned

(* And every cluster in a secret is a member, unless the secret was changed *)
(* in place, for which controller.go has no handler, or another secret has  *)
(* the same cluster ID.                                                     *)
MembersComplete ==
  CaughtUp => \A s \in Secrets \ (updated \cup abandoned) :
    \A c \in Clusters :
      /\ secrets[s] # Nil
      /\ Accepted(secrets[s], c)
      /\ Sole(s, c)
      => cs[c] = s

(* When users leave the secrets alone, the subscribers end up with a client *)
(* for exactly those clusters whose secret exists, of the clusters that are *)
(* always good and in one secret only: joins and departures are announced   *)
(* in the end, in spite of failing lookups and restarts.                    *)
Settles ==
  <>[](\A s \in Secrets \ abandoned : \A c \in Clusters :
         Sole(s, c) /\ (\A data \in DataOf[s] : c \in DOMAIN data /\ data[c] = "good") =>
           (c \in live <=> secrets[s] # Nil))
=============================================================================
