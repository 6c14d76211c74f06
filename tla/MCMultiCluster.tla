--------------------------- MODULE MCMultiCluster ---------------------------
(***************************************************************************)
(* Constants of MultiCluster for TLC.                                      *)
(***************************************************************************)
EXTENDS MultiCluster, TLC

(* c1 is always in s1 and always good, c2 moves between the secrets, c3 has *)
(* a kubeconfig that makes no client, and there are useless ones.           *)
MCDataOf ==
  [s \in Secrets |->
     IF s = "s1" THEN {"c1" :> "good" @@ "c2" :> "good", "c1" :> "good" @@ "c2" :> "empty"}
                 ELSE {"c2" :> "good" @@ "c3" :> "noClient", "c3" :> "invalid"}]

MCLimit == "user" :> 3 @@ "fault" :> 4 @@ "restart" :> 1
=============================================================================
