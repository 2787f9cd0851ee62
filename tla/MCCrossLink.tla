---------------------------- MODULE MCCrossLink ----------------------------
(* Instances of CrossLink for TLC: two folders, clusters of two pages.     *)
(* Cluster 0 is the root, 1 and 2 start the folders, 3 and 4 go on with    *)
(* them where they have a third entry, the others are free or in use.      *)
EXTENDS CrossLink, Sequences, TLC

CONSTANTS BI, BE

BothFolders == {BI, BE}
TwoAndTwo == (1 :> BI) @@ (2 :> BI) @@ (3 :> BE) @@ (4 :> BE)
StartOf == (BI :> 1) @@ (BE :> 2)
SecondOf == (BI :> 3) @@ (BE :> 4)

Theirs == [name |-> 0, exists |-> TRUE]
Deleted == [name |-> 0, exists |-> FALSE]

(* The third entry of each folder, if it has one, and the clusters in use. *)
Thirds == {<<>>, <<Theirs>>, <<Deleted>>} \cup {<<[name |-> a, exists |-> TRUE]>> : a \in Aliases}
CardWith(third, used) ==
  LET longer == {f \in BothFolders : third[f] # <<>>}
      seconds == {SecondOf[f] : f \in longer}
      inUse == (0 .. 2) \cup seconds \cup used
  IN  [fat |-> [c \in Clusters |->
                  IF \E f \in longer : c = StartOf[f] THEN c + 2
                  ELSE IF c \in inUse THEN EOC ELSE FREE],
       pages |-> [c \in Clusters |-> [p \in PageNums |->
                  IF c \in seconds /\ p = 0 THEN third[CHOOSE f \in longer : SecondOf[f] = c][1]
                  ELSE [name |-> 0, exists |-> c \notin seconds]]],
       len |-> [f \in BothFolders |-> 2 + Len(third[f])]]

(* The original is the third entry of its folder, or in another folder.    *)
Starts(uses) ==
  {from \in [third : [BothFolders -> Thirds], used : uses, original : 1 .. NumAliases + 1] :
     \A f \in BothFolders, a \in Aliases :
       (from.third[f] = <<[name |-> a, exists |-> TRUE]>>)
         = (a = from.original /\ f = FolderOf[a])}
InstallationsWith(uses) ==
  {[fs |-> CardWith(from.third, from.used), original |-> from.original] : from \in Starts(uses)}

AnyRoom == InstallationsWith({{}, {5}, 3 .. NumClusters - 1})
=============================================================================
