----------------------------- MODULE MCCustody -----------------------------
(***************************************************************************)
(* Lifecycle, over Definitions, from four starting points that share out    *)
(* the bounds: two changes on one host, one change with a second store on    *)
(* the machine and more edits, lifecycle requests alone, and one of each     *)
(* with a second machine.                                                    *)
(***************************************************************************)
EXTENDS Lifecycle, TLC

CONSTANTS s1, s2, s3, m1, m2
MCMachineOf == (s1 :> m1) @@ (s2 :> m1) @@ (s3 :> m2)

Start(hosts, changes, lives, usedEdits, usedUpsets) ==
    /\ {s \in Stores : host[s].rev > 0} = hosts
    /\ {r \in Changes : dreq[r].st = "free"} = changes
    /\ {l \in LifeRequests : lreq[l].st = "free"} = lives
    /\ edits = usedEdits /\ upsets = usedUpsets

MCCustodyInit ==
    /\ CustodyInit
    /\ \/ Start({s1}, {1, 2}, {}, 1, 0)
       \/ Start({s1, s2}, {1}, {}, 0, 1)
       \/ Start({s1, s2}, {}, {1}, 0, 0)
       \/ Start({s1, s3}, {1}, {1}, 1, 1)
MCCustodySpec == MCCustodyInit /\ [][CustodyNext]_custodyVars
=============================================================================
