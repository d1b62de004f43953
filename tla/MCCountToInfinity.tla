------------------------- MODULE MCCountToInfinity -------------------------
(***************************************************************************)
(* Routing between three hosts A - B = C with two links between B and C    *)
(* and a network S behind A.  A stops for good: what B learned of S on one *)
(* link it learns back from C on the other.                                *)
(***************************************************************************)
EXTENDS Routing, TLC

TwinDevices ==
    "A" :> <<"a0", "a1">> @@ "B" :> <<"b1", "b2", "b3">> @@ "C" :> <<"c2", "c3">>
TwinNets ==
    "a0" :> "S" @@ "a1" :> "AB" @@ "b1" :> "AB" @@ "b2" :> "BC" @@ "c2" :> "BC"
    @@ "b3" :> "BC2" @@ "c3" :> "BC2"
TwinPeers ==
    "a0" :> "none" @@ "a1" :> "b1" @@ "b1" :> "a1" @@ "b2" :> "c2" @@ "c2" :> "b2"
    @@ "b3" :> "c3" @@ "c3" :> "b3"
TwinUserRoutes == "A" :> {} @@ "B" :> {} @@ "C" :> {}
TwinWorlds ==
    {[running |-> Hosts, stopping |-> {"A"}, adding |-> {}, restarts |-> 0, late |-> 0]}
=============================================================================
