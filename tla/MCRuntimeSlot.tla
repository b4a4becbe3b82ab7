--------------------------- MODULE MCRuntimeSlot ---------------------------
(* Instances of RuntimeSlot for TLC: one router backend ("llamacpp"), one   *)
(* exclusive backend ("mlx"), two or three profiles.                        *)
EXTENDS RuntimeSlot, TLC

CONSTANTS p1, p2

Doc(b, a, m) == [backend |-> b, addr |-> a, model |-> m]

MCProfiles == {p1, p2}
MCBackends == {"llamacpp", "mlx"}
MCRouters == {"llamacpp"}
MCAddrs == {"a1", "a2"}
MCDocs == [backend : MCBackends, addr : MCAddrs, model : {"m1", "m2"}]

\* Two router profiles on one address: the second joins the first's process.
StoreShared == p1 :> Doc("llamacpp", "a1", "m1") @@ p2 :> Doc("llamacpp", "a1", "m1")
\* A router profile and an exclusive one.
StoreMixed == p1 :> Doc("llamacpp", "a1", "m1") @@ p2 :> Doc("mlx", "a2", "m1")
\* Two exclusive profiles.
StoreExclusive == p1 :> Doc("mlx", "a1", "m1") @@ p2 :> Doc("mlx", "a1", "m1")
\* Router profiles on different addresses.
StoreApart == p1 :> Doc("llamacpp", "a1", "m1") @@ p2 :> Doc("llamacpp", "a2", "m1")
\* One router profile; the other is created by a client.
StoreOne == p1 :> Doc("llamacpp", "a1", "m1") @@ p2 :> None

NoPuts == {}
\* A client edits a profile's model, or creates it.
PutModels == {<<p1, Doc("llamacpp", "a1", "m2")>>, <<p2, Doc("llamacpp", "a1", "m2")>>}
\* A client creates a router profile.
PutOne == {<<p2, Doc("llamacpp", "a1", "m2")>>}
\* A client moves a profile to another address, or edits the other's model.
PutAddr == {<<p1, Doc("llamacpp", "a2", "m1")>>, <<p2, Doc("llamacpp", "a1", "m2")>>}

\* Callers are interchangeable.
Symmetry == Permutations(Callers)
=============================================================================
