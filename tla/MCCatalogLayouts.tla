-------------------------- MODULE MCCatalogLayouts --------------------------
(* Every text model of the catalog on one, two, four or eight of three GPUs. *)
EXTENDS CatalogLayouts

MCCards  == {g \in GpuTypes : g.key \in {"H100", "H200", "MI300X"}}
MCUsable == Frac(9, 10)
MCReserved == Whole(2000)
MCLog2   == (1 :> Zero) @@ (2 :> Whole(1)) @@ (4 :> Whole(2)) @@ (8 :> Whole(3))

\* Catalog entries are looked at as they are released; the rest is not used.
MCPublished == [x \in {} |-> Absent]
MCDefault   == [x \in {} |-> Legacy]
MCDecides   == [x \in {} |-> Absent]
MCNone      == [x \in {} |-> Zero]
MCDelay     == [hop |-> Zero, schedule |-> Zero, reject |-> Zero, launch |-> Zero]
MCGrain     == Frac(1, 256)
MCLengths   == <<1024>>
MCWorthwhile == Frac(101, 100)
=============================================================================
