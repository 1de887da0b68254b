-------------------------- MODULE MCPayloadUpdate --------------------------
(* Instances of PayloadUpdate for TLC: a legacy release and two more, the  *)
(* second of which ships the runtime archive of the first.                 *)
EXTENDS PayloadUpdate, TLC

CONSTANTS r0, r1, r2

MCReleases  == {r0, r1, r2}
MCArchiveOf == (r0 :> r0) @@ (r1 :> r1) @@ (r2 :> r1)

(* -runtime-release left at its default: one release for both payloads. *)
MCWants == {[p \in Payloads |-> r] : r \in {r1, r2}}
=============================================================================
