-------------------------- MODULE MCResourceMapper --------------------------
(***************************************************************************)
(* ResourceMapper with three files and one patient client, so that a frame  *)
(* can find more finished loads than it takes, and with two files and two   *)
(* impatient clients that share handles; and one generated resource.        *)
(***************************************************************************)
EXTENDS ResourceMapper

CONSTANTS f1, f2, f3, gen, c1, c2, o1, o2, o3, o4

MCFiles == {f1, f2, f3}
MCGenerated == {gen}
MCClients == {c1, c2}
MCUses == {[files |-> {f1, f2, f3}, clients |-> {c1}, patient |-> TRUE],
           [files |-> {f1, f2}, clients |-> {c1, c2}, patient |-> FALSE]}
FourObjects == {o1, o2, o3, o4}
=============================================================================
