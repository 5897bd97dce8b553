----------------------------- MODULE MCSessions -----------------------------
(***************************************************************************)
(* Three processes, alike: a master, its successor and a bystander.        *)
(***************************************************************************)
EXTENDS Sessions

Setup(net, lim, ret, ks) == [network |-> net, limit |-> lim, retries |-> ret, kinds |-> ks]

\* Plain opens that are tried twice, over either transport, with room for both
\* clients or for one; opens of every kind that are tried once; and processes
\* that all create the encrypted image.
MCSetups == {Setup(FALSE, 2, 1, {"plain"}), Setup(TRUE, 1, 1, {"plain"}),
             Setup(FALSE, 2, 0, Kind), Setup(TRUE, 1, 0, Kind),
             Setup(FALSE, 1, 1, {"encrypt"})}

MCOneSetup == {Setup(FALSE, 1, 0, {"plain"})}

ProcSymmetry == Permutations(Procs)
==============================================================================
