-------------------------- MODULE MCGameObjectPool --------------------------
(* GameObjectPool for TLC: the objects of the pool are interchangeable. *)
EXTENDS GameObjectPool, TLC

Interchangeable == Permutations(Slots)
=============================================================================
