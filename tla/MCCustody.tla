------------------------------ MODULE MCCustody ------------------------------
(* A small instance of Custody: three identities, one with two bodies. *)
EXTENDS Custody, TLC

CONSTANTS p, q, one, two, three, hello, world, later, last, garbage

MCIdentityOf ==
    [body \in {hello, world, later, last, garbage} |->
       CASE body = later -> two [] body = last -> three [] OTHER -> one]

MCProcesses == Permutations(Processes)

(* Position 3 stands for a position that is too long. *)
MCOversized == [source : Sources, position : {3}]
=============================================================================
