------------------------------- MODULE MCRil -------------------------------
(* Instances of Ril for TLC. *)
EXTENDS Ril, TLC

\* Clients, requests, descriptors and vendor threads are interchangeable (safety only).
MCSymmetry ==
    Permutations(Client) \cup Permutations(Request) \cup Permutations(Fd) \cup Permutations(Vendor)
=============================================================================
