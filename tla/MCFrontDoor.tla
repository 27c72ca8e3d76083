------------------------------ MODULE MCFrontDoor ------------------------------
EXTENDS FrontDoor, TLC

Symmetry == Permutations(Requests) \cup Permutations(Roles)
================================================================================
