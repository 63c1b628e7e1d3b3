----------------------------- MODULE MCAccounts -----------------------------
(* What the modules identity and user keep for one account, on small sets: *)
(* the codes it signs in with, its sessions, its addresses.  Each keeps to *)
(* its own tables and keys and reads nothing of the others, so a behaviour *)
(* exercises one of them, picked at the start, while the others rest.      *)
EXTENDS Sessions, Codes, Addresses, TLC

CONSTANTS Parts     \* the parts to check

VARIABLES part

MCAreaOf == [p \in Pins |-> IF p = "sea" THEN NoArea ELSE p]

AccountInit ==
    /\ part \in Parts
    /\ Init
    /\ CodesInit
    /\ AddressesInit

SessionStep ==
    /\ part = "sessions"
    /\ Next
    /\ UNCHANGED <<codesVars, addressesVars, part>>

CodeStep ==
    /\ part = "codes"
    /\ CodesNext
    /\ UNCHANGED <<vars, addressesVars, part>>

AddressStep ==
    /\ part = "addresses"
    /\ AddressesNext
    /\ UNCHANGED <<vars, codesVars, part>>

AccountNext == SessionStep \/ CodeStep \/ AddressStep

AccountSpec ==
    AccountInit /\ [][AccountNext]_<<vars, codesVars, addressesVars, part>>

(* Parts that rest can share their values with the one that moves: one     *)
(* small group of permutations then serves all three.                      *)
Symmetry == Permutations(Sessions) \cup Permutations(Tokens) \cup Permutations(Requests)

=============================================================================
