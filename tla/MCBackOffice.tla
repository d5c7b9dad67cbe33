---------------------------- MODULE MCBackOffice ----------------------------
(* Small instances of the modules of the back office, accounts and registry.   *)
(* They share no state: each runs while the other rests in its initial state.   *)
(* They share model values, so that one set of permutations serves both.         *)
EXTENDS Accounts, Registry, TLC

Symmetry == Permutations(Users) \cup Permutations(Emails) \cup Permutations(Passwords)
            \cup Permutations(Sessions) \cup Permutations(Requests)

OfficeInit == Init /\ RegInit

OfficeNext ==
  \/ RegInit /\ Next /\ UNCHANGED regVars
  \/ Init /\ RegNext /\ UNCHANGED vars

OfficeSpec == OfficeInit /\ [][OfficeNext]_<<vars, regVars>>

(* The state is typed, no two accounts share an address and no two rows a key    *)
(* (users, customers, products, applications).                                    *)
OfficeTypeOK == TypeOK /\ EmailIsUnique /\ RegTypeOK /\ KeysAreUnique

(* What was put away stays away, whatever was under way: a deleted account, a     *)
(* revoked key, a removed receiving account.                                       *)
GoneStaysGone == DeletedStaysOut /\ RevokedStaysRevoked /\ RemovedStaysRemoved
=============================================================================
