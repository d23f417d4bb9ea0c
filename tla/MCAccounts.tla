----------------------------- MODULE MCAccounts -----------------------------
(* Small instances of Accounts for TLC. *)
EXTENDS Accounts, TLC

CONSTANTS u1, u2

TwoUsers == {u1, u2}
SuperAdminsOnly == [u \in Users |-> "super_admin"]
AdminAndAnalyst == [u \in Users |-> IF u = u1 THEN "super_admin" ELSE "analyst"]

(* Lockout, without and with MFA; sessions; a deletion and a change of role *)
(* with the sessions they end; two super_admins that delete each other.     *)
Mixes ==
  LET mix(o, r, us, m, n, k) ==
        [ops |-> o, roles |-> r, users |-> us, mfa |-> m, pairs |-> n, crashes |-> k]
  IN {mix({"login", "guess"}, AdminAndAnalyst, {u1}, {}, 2, 1),
      mix({"login", "guess"}, AdminAndAnalyst, {u1}, {u1}, 1, 1),
      mix({"login", "refresh", "logout"}, AdminAndAnalyst, {u1}, {}, 3, 1),
      mix({"login", "refresh", "delete"}, AdminAndAnalyst, Users, {}, 3, 0),
      mix({"login", "patch"}, AdminAndAnalyst, Users, {}, 2, 0),
      mix({"login", "delete"}, SuperAdminsOnly, Users, {}, 2, 0)}

CallSymmetry == Permutations(Calls)
=============================================================================
