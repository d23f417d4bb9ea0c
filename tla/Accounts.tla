------------------------------ MODULE Accounts ------------------------------
(***************************************************************************)
(* Sessions and accounts of the API gateway: login with its lockout,       *)
(* refresh and logout (services/authService.ts), the bearer check          *)
(* (middleware/auth.ts), and the update and deletion of users              *)
(* (routes/admin.ts, services/userService.ts).  Calls run concurrently; an *)
(* action is what happens between two awaits on PostgreSQL, Redis or       *)
(* bcrypt.  Redis keys live in sets; a TTL is an action that may come at   *)
(* any time, but Tick says when the second in which tokens are issued      *)
(* ends, which is what iat and user_invalidated are compared by.           *)
(*                                                                         *)
(* The roles are those of UserRole and of docs/MODEL.md; the user_role     *)
(* type of the deployed schema has only "admin" of them.                   *)
(***************************************************************************)
EXTENDS Integers, Sequences, FiniteSets

CONSTANTS
  Users,       \* rows of the users table
  Calls,       \* requests in progress at a time
  Clients,     \* the mixes of requests to look at
  NewRoles,    \* the roles an update may assign
  MaxFailed,   \* MAX_FAILED_ATTEMPTS
  MaxGuesses   \* bound on the wrong passwords tried

(* "guess" is a login with a wrong password. *)
OperationKinds == {"login", "guess", "refresh", "logout", "patch", "delete"}

(* ROLE_HIERARCHY of rbac.ts, ROLE_RANK of admin.ts. *)
Rank == [viewer |-> 0, analyst |-> 1, admin |-> 2, super_admin |-> 3]
Roles == DOMAIN Rank

(* What is requested, the first roles of the users, who logs in, who has    *)
(* mfa_enabled, and bounds on the token pairs issued and on the requests    *)
(* that die half-way.                                                       *)
Mix == [ops : SUBSET OperationKinds, roles : [Users -> Roles], users : SUBSET Users,
        mfa : SUBSET Users, pairs : Nat, crashes : Nat]

ASSUME AccountsAssumption ==
  /\ Clients \subseteq Mix /\ NewRoles \subseteq Roles
  /\ Users # {} /\ Calls # {} /\ IsFiniteSet(Calls)
  /\ MaxFailed \in Nat \ {0, 1} /\ MaxGuesses \in Nat

VARIABLES
  clients,  \* the mix of requests of this behaviour
  row,      \* role and status of a user
  pairs,    \* the token pairs issued: their user, role, and the pair refreshed for it
  recent,   \* the pairs issued in the current second
  cut,      \* the pairs with iat < user_invalidated:<sub>
  out,      \* the access tokens that have expired or have a revoked: key
  spent,    \* the refresh tokens with a revoked: key
  fails,    \* fail_count:<user>
  dated,    \* whether that key has a TTL
  locked,   \* lockout:<user> exists
  call,     \* what each request in progress does
  guesses,  \* wrong passwords compared since the count was last cleared or the lock ended
  late,     \* pairs issued to a user who was disabled already
  crashes

rows == <<clients, row>>
tokens == <<pairs, recent, cut, out, spent, late>>
lockout == <<fails, dated, locked, guesses>>
vars == <<clients, row, pairs, recent, cut, out, spent, late, fails, dated, locked, guesses,
          call, crashes>>

Pcs == {"idle", "lock", "compare", "incr", "expire", "lockout", "reset", "mint",
        "user", "revoke", "rank", "update", "check", "count", "disable", "stamp"}
NoCall == [pc |-> "idle", user |-> CHOOSE u \in Users : TRUE, role |-> "viewer", pair |-> 0]

Init ==
  /\ clients \in Clients
  /\ row = [u \in Users |-> [role |-> clients.roles[u], status |-> "active"]]
  /\ pairs = <<>>
  /\ recent = {} /\ cut = {} /\ out = {} /\ spent = {}
  /\ fails = [u \in Users |-> 0]
  /\ dated = [u \in Users |-> FALSE]
  /\ locked = [u \in Users |-> FALSE]
  /\ call = [c \in Calls |-> NoCall]
  /\ guesses = [u \in Users |-> 0]
  /\ late = [u \in Users |-> 0]
  /\ crashes = 0

Issued == 1..Len(pairs)
Idle(c, op) == call[c].pc = "idle" /\ op \in clients.ops
Goto(c, pc) == call' = [call EXCEPT ![c].pc = pc]
End(c) == call' = [call EXCEPT ![c] = NoCall]
Active(u) == row[u].status = "active"

(* generateTokenPair: iat is the second of the signature, the role what the *)
(* call read earlier; parent is the pair it was refreshed from, if any.     *)
(* Two pairs of a user and role that are signed in one second are the same  *)
(* bytes, since nothing else is signed; here they stay two.                 *)
Mint(c) ==
  LET u == call[c].user IN
  /\ call[c].pc = "mint"
  /\ pairs' = Append(pairs, [user |-> u, role |-> call[c].role, parent |-> call[c].pair])
  /\ recent' = recent \cup {Len(pairs) + 1}
  /\ late' = IF Active(u) THEN late ELSE [late EXCEPT ![u] = @ + 1]
  /\ End(c)
  /\ UNCHANGED <<rows, cut, out, spent, lockout, crashes>>

----------------------------------------------------------------------------
(* AuthService.login *)

LoginUser(c, u) ==
  /\ Idle(c, "login") /\ u \in clients.users /\ Len(pairs) < clients.pairs /\ guesses[u] < MaxGuesses
  /\ Active(u)
  /\ call' = [call EXCEPT ![c] = [NoCall EXCEPT !.pc = "lock", !.user = u, !.role = row[u].role]]
  /\ UNCHANGED <<rows, tokens, lockout, crashes>>

LoginLock(c) ==
  /\ call[c].pc = "lock"
  /\ IF locked[call[c].user] THEN End(c) ELSE Goto(c, "compare")
  /\ UNCHANGED <<rows, tokens, lockout, crashes>>

LoginWrong(c) ==
  /\ call[c].pc = "compare" /\ "guess" \in clients.ops
  /\ guesses' = [guesses EXCEPT ![call[c].user] = @ + 1]
  /\ Goto(c, "incr")
  /\ UNCHANGED <<rows, tokens, fails, dated, locked, crashes>>

(* With MFA the answer is a session for the second step, which always ends *)
(* in an error; the count of failures stays.                               *)
LoginRight(c) ==
  /\ call[c].pc = "compare"
  /\ IF call[c].user \in clients.mfa THEN End(c) ELSE Goto(c, "reset")
  /\ UNCHANGED <<rows, tokens, lockout, crashes>>

(* The count is not followed past MaxFailed.                                *)
CountFailure(u) == fails' = [fails EXCEPT ![u] = IF @ < MaxFailed THEN @ + 1 ELSE @]

(* A plausible error: the lock is set only when the count is exactly there. *)
LoginIncrExact(c) ==
  LET u == call[c].user IN
  /\ call[c].pc = "incr"
  /\ CountFailure(u)
  /\ CASE fails[u] = 0 -> Goto(c, "expire")
       [] fails[u] + 1 = MaxFailed -> Goto(c, "lockout")
       [] OTHER -> End(c)
  /\ UNCHANGED <<rows, tokens, dated, locked, guesses, crashes>>

LoginIncr(c) ==
  LET u == call[c].user IN
  /\ call[c].pc = "incr"
  /\ CountFailure(u)
  /\ CASE fails[u] = 0 -> Goto(c, "expire")
       [] fails[u] + 1 >= MaxFailed -> Goto(c, "lockout")
       [] OTHER -> End(c)
  /\ UNCHANGED <<rows, tokens, dated, locked, guesses, crashes>>

(* A plausible error: SETEX writes a key that a login has deleted.          *)
LoginExpireAlways(c) ==
  /\ call[c].pc = "expire"
  /\ dated' = [dated EXCEPT ![call[c].user] = TRUE]
  /\ End(c)
  /\ UNCHANGED <<rows, tokens, fails, locked, guesses, crashes>>

(* No effect on a key that a login has deleted meanwhile. *)
LoginExpire(c) ==
  LET u == call[c].user IN
  /\ call[c].pc = "expire"
  /\ dated' = [dated EXCEPT ![u] = fails[u] > 0]
  /\ End(c)
  /\ UNCHANGED <<rows, tokens, fails, locked, guesses, crashes>>

LoginLockout(c) ==
  /\ call[c].pc = "lockout"
  /\ locked' = [locked EXCEPT ![call[c].user] = TRUE]
  /\ End(c)
  /\ UNCHANGED <<rows, tokens, fails, dated, guesses, crashes>>

(* The wrong passwords whose INCR is still to come count afresh. *)
ToCome(u) == Cardinality({c \in Calls : call[c].pc = "incr" /\ call[c].user = u})

ClearFails(u) ==
  /\ fails' = [fails EXCEPT ![u] = 0]
  /\ dated' = [dated EXCEPT ![u] = FALSE]
  /\ guesses' = [guesses EXCEPT ![u] = ToCome(u)]

LoginReset(c) ==
  /\ call[c].pc = "reset"
  /\ ClearFails(call[c].user)
  /\ Goto(c, "mint")
  /\ UNCHANGED <<rows, tokens, locked, crashes>>

FailsExpire(u) ==
  /\ dated[u]
  /\ ClearFails(u)
  /\ UNCHANGED <<rows, tokens, locked, call, crashes>>

(* The count was dated by the first failure and the lock by a later one:    *)
(* a count with a TTL is gone before the lock is.                           *)
LockExpires(u) ==
  /\ locked[u] /\ ~dated[u]
  /\ locked' = [locked EXCEPT ![u] = FALSE]
  /\ guesses' = [guesses EXCEPT ![u] = ToCome(u)]
  /\ UNCHANGED <<rows, tokens, fails, dated, call, crashes>>

----------------------------------------------------------------------------
(* AuthService.refresh and the logout route *)

(* A plausible error: the key is looked up first and set after the query.   *)
RefreshOnceUnset(c, p) ==
  /\ Idle(c, "refresh") /\ Len(pairs) < clients.pairs
  /\ p \in Issued \ spent
  /\ call' = [call EXCEPT ![c] = [NoCall EXCEPT !.pc = "user", !.user = pairs[p].user, !.pair = p]]
  /\ UNCHANGED <<rows, tokens, lockout, crashes>>

(* SET revoked:<hash> NX: only one call gets past it. *)
Refresh(c, p) ==
  /\ Idle(c, "refresh") /\ Len(pairs) < clients.pairs
  /\ p \in Issued \ spent
  /\ spent' = spent \cup {p}
  /\ call' = [call EXCEPT ![c] = [NoCall EXCEPT !.pc = "user", !.user = pairs[p].user, !.pair = p]]
  /\ UNCHANGED <<rows, pairs, recent, cut, out, late, lockout, crashes>>

(* A plausible error: the row is read for the role only. *)
RefreshUserUnchecked(c) ==
  /\ call[c].pc = "user"
  /\ call' = [call EXCEPT ![c].pc = "mint", ![c].role = row[call[c].user].role]
  /\ UNCHANGED <<rows, tokens, lockout, crashes>>

RefreshUser(c) ==
  /\ call[c].pc = "user"
  /\ IF Active(call[c].user)
     THEN call' = [call EXCEPT ![c].pc = "mint", ![c].role = row[call[c].user].role]
     ELSE End(c)
  /\ UNCHANGED <<rows, tokens, lockout, crashes>>

(* Both tokens of the client's pair.                                        *)
Logout(c, p) ==
  /\ Idle(c, "logout") /\ p \in Issued
  /\ out' = out \cup {p}
  /\ call' = [call EXCEPT ![c] = [NoCall EXCEPT !.pc = "revoke", !.pair = p]]
  /\ UNCHANGED <<rows, pairs, recent, cut, spent, late, lockout, crashes>>

LogoutRefresh(c) ==
  /\ call[c].pc = "revoke"
  /\ spent' = spent \cup {call[c].pair}
  /\ End(c)
  /\ UNCHANGED <<rows, pairs, recent, cut, out, late, lockout, crashes>>

----------------------------------------------------------------------------
(* Time, which the age of a token is for: only the admin routes look at it. *)

Administered == {"patch", "delete"} \cap clients.ops # {}

Tick ==
  /\ Administered /\ recent # {} /\ recent' = {}
  /\ UNCHANGED <<rows, pairs, cut, out, spent, late, lockout, call, crashes>>

Expire(p) ==
  /\ Administered /\ p \in Issued \ (out \cup recent)
  /\ out' = out \cup {p}
  /\ UNCHANGED <<rows, pairs, recent, cut, spent, late, lockout, call, crashes>>

----------------------------------------------------------------------------
(* The bearer check, and the admin routes behind it.  A call's pair is the  *)
(* requester's, its user the target.                                        *)

Accepted(p) == p \in Issued \ (out \cup cut)
Requester(c) == pairs[call[c].pair]

Request(c, p, u, role, pc) ==
  call' = [call EXCEPT ![c] = [pc |-> pc, user |-> u, role |-> role, pair |-> p]]

Patch(c, p, u, role) ==
  /\ Idle(c, "patch") /\ Accepted(p)
  /\ Rank[pairs[p].role] >= Rank["admin"]
  /\ Rank[role] >= Rank["admin"] => pairs[p].role = "super_admin"
  /\ Request(c, p, u, role, "rank")
  /\ UNCHANGED <<rows, tokens, lockout, crashes>>

PatchRank(c) ==
  /\ call[c].pc = "rank"
  /\ IF Requester(c).role = "super_admin" \/ Rank[row[call[c].user].role] < Rank[Requester(c).role]
     THEN Goto(c, "update") ELSE End(c)
  /\ UNCHANGED <<rows, tokens, lockout, crashes>>

PatchUpdate(c) ==
  /\ call[c].pc = "update"
  /\ row' = [row EXCEPT ![call[c].user].role = call[c].role]
  /\ Goto(c, "stamp")
  /\ UNCHANGED <<clients, tokens, lockout, crashes>>

Delete(c, p, u) ==
  /\ Idle(c, "delete") /\ Accepted(p)
  /\ pairs[p].role = "super_admin" /\ u # pairs[p].user
  /\ Request(c, p, u, "viewer", "check")
  /\ UNCHANGED <<rows, tokens, lockout, crashes>>

DeleteCheck(c) ==
  /\ call[c].pc = "check"
  /\ Goto(c, IF row[call[c].user].role = "super_admin" THEN "count" ELSE "disable")
  /\ UNCHANGED <<rows, tokens, lockout, crashes>>

SuperAdmins == {u \in Users : row[u].role = "super_admin" /\ Active(u)}

DeleteCount(c) ==
  /\ call[c].pc = "count"
  /\ IF Cardinality(SuperAdmins) <= 1 THEN End(c) ELSE Goto(c, "disable")
  /\ UNCHANGED <<rows, tokens, lockout, crashes>>

Disable(c) ==
  /\ call[c].pc = "disable"
  /\ row' = [row EXCEPT ![call[c].user].status = "disabled"]
  /\ IF Active(call[c].user) THEN Goto(c, "stamp") ELSE End(c)
  /\ UNCHANGED <<clients, tokens, lockout, crashes>>

(* user_invalidated:<id> = the current second: what was issued in it stays. *)
Stamp(c) ==
  /\ call[c].pc = "stamp"
  /\ cut' = cut \cup {p \in Issued \ recent : pairs[p].user = call[c].user}
  /\ End(c)
  /\ UNCHANGED <<rows, pairs, recent, out, spent, late, lockout, crashes>>

(* The gateway dies, or an await throws and the route answers 500.          *)
Crash(c) ==
  /\ call[c].pc # "idle" /\ crashes < clients.crashes
  /\ crashes' = crashes + 1
  /\ End(c)
  /\ UNCHANGED <<rows, tokens, lockout>>

----------------------------------------------------------------------------
LoginStep(c) ==
  \/ \E u \in Users : LoginUser(c, u)
  \/ LoginLock(c) \/ LoginWrong(c) \/ LoginRight(c) \/ LoginIncr(c)
  \/ LoginExpire(c) \/ LoginLockout(c) \/ LoginReset(c)

SessionStep(c) ==
  \/ \E p \in Issued : Refresh(c, p) \/ Logout(c, p)
  \/ RefreshUser(c) \/ LogoutRefresh(c) \/ Mint(c)

AdminStep(c) ==
  \/ \E p \in Issued, u \in Users :
       \/ Delete(c, p, u)
       \/ \E role \in NewRoles : Patch(c, p, u, role)
  \/ PatchRank(c) \/ PatchUpdate(c) \/ DeleteCheck(c) \/ DeleteCount(c)
  \/ Disable(c) \/ Stamp(c)

Next ==
  \/ \E c \in Calls : LoginStep(c) \/ SessionStep(c) \/ AdminStep(c) \/ Crash(c)
  \/ \E u \in Users : FailsExpire(u) \/ LockExpires(u)
  \/ Tick \/ \E p \in Issued : Expire(p)

Spec == Init /\ [][Next]_vars

----------------------------------------------------------------------------
(* Besides the types: only a key that exists has a TTL.                     *)
TypeOK ==
  /\ clients \in Clients
  /\ row \in [Users -> [role : Roles, status : {"active", "disabled"}]]
  /\ pairs \in Seq([user : Users, role : Roles, parent : Nat])
  /\ recent \cup cut \cup out \cup spent \subseteq Issued
  /\ fails \in [Users -> 0..MaxFailed] /\ guesses \in [Users -> Nat] /\ late \in [Users -> Nat]
  /\ dated \in [Users -> BOOLEAN] /\ locked \in [Users -> BOOLEAN]
  /\ call \in [Calls -> [pc : Pcs, user : Users, role : Roles, pair : 0..Len(pairs)]]
  /\ crashes \in Nat
  /\ \A u \in Users : dated[u] => fails[u] > 0

(* A refresh token is worth one pair, however many calls present it at      *)
(* once and whatever fails: a session never forks.  (SET NX before the      *)
(* query of the user.)                                                      *)
RefreshOnce ==
  \A p, q \in Issued :
    pairs[p].parent = pairs[q].parent /\ pairs[p].parent # 0 => p = q

(* Concurrent logins read the lock before bcrypt and count after it: past   *)
(* MAX_FAILED_ATTEMPTS there is at most one more wrong password per request *)
(* in progress, and one per request that died before it counted or locked.  *)
LockoutBound ==
  \A u \in Users : guesses[u] <= MaxFailed - 1 + Cardinality(Calls) + crashes

(* A user who has been deleted gets no more tokens than the requests that   *)
(* were in progress beside the deletion had already checked.                *)
DisabledGetsFew == \A u \in Users : late[u] < Cardinality(Calls)

(* "Last super_admin guard - prevents deletion of the sole super_admin      *)
(* account" (FEATURES.md).                                                  *)
LastSuperAdminStays ==
  [][\A u \in Users : row[u].status # row'[u].status /\ row[u].role = "super_admin" =>
       \E v \in Users \ {u} : v \in SuperAdmins]_row

(* "Invalidate existing tokens so the user must re-authenticate with new    *)
(* role/state" (admin.ts).                                                  *)
StaleIsRejected ==
  \A p \in Issued :
    Accepted(p) /\ (\A c \in Calls : call[c].pc # "stamp" \/ call[c].user # pairs[p].user) =>
      pairs[p].role = row[pairs[p].user].role /\ Active(pairs[p].user)

=============================================================================
