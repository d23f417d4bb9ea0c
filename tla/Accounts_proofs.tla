--------------------------- MODULE Accounts_proofs ---------------------------
(***************************************************************************)
(* Proofs about Accounts, for any users, requests, mixes of them and       *)
(* deaths half-way: the types, that a session never forks, how far past    *)
(* the limit concurrent logins get, and how many tokens a deleted user.    *)
(***************************************************************************)
EXTENDS Accounts, FiniteSetTheorems, TLAPS

Pair == [user : Users, role : Roles, parent : Nat]
RequestType == [pc : Pcs, user : Users, role : Roles, pair : Nat]

(* A refresh that has used its token and not yet answered.                 *)
Holds(x) == x.pc \in {"user", "mint"} /\ x.pair # 0
LoginPcs == {"lock", "compare", "incr", "expire", "lockout", "reset"}

RowsOK ==
  clients \in Clients /\ row \in [Users -> [role : Roles, status : {"active", "disabled"}]]

TokensOK ==
  /\ pairs \in Seq(Pair) /\ late \in [Users -> Nat]
  /\ recent \cup cut \cup out \cup spent \subseteq Issued

LockoutOK ==
  /\ fails \in [Users -> 0..MaxFailed] /\ guesses \in [Users -> Nat]
  /\ dated \in [Users -> BOOLEAN] /\ locked \in [Users -> BOOLEAN]
  /\ \A u \in Users : dated[u] => fails[u] > 0

CallsOK ==
  /\ call \in [Calls -> RequestType]
  /\ \A c \in Calls : call[c].pair <= Len(pairs) /\ (call[c].pc = "revoke" => call[c].pair # 0)

(* Why a session never forks: a token that has a successor, or a request   *)
(* on its way to one, is spent, and has only one of the two.               *)
SpentOnce ==
  /\ \A c \in Calls : call[c].pc \in LoginPcs => call[c].pair = 0
  /\ \A c \in Calls : Holds(call[c]) =>
       /\ call[c].pair \in spent
       /\ \A p \in Issued : pairs[p].parent # call[c].pair
       /\ \A d \in Calls : Holds(call[d]) /\ call[d].pair = call[c].pair => d = c
  /\ \A p \in Issued : pairs[p].parent # 0 => pairs[p].parent \in spent
  /\ RefreshOnce

(* The inductive invariant.                                                *)
IInv == RowsOK /\ TokensOK /\ LockoutOK /\ CallsOK /\ crashes \in Nat /\ SpentOnce

LEMMA InvImplies == IInv => TypeOK /\ RefreshOnce
<1> SUFFICES ASSUME IInv PROVE TypeOK /\ RefreshOnce
  OBVIOUS
<1>1. Len(pairs) \in Nat /\ pairs \in Seq([user : Users, role : Roles, parent : Nat])
  BY DEF IInv, TokensOK, Pair
<1>2. call \in [Calls -> [pc : Pcs, user : Users, role : Roles, pair : 0..Len(pairs)]]
  BY <1>1 DEF IInv, CallsOK, RequestType
<1> QED BY <1>1, <1>2 DEF IInv, RowsOK, TokensOK, LockoutOK, SpentOnce, TypeOK

LEMMA NoCallType == NoCall \in RequestType /\ NoCall.pc = "idle" /\ NoCall.pair = 0
<1>1. (CHOOSE u \in Users : TRUE) \in Users
  BY AccountsAssumption
<1> QED BY <1>1 DEF NoCall, RequestType, Pcs, Roles, Rank

----------------------------------------------------------------------------
(* What an action does to each part of the invariant.                      *)

(* Parts that an action does not touch.                                    *)
LEMMA Stay ==
  ASSUME IInv
  PROVE  /\ UNCHANGED rows => RowsOK'
         /\ UNCHANGED tokens => TokensOK' /\ pairs' = pairs /\ spent' = spent
         /\ UNCHANGED lockout => LockoutOK'
         /\ UNCHANGED crashes => crashes' \in Nat
BY DEF IInv, rows, tokens, lockout, RowsOK, TokensOK, LockoutOK, Issued

(* A request that goes on and does not come to hold a token.               *)
LEMMA Moved ==
  ASSUME IInv, NEW c \in Calls, NEW x \in RequestType, x.pair <= Len(pairs),
         call' = [call EXCEPT ![c] = x],
         pairs' = pairs, spent \subseteq spent',
         Holds(x) => Holds(call[c]) /\ x.pair = call[c].pair,
         x.pc \in LoginPcs => x.pair = 0, x.pc = "revoke" => x.pair # 0
  PROVE  CallsOK' /\ SpentOnce'
<1>1. /\ call \in [Calls -> RequestType] /\ SpentOnce
      /\ \A d \in Calls : call[d].pair <= Len(pairs) /\ (call[d].pc = "revoke" => call[d].pair # 0)
  BY DEF IInv, CallsOK
<1>2. call' \in [Calls -> RequestType] /\ \A d \in Calls : call'[d] = IF d = c THEN x ELSE call[d]
  BY <1>1
<1>3. CallsOK'
  BY <1>1, <1>2 DEF CallsOK
<1>4. Issued' = Issued /\ RefreshOnce'
  BY <1>1 DEF Issued, SpentOnce, RefreshOnce
<1>5. \A d \in Calls : call'[d].pc \in LoginPcs => call'[d].pair = 0
  BY <1>1, <1>2 DEF SpentOnce
<1>6. \A d \in Calls : Holds(call'[d]) => Holds(call[d]) /\ call'[d].pair = call[d].pair
  BY <1>2
<1>7. \A d \in Calls : Holds(call'[d]) =>
        /\ call'[d].pair \in spent'
        /\ \A p \in Issued : pairs[p].parent # call'[d].pair
        /\ \A e \in Calls : Holds(call'[e]) /\ call'[e].pair = call'[d].pair => e = d
  BY <1>1, <1>6 DEF SpentOnce
<1>8. \A p \in Issued : pairs[p].parent # 0 => pairs[p].parent \in spent'
  BY <1>1 DEF SpentOnce
<1> QED BY <1>3, <1>4, <1>5, <1>7, <1>8 DEF SpentOnce, Holds, LoginPcs

LEMMA Ends ==
  ASSUME IInv, NEW c \in Calls, End(c), pairs' = pairs, spent \subseteq spent'
  PROVE  CallsOK' /\ SpentOnce'
<1>1. NoCall.pair <= Len(pairs) /\ ~Holds(NoCall) /\ NoCall.pc \notin LoginPcs
  <2>1. Len(pairs) \in Nat
    BY DEF IInv, TokensOK
  <2> QED BY <2>1, NoCallType DEF Holds, LoginPcs
<1> QED BY <1>1, NoCallType, Moved DEF End

(* Only a login goes to the steps of a login, and to signing, by Goto.     *)
LEMMA Goes ==
  ASSUME IInv, NEW c \in Calls, NEW pc \in Pcs \ {"user", "revoke"}, Goto(c, pc),
         pc \in LoginPcs \cup {"mint"} => call[c].pc \in LoginPcs,
         pairs' = pairs, spent \subseteq spent'
  PROVE  CallsOK' /\ SpentOnce'
<1> DEFINE x == [call[c] EXCEPT !.pc = pc]
<1>1. call[c] \in RequestType /\ call[c].pair <= Len(pairs)
      /\ (call[c].pc \in LoginPcs => call[c].pair = 0)
  BY DEF IInv, CallsOK, SpentOnce
<1>2. x \in RequestType /\ x.pc = pc /\ x.pair = call[c].pair
  BY <1>1 DEF RequestType
<1>3. call' = [call EXCEPT ![c] = x]
  BY DEF Goto
<1> HIDE DEF x
<1>4. ~Holds(x) /\ (x.pc \in LoginPcs => x.pair = 0)
  BY <1>1, <1>2 DEF Holds
<1> QED BY <1>1, <1>2, <1>3, <1>4, Moved

(* The counts of the wrong passwords that are still to come are finite.    *)
LEMMA ToComeType == \A u \in Users : ToCome(u) \in Nat
<1> SUFFICES ASSUME NEW u \in Users PROVE ToCome(u) \in Nat
  OBVIOUS
<1>1. IsFiniteSet({c \in Calls : call[c].pc = "incr" /\ call[c].user = u})
  BY AccountsAssumption, FS_Subset
<1> QED BY <1>1, FS_CardinalityType DEF ToCome

LEMMA Cleared ==
  ASSUME IInv, NEW u \in Users, ClearFails(u), locked' = locked
  PROVE  LockoutOK'
<1>1. ToCome(u) \in Nat /\ 0 \in 0..MaxFailed
  BY ToComeType, AccountsAssumption
<1>2. fails' = [fails EXCEPT ![u] = 0] /\ dated' = [dated EXCEPT ![u] = FALSE]
      /\ guesses' = [guesses EXCEPT ![u] = ToCome(u)]
  BY DEF ClearFails
<1> QED BY <1>1, <1>2 DEF IInv, LockoutOK

----------------------------------------------------------------------------
(* Logins                                                                  *)

LEMMA LoginKeeps ==
  ASSUME IInv, NEW c \in Calls, LoginStep(c)
  PROVE  IInv'
<1>1. /\ call[c] \in RequestType /\ Len(pairs) \in Nat /\ LockoutOK
      /\ call[c].user \in Users
  BY DEF IInv, CallsOK, RequestType, TokensOK
<1>2. ASSUME NEW u \in Users, LoginUser(c, u)
      PROVE  IInv'
  <2> DEFINE x == [NoCall EXCEPT !.pc = "lock", !.user = u, !.role = row[u].role]
  <2>1. row[u].role \in Roles
    BY DEF IInv, RowsOK
  <2>2. x \in RequestType /\ x.pc = "lock" /\ x.pair = 0
    BY <2>1, NoCallType DEF RequestType, Pcs, NoCall
  <2>3. call' = [call EXCEPT ![c] = x] /\ UNCHANGED <<rows, tokens, lockout, crashes>>
    BY <1>2 DEF LoginUser
  <2> HIDE DEF x
  <2>4. ~Holds(x) /\ x.pair <= Len(pairs)
    BY <1>1, <2>2 DEF Holds
  <2> QED BY <2>2, <2>3, <2>4, Stay, Moved DEF IInv
<1>3. CASE LoginLock(c)
  <2>1. call[c].pc = "lock" /\ "compare" \in Pcs \ {"user", "revoke"} /\ UNCHANGED <<rows, tokens, lockout, crashes>>
    BY <1>3 DEF LoginLock, Pcs
  <2>2. End(c) \/ Goto(c, "compare")
    BY <1>3 DEF LoginLock
  <2> QED BY <2>1, <2>2, Stay, Ends, Goes DEF IInv, LoginPcs
<1>4. CASE LoginWrong(c)
  <2>1. call[c].pc = "compare" /\ "incr" \in Pcs \ {"user", "revoke"} /\ Goto(c, "incr")
        /\ UNCHANGED <<rows, tokens, crashes>>
    BY <1>4 DEF LoginWrong, Pcs
  <2>2. guesses' = [guesses EXCEPT ![call[c].user] = @ + 1] /\ UNCHANGED <<fails, dated, locked>>
    BY <1>4 DEF LoginWrong
  <2>3. LockoutOK'
    BY <1>1, <2>2 DEF LockoutOK
  <2> QED BY <2>1, <2>3, Stay, Goes DEF IInv, LoginPcs
<1>5. CASE LoginRight(c)
  <2>1. call[c].pc = "compare" /\ "reset" \in Pcs \ {"user", "revoke"} /\ UNCHANGED <<rows, tokens, lockout, crashes>>
    BY <1>5 DEF LoginRight, Pcs
  <2>2. End(c) \/ Goto(c, "reset")
    BY <1>5 DEF LoginRight
  <2> QED BY <2>1, <2>2, Stay, Ends, Goes DEF IInv, LoginPcs
<1>6. CASE LoginIncr(c)
  <2>1. call[c].pc = "incr" /\ {"expire", "lockout"} \subseteq Pcs \ {"user", "revoke"}
        /\ UNCHANGED <<rows, tokens, crashes>>
    BY <1>6 DEF LoginIncr, Pcs
  <2>2. Goto(c, "expire") \/ Goto(c, "lockout") \/ End(c)
    BY <1>6 DEF LoginIncr
  <2>3. UNCHANGED <<dated, locked, guesses>>
        /\ fails' = [fails EXCEPT ![call[c].user] = IF @ < MaxFailed THEN @ + 1 ELSE @]
    BY <1>6 DEF LoginIncr, CountFailure
  <2>4. LockoutOK'
    <3>1. fails' \in [Users -> 0..MaxFailed] /\ \A u \in Users : fails[u] > 0 => fails'[u] > 0
      BY <1>1, <2>3, AccountsAssumption DEF LockoutOK
    <3> QED BY <1>1, <2>3, <3>1 DEF LockoutOK
  <2> QED BY <2>1, <2>2, <2>4, Stay, Ends, Goes DEF IInv, LoginPcs
<1>7. CASE LoginExpire(c)
  <2>1. End(c) /\ UNCHANGED <<rows, tokens, crashes>>
    BY <1>7 DEF LoginExpire
  <2>2. dated' = [dated EXCEPT ![call[c].user] = fails[call[c].user] > 0] /\ UNCHANGED <<fails, locked, guesses>>
    BY <1>7 DEF LoginExpire
  <2>3. (fails[call[c].user] > 0) \in BOOLEAN
    OBVIOUS
  <2>4. LockoutOK'
    BY <1>1, <2>2, <2>3 DEF LockoutOK
  <2> QED BY <2>1, <2>4, Stay, Ends DEF IInv
<1>8. CASE LoginLockout(c)
  <2>1. End(c) /\ UNCHANGED <<rows, tokens, crashes>>
    BY <1>8 DEF LoginLockout
  <2>2. LockoutOK'
    BY <1>1, <1>8 DEF LockoutOK, LoginLockout
  <2> QED BY <2>1, <2>2, Stay, Ends DEF IInv
<1>9. CASE LoginReset(c)
  <2>1. call[c].pc = "reset" /\ "mint" \in Pcs \ {"user", "revoke"} /\ Goto(c, "mint")
        /\ UNCHANGED <<rows, tokens, crashes>>
    BY <1>9 DEF LoginReset, Pcs
  <2>2. LockoutOK'
    BY <1>1, <1>9, Cleared DEF LoginReset
  <2> QED BY <2>1, <2>2, Stay, Goes DEF IInv, LoginPcs
<1> QED BY <1>2, <1>3, <1>4, <1>5, <1>6, <1>7, <1>8, <1>9 DEF LoginStep

----------------------------------------------------------------------------
(* Sessions                                                                *)

(* SET NX gives the token to one request, and nobody had it before.        *)
LEMMA RefreshKeeps ==
  ASSUME IInv, NEW c \in Calls, NEW p \in Issued, Refresh(c, p)
  PROVE  IInv'
<1> DEFINE x == [NoCall EXCEPT !.pc = "user", !.user = pairs[p].user, !.pair = p]
<1>1. /\ call \in [Calls -> RequestType] /\ pairs \in Seq(Pair) /\ Len(pairs) \in Nat
      /\ \A d \in Calls : call[d].pair <= Len(pairs) /\ (call[d].pc = "revoke" => call[d].pair # 0)
      /\ SpentOnce /\ TokensOK
  BY DEF IInv, CallsOK, TokensOK
<1>2. p \in Nat /\ p <= Len(pairs) /\ p # 0 /\ pairs[p].user \in Users
  <2>1. p \in 1 .. Len(pairs)
    BY DEF Issued
  <2>2. pairs[p] \in Pair
    BY <1>1, <2>1
  <2> QED BY <1>1, <2>1, <2>2 DEF Pair
<1>3. x \in RequestType /\ x.pc = "user" /\ x.pair = p
  BY <1>2, NoCallType DEF RequestType, NoCall, Pcs
<1>4. /\ p \notin spent /\ spent' = spent \cup {p}
      /\ call' = [call EXCEPT ![c] = x]
      /\ UNCHANGED <<rows, pairs, recent, cut, out, late, lockout, crashes>>
  BY DEF Refresh
<1> HIDE DEF x
<1>5. call' \in [Calls -> RequestType] /\ \A d \in Calls : call'[d] = IF d = c THEN x ELSE call[d]
  BY <1>1, <1>3, <1>4
<1>6. CallsOK'
  BY <1>1, <1>2, <1>3, <1>4, <1>5 DEF CallsOK
<1>7. TokensOK'
  BY <1>1, <1>4 DEF TokensOK, Issued
<1>8. SpentOnce'
  <2>1. Issued' = Issued /\ pairs' = pairs /\ RefreshOnce'
    BY <1>1, <1>4 DEF Issued, SpentOnce, RefreshOnce
  <2>2. \A d \in Calls : call'[d].pc \in LoginPcs => call'[d].pair = 0
    BY <1>1, <1>3, <1>5 DEF SpentOnce, LoginPcs
  <2>3. \A q \in Issued : pairs[q].parent # p
    BY <1>1, <1>2, <1>4 DEF SpentOnce
  <2>4. \A d \in Calls : Holds(call[d]) => call[d].pair \in spent /\ call[d].pair # p
    BY <1>1, <1>4 DEF SpentOnce
  <2>5. ASSUME NEW d \in Calls, Holds(call'[d])
        PROVE  /\ call'[d].pair \in spent'
               /\ \A q \in Issued : pairs[q].parent # call'[d].pair
               /\ \A e \in Calls : Holds(call'[e]) /\ call'[e].pair = call'[d].pair => e = d
    <3>1. CASE d = c
      BY <1>3, <1>4, <1>5, <2>3, <2>4, <3>1
    <3>2. CASE d # c
      BY <1>1, <1>3, <1>4, <1>5, <2>4, <2>5, <3>2 DEF SpentOnce
    <3> QED BY <3>1, <3>2
  <2>6. \A q \in Issued : pairs[q].parent # 0 => pairs[q].parent \in spent'
    BY <1>1, <1>4 DEF SpentOnce
  <2> QED BY <2>1, <2>2, <2>5, <2>6 DEF SpentOnce, Holds, LoginPcs
<1> QED BY <1>4, <1>6, <1>7, <1>8, Stay DEF IInv

(* The new pair is the only successor of the token its request held.       *)
LEMMA MintKeeps ==
  ASSUME IInv, NEW c \in Calls, Mint(c)
  PROVE  IInv'
<1> DEFINE new == [user |-> call[c].user, role |-> call[c].role, parent |-> call[c].pair]
           n == Len(pairs) + 1
<1>1. /\ call \in [Calls -> RequestType] /\ pairs \in Seq(Pair) /\ Len(pairs) \in Nat
      /\ \A d \in Calls : call[d].pair <= Len(pairs) /\ (call[d].pc = "revoke" => call[d].pair # 0)
      /\ SpentOnce /\ TokensOK
  BY DEF IInv, CallsOK, TokensOK
<1>2. /\ call[c].pc = "mint" /\ pairs' = Append(pairs, new) /\ recent' = recent \cup {n}
      /\ call' = [call EXCEPT ![c] = NoCall]
      /\ UNCHANGED <<rows, cut, out, spent, lockout, crashes>>
  BY DEF Mint, End
<1>3. late' \in [Users -> Nat]
  <2>1. late \in [Users -> Nat] /\ call[c].user \in Users
    BY <1>1 DEF TokensOK, RequestType
  <2>2. late' = late \/ late' = [late EXCEPT ![call[c].user] = @ + 1]
    BY DEF Mint
  <2> QED BY <2>1, <2>2
<1>4. new \in Pair /\ new.parent = call[c].pair
  BY <1>1 DEF Pair, RequestType
<1> HIDE DEF new
<1>5. /\ pairs' \in Seq(Pair) /\ Len(pairs') = n /\ pairs'[n] = new
      /\ \A p \in Issued : pairs'[p] = pairs[p]
  BY <1>1, <1>2, <1>4 DEF Issued
<1>6. Issued' = Issued \cup {n} /\ n \notin Issued
  BY <1>1, <1>5 DEF Issued
<1>7. TokensOK'
  BY <1>1, <1>2, <1>3, <1>5, <1>6 DEF TokensOK
<1>8. call' \in [Calls -> RequestType] /\ \A d \in Calls : call'[d] = IF d = c THEN NoCall ELSE call[d]
  BY <1>1, <1>2, NoCallType
<1>9. CallsOK'
  <2>1. \A d \in Calls : call'[d].pair <= Len(pairs') /\ (call'[d].pc = "revoke" => call'[d].pair # 0)
    <3>1. \A d \in Calls : call[d].pair \in Nat
      BY <1>1 DEF RequestType
    <3> QED BY <1>1, <1>5, <1>8, <3>1, NoCallType
  <2> QED BY <1>8, <2>1 DEF CallsOK
<1>10. SpentOnce'
  <2>1. \A d \in Calls : call'[d].pc \in LoginPcs => call'[d].pair = 0
    BY <1>1, <1>8, NoCallType DEF SpentOnce
  <2>2. new.parent # 0 => Holds(call[c])
    BY <1>2, <1>4 DEF Holds
  <2>3. \A d \in Calls : Holds(call'[d]) => d # c /\ Holds(call[d]) /\ call'[d] = call[d]
    BY <1>8, NoCallType DEF Holds
  <2>4. ASSUME NEW d \in Calls, Holds(call'[d])
        PROVE  /\ call'[d].pair \in spent'
               /\ \A p \in Issued' : pairs'[p].parent # call'[d].pair
               /\ \A e \in Calls : Holds(call'[e]) /\ call'[e].pair = call'[d].pair => e = d
    <3>1. d # c /\ Holds(call[d]) /\ call'[d] = call[d] /\ call[d].pair # 0
      BY <2>3, <2>4 DEF Holds
    <3>2. new.parent # call[d].pair
      BY <1>1, <1>4, <2>2, <3>1 DEF SpentOnce
    <3>3. \A p \in Issued' : pairs'[p].parent # call'[d].pair
      BY <1>1, <1>5, <1>6, <3>1, <3>2 DEF SpentOnce
    <3> QED BY <1>1, <1>2, <2>3, <3>1, <3>3 DEF SpentOnce
  <2>5. \A p \in Issued' : pairs'[p].parent # 0 => pairs'[p].parent \in spent'
    BY <1>1, <1>2, <1>4, <1>5, <1>6, <2>2 DEF SpentOnce
  <2>6. \A p, q \in Issued' : pairs'[p].parent = pairs'[q].parent /\ pairs'[p].parent # 0 => p = q
    <3>1. new.parent # 0 => \A p \in Issued : pairs[p].parent # new.parent
      BY <1>1, <1>4, <2>2 DEF SpentOnce
    <3> QED BY <1>1, <1>5, <1>6, <3>1 DEF SpentOnce, RefreshOnce
  <2> QED BY <2>1, <2>4, <2>5, <2>6 DEF SpentOnce, RefreshOnce, Holds, LoginPcs
<1> QED BY <1>2, <1>7, <1>9, <1>10, Stay DEF IInv

LEMMA SessionKeeps ==
  ASSUME IInv, NEW c \in Calls, SessionStep(c)
  PROVE  IInv'
<1>1. /\ call[c] \in RequestType /\ Len(pairs) \in Nat /\ TokensOK
      /\ call[c].pair <= Len(pairs) /\ (call[c].pc = "revoke" => call[c].pair # 0)
  BY DEF IInv, CallsOK, TokensOK
<1>2. CASE \E p \in Issued : Refresh(c, p)
  BY <1>2, RefreshKeeps
<1>3. ASSUME NEW p \in Issued, Logout(c, p)
      PROVE  IInv'
  <2> DEFINE x == [NoCall EXCEPT !.pc = "revoke", !.pair = p]
  <2>1. p \in Nat /\ p <= Len(pairs) /\ p # 0
    BY <1>1 DEF Issued
  <2>2. x \in RequestType /\ x.pc = "revoke" /\ x.pair = p
    BY <2>1, NoCallType DEF RequestType, Pcs, NoCall
  <2>3. call' = [call EXCEPT ![c] = x] /\ out' = out \cup {p}
        /\ UNCHANGED <<rows, pairs, recent, cut, spent, late, lockout, crashes>>
    BY <1>3 DEF Logout
  <2> HIDE DEF x
  <2>4. ~Holds(x) /\ x.pc \notin LoginPcs
    BY <2>2 DEF Holds, LoginPcs
  <2>5. CallsOK' /\ SpentOnce'
    BY <2>1, <2>2, <2>3, <2>4, Moved
  <2>6. TokensOK'
    BY <1>1, <2>3 DEF TokensOK, Issued
  <2> QED BY <2>3, <2>5, <2>6, Stay DEF IInv
<1>4. CASE RefreshUser(c)
  <2> DEFINE x == [call[c] EXCEPT !.pc = "mint", !.role = row[call[c].user].role]
  <2>1. row[call[c].user].role \in Roles
    BY <1>1 DEF IInv, RowsOK, RequestType
  <2>2. x \in RequestType /\ x.pc = "mint" /\ x.pair = call[c].pair
    BY <1>1, <2>1 DEF RequestType, Pcs
  <2>3. call[c].pc = "user" /\ UNCHANGED <<rows, tokens, lockout, crashes>>
    BY <1>4 DEF RefreshUser
  <2>4. End(c) \/ call' = [call EXCEPT ![c] = x]
    BY <1>4 DEF RefreshUser
  <2> HIDE DEF x
  <2>5. (Holds(x) => Holds(call[c])) /\ x.pc \notin LoginPcs \cup {"revoke"}
    BY <2>2, <2>3 DEF Holds, LoginPcs
  <2>6. CallsOK' /\ SpentOnce'
    BY <1>1, <2>2, <2>3, <2>4, <2>5, Stay, Ends, Moved
  <2> QED BY <2>3, <2>6, Stay DEF IInv
<1>5. CASE LogoutRefresh(c)
  <2>1. End(c) /\ spent' = spent \cup {call[c].pair} /\ call[c].pc = "revoke"
        /\ UNCHANGED <<rows, pairs, recent, cut, out, late, lockout, crashes>>
    BY <1>5 DEF LogoutRefresh
  <2>2. call[c].pair \in Issued
    BY <1>1, <2>1 DEF Issued, RequestType
  <2>3. TokensOK'
    BY <1>1, <2>1, <2>2 DEF TokensOK, Issued
  <2>4. CallsOK' /\ SpentOnce'
    BY <2>1, Ends
  <2> QED BY <2>1, <2>3, <2>4, Stay DEF IInv
<1>6. CASE Mint(c)
  BY <1>6, MintKeeps
<1> QED BY <1>2, <1>3, <1>4, <1>5, <1>6 DEF SessionStep

----------------------------------------------------------------------------
(* The admin routes                                                        *)

(* A request behind the bearer check.                                      *)
LEMMA Requested ==
  ASSUME IInv, NEW c \in Calls, NEW p \in Issued, NEW u \in Users, NEW role \in Roles,
         NEW pc \in {"rank", "check"}, Request(c, p, u, role, pc),
         pairs' = pairs, spent' = spent
  PROVE  CallsOK' /\ SpentOnce'
<1> DEFINE x == [pc |-> pc, user |-> u, role |-> role, pair |-> p]
<1>1. p \in Nat /\ p <= Len(pairs)
  BY DEF Issued, IInv, TokensOK
<1>2. x \in RequestType /\ x.pc = pc /\ x.pair = p
  BY <1>1 DEF RequestType, Pcs
<1>3. call' = [call EXCEPT ![c] = x]
  BY DEF Request
<1> HIDE DEF x
<1>4. ~Holds(x) /\ x.pc \notin LoginPcs \cup {"revoke"}
  BY <1>2 DEF Holds, LoginPcs
<1> QED BY <1>1, <1>2, <1>3, <1>4, Moved

LEMMA AdminKeeps ==
  ASSUME IInv, NEW c \in Calls, AdminStep(c)
  PROVE  IInv'
<1>1. /\ call[c] \in RequestType /\ TokensOK /\ RowsOK
      /\ call[c].user \in Users /\ call[c].role \in Roles
  BY DEF IInv, CallsOK, RequestType
<1>2. {"update", "stamp", "count", "disable"} \subseteq Pcs \ ({"user", "revoke", "mint"} \cup LoginPcs)
  BY DEF Pcs, LoginPcs
<1>3. "viewer" \in Roles /\ NewRoles \subseteq Roles
  BY AccountsAssumption DEF Roles, Rank
<1>4. ASSUME NEW p \in Issued, NEW u \in Users, Delete(c, p, u)
      PROVE  IInv'
  <2>1. Request(c, p, u, "viewer", "check") /\ UNCHANGED <<rows, tokens, lockout, crashes>>
    BY <1>4 DEF Delete
  <2> QED BY <1>3, <2>1, Stay, Requested DEF IInv
<1>5. ASSUME NEW p \in Issued, NEW u \in Users, NEW role \in NewRoles, Patch(c, p, u, role)
      PROVE  IInv'
  <2>1. Request(c, p, u, role, "rank") /\ UNCHANGED <<rows, tokens, lockout, crashes>>
    BY <1>5 DEF Patch
  <2> QED BY <1>3, <2>1, Stay, Requested DEF IInv
<1>6. CASE PatchRank(c) \/ DeleteCheck(c) \/ DeleteCount(c)
  <2>1. UNCHANGED <<rows, tokens, lockout, crashes>>
    BY <1>6 DEF PatchRank, DeleteCheck, DeleteCount
  <2>2. Goto(c, "update") \/ Goto(c, "count") \/ Goto(c, "disable") \/ End(c)
    BY <1>6 DEF PatchRank, DeleteCheck, DeleteCount
  <2>3. CallsOK' /\ SpentOnce'
    BY <1>2, <2>1, <2>2, Stay, Ends, Goes
  <2> QED BY <2>1, <2>3, Stay DEF IInv
<1>7. CASE PatchUpdate(c) \/ Disable(c)
  <2>1. clients' = clients /\ UNCHANGED <<tokens, lockout, crashes>>
    BY <1>7 DEF PatchUpdate, Disable
  <2>2. Goto(c, "stamp") \/ End(c)
    BY <1>7 DEF PatchUpdate, Disable
  <2>3. CallsOK' /\ SpentOnce'
    BY <1>2, <2>1, <2>2, Stay, Ends, Goes
  <2>4. row' = [row EXCEPT ![call[c].user].role = call[c].role]
        \/ row' = [row EXCEPT ![call[c].user].status = "disabled"]
    BY <1>7 DEF PatchUpdate, Disable
  <2>5. RowsOK'
    BY <1>1, <2>1, <2>4 DEF RowsOK
  <2> QED BY <2>1, <2>3, <2>5, Stay DEF IInv
<1>8. CASE Stamp(c)
  <2>1. End(c) /\ cut' = cut \cup {p \in Issued \ recent : pairs[p].user = call[c].user}
        /\ UNCHANGED <<rows, pairs, recent, out, spent, late, lockout, crashes>>
    BY <1>8 DEF Stamp
  <2>2. TokensOK'
    BY <1>1, <2>1 DEF TokensOK, Issued
  <2>3. CallsOK' /\ SpentOnce'
    BY <2>1, Ends
  <2> QED BY <2>1, <2>2, <2>3, Stay DEF IInv
<1> QED BY <1>4, <1>5, <1>6, <1>7, <1>8 DEF AdminStep

----------------------------------------------------------------------------
(* Steps that leave the requests where they are.                           *)
LEMMA CallsStay ==
  ASSUME IInv, call' = call, pairs' = pairs, spent' = spent
  PROVE  CallsOK' /\ SpentOnce'
BY DEF IInv, CallsOK, SpentOnce, RefreshOnce, Issued

LEMMA InitInv == Init => IInv
<1> SUFFICES ASSUME Init PROVE IInv
  OBVIOUS
<1>1. clients \in Mix
  BY AccountsAssumption DEF Init
<1>2. RowsOK
  BY <1>1 DEF Init, RowsOK, Mix
<1>3. pairs = <<>> /\ Len(pairs) = 0 /\ Issued = {}
  BY DEF Init, Issued
<1>4. TokensOK
  BY <1>3 DEF Init, TokensOK
<1>5. LockoutOK
  BY AccountsAssumption DEF Init, LockoutOK
<1>6. CallsOK /\ SpentOnce
  BY <1>3, NoCallType DEF Init, CallsOK, SpentOnce, RefreshOnce, Holds, LoginPcs
<1> QED BY <1>2, <1>4, <1>5, <1>6 DEF Init, IInv

LEMMA NextInv == IInv /\ [Next]_vars => IInv'
<1> SUFFICES ASSUME IInv, [Next]_vars PROVE IInv'
  OBVIOUS
<1>1. CASE UNCHANGED vars
  BY <1>1, Stay, CallsStay DEF vars, rows, tokens, lockout, IInv
<1>2. ASSUME NEW c \in Calls, Crash(c)
      PROVE  IInv'
  <2>1. End(c) /\ crashes' = crashes + 1 /\ UNCHANGED <<rows, tokens, lockout>>
    BY <1>2 DEF Crash
  <2>2. CallsOK' /\ SpentOnce'
    BY <2>1, Stay, Ends
  <2> QED BY <2>1, <2>2, Stay DEF IInv
<1>3. CASE \E c \in Calls : LoginStep(c) \/ SessionStep(c) \/ AdminStep(c) \/ Crash(c)
  BY <1>2, <1>3, LoginKeeps, SessionKeeps, AdminKeeps
<1>4. ASSUME NEW u \in Users, FailsExpire(u) \/ LockExpires(u)
      PROVE  IInv'
  <2>1. UNCHANGED <<rows, tokens, call, crashes>>
    BY <1>4 DEF FailsExpire, LockExpires
  <2>2. LockoutOK'
    <3>1. CASE FailsExpire(u)
      BY <3>1, Cleared DEF FailsExpire
    <3>2. CASE LockExpires(u)
      BY <3>2, ToComeType DEF LockExpires, IInv, LockoutOK
    <3> QED BY <1>4, <3>1, <3>2
  <2> QED BY <2>1, <2>2, Stay, CallsStay DEF IInv
<1>5. ASSUME Tick \/ \E p \in Issued : Expire(p)
      PROVE  IInv'
  <2>1. UNCHANGED <<rows, pairs, cut, spent, late, lockout, call, crashes>>
    BY <1>5 DEF Tick, Expire
  <2>2. TokensOK'
    BY <1>5 DEF Tick, Expire, IInv, TokensOK, Issued
  <2> QED BY <2>1, <2>2, Stay, CallsStay DEF IInv
<1> QED BY <1>1, <1>3, <1>4, <1>5 DEF Next

LEMMA Invariance == Spec => []IInv
BY InitInv, NextInv, PTL DEF Spec

(* The state of the accounts has its type, and only a count that exists    *)
(* has a TTL (login of authService.ts).                                    *)
THEOREM TypeCorrect == Spec => []TypeOK
<1>1. IInv => TypeOK
  BY InvImplies
<1> QED BY <1>1, Invariance, PTL

(* A session never forks, for any number of users and of concurrent        *)
(* requests: a refresh token is worth one pair (SET NX in refresh of       *)
(* authService.ts).                                                        *)
THEOREM SessionsNeverFork == Spec => []RefreshOnce
<1>1. IInv => RefreshOnce
  BY InvImplies
<1> QED BY <1>1, Invariance, PTL

----------------------------------------------------------------------------
(* Requests of a user at a step, and how many they are.                    *)

At(u, pcs) == {c \in Calls : call[c].pc \in pcs /\ call[c].user = u}

LEMMA AtCounts ==
  ASSUME NEW u, NEW pcs
  PROVE  /\ IsFiniteSet(At(u, pcs)) /\ Cardinality(At(u, pcs)) \in Nat
         /\ Cardinality(Calls) \in Nat /\ Cardinality(At(u, pcs)) <= Cardinality(Calls)
<1>1. At(u, pcs) \subseteq Calls /\ IsFiniteSet(Calls)
  BY AccountsAssumption DEF At
<1> QED BY <1>1, FS_Subset, FS_CardinalityType

(* Two groups of requests that no request is in at once.                   *)
LEMMA Apart ==
  ASSUME NEW u, NEW ps, NEW qs, ps \cap qs = {}
  PROVE  Cardinality(At(u, ps)) + Cardinality(At(u, qs)) <= Cardinality(Calls)
<1>1. At(u, ps) \cap At(u, qs) = {} /\ At(u, ps) \cup At(u, qs) \subseteq Calls
  BY DEF At
<1>2. Cardinality(At(u, ps) \cup At(u, qs)) = Cardinality(At(u, ps)) + Cardinality(At(u, qs))
  <2>1. Cardinality(At(u, ps) \cap At(u, qs)) = 0
    BY <1>1, FS_EmptySet
  <2>2. /\ IsFiniteSet(At(u, ps)) /\ Cardinality(At(u, ps)) \in Nat
        /\ IsFiniteSet(At(u, qs)) /\ Cardinality(At(u, qs)) \in Nat
    BY AtCounts
  <2>3. Cardinality(At(u, ps) \cup At(u, qs))
        = Cardinality(At(u, ps)) + Cardinality(At(u, qs)) - Cardinality(At(u, ps) \cap At(u, qs))
    BY <2>2, FS_Union
  <2> QED BY <2>1, <2>2, <2>3
<1>3. Cardinality(At(u, ps) \cup At(u, qs)) <= Cardinality(Calls)
  BY <1>1, AccountsAssumption, FS_Subset
<1> QED BY <1>2, <1>3

(* A group gains or loses the request that takes a step.                   *)
LEMMA OneCall ==
  ASSUME NEW c \in Calls, \A d \in Calls \ {c} : call'[d] = call[d], NEW u, NEW pcs
  PROVE  /\ (c \in At(u, pcs)' <=> c \in At(u, pcs)) => At(u, pcs)' = At(u, pcs)
         /\ c \in At(u, pcs)' /\ c \notin At(u, pcs) =>
              Cardinality(At(u, pcs)') = Cardinality(At(u, pcs)) + 1
         /\ c \notin At(u, pcs)' /\ c \in At(u, pcs) =>
              Cardinality(At(u, pcs)') = Cardinality(At(u, pcs)) - 1
<1>1. \A d \in Calls \ {c} : d \in At(u, pcs)' <=> d \in At(u, pcs)
  BY DEF At
<1>2. At(u, pcs) \subseteq Calls /\ At(u, pcs)' \subseteq Calls
  BY DEF At
<1>3. ASSUME c \in At(u, pcs)', c \notin At(u, pcs)
      PROVE  Cardinality(At(u, pcs)') = Cardinality(At(u, pcs)) + 1
  <2>1. At(u, pcs)' = At(u, pcs) \cup {c}
    BY <1>1, <1>2, <1>3
  <2> QED BY <1>3, <2>1, AtCounts, FS_AddElement
<1>4. ASSUME c \notin At(u, pcs)', c \in At(u, pcs)
      PROVE  Cardinality(At(u, pcs)') = Cardinality(At(u, pcs)) - 1
  <2>1. At(u, pcs)' = At(u, pcs) \ {c}
    BY <1>1, <1>2, <1>4
  <2> QED BY <1>4, <2>1, AtCounts, FS_RemoveElement
<1>5. (c \in At(u, pcs)' <=> c \in At(u, pcs)) => At(u, pcs)' = At(u, pcs)
  BY <1>1, <1>2
<1> QED BY <1>3, <1>4, <1>5

(* What the step of a request does to the steps of the requests.           *)
Stepped(c, pcs) == call'[c].pc \in pcs /\ \A d \in Calls \ {c} : call'[d] = call[d]

LEMMA Steps ==
  ASSUME IInv, NEW c \in Calls
  PROVE  /\ End(c) => Stepped(c, {"idle"})
         /\ \A pc \in Pcs : Goto(c, pc) => Stepped(c, {pc}) /\ call'[c].user = call[c].user
<1>1. call \in [Calls -> RequestType] /\ call[c] \in RequestType
  BY DEF IInv, CallsOK
<1>2. End(c) => Stepped(c, {"idle"})
  BY <1>1, NoCallType DEF End, Stepped
<1>3. ASSUME NEW pc \in Pcs, Goto(c, pc)
      PROVE  Stepped(c, {pc}) /\ call'[c].user = call[c].user
  <2>1. call' = [call EXCEPT ![c] = [call[c] EXCEPT !.pc = pc]]
    BY <1>3 DEF Goto
  <2>2. call'[c] = [call[c] EXCEPT !.pc = pc] /\ \A d \in Calls \ {c} : call'[d] = call[d]
    BY <1>1, <2>1
  <2> QED BY <1>1, <2>2 DEF Stepped, RequestType
<1> QED BY <1>2, <1>3

----------------------------------------------------------------------------
(* The lockout                                                             *)

(* Requests that have counted, or are about to count, a wrong password and *)
(* have not ended; requests that have passed the lock.                     *)
Pending(u) == At(u, {"incr", "lockout"})
Comparing(u) == At(u, {"compare"})

(* What the count says of the failures before the one that locks.          *)
Counted(u) == IF fails[u] < MaxFailed THEN fails[u] ELSE MaxFailed - 1

(* As long as there is no lock, every wrong password is counted, about to  *)
(* be counted or about to lock, or its request died.  Once there is one,   *)
(* only the requests that had passed it before may still add to them.      *)
LockedIn(u) ==
  IF locked[u]
  THEN guesses[u] + Cardinality(Comparing(u)) <= MaxFailed - 1 + Cardinality(Calls) + crashes
  ELSE guesses[u] <= Counted(u) + Cardinality(Pending(u)) + crashes

(* Steps that the lockout of no user depends on.                           *)
Aside(c) ==
  /\ call[c].pc \notin {"incr", "lockout"}
  /\ Stepped(c, Pcs \ {"incr", "lockout", "compare"})
  /\ UNCHANGED <<fails, locked, guesses, crashes>>

LEMMA LockoutCases ==
  ASSUME IInv, NEW c \in Calls, LoginStep(c) \/ SessionStep(c) \/ AdminStep(c) \/ Crash(c)
  PROVE  \/ Aside(c) \/ LoginLock(c) \/ LoginWrong(c) \/ LoginIncr(c) \/ LoginLockout(c)
         \/ LoginReset(c) \/ Crash(c)
<1>1. call \in [Calls -> RequestType] /\ call[c] \in RequestType
  BY DEF IInv, CallsOK
<1> DEFINE P == Pcs \ {"incr", "lockout", "compare"}
<1>2. /\ {"idle", "lock", "reset", "mint", "user", "revoke", "rank", "update", "check", "count",
          "disable", "stamp"} \subseteq P
  BY DEF Pcs
<1>3. /\ End(c) => Stepped(c, P)
      /\ \A pc \in P : Goto(c, pc) => Stepped(c, P)
  BY <1>2, Steps DEF Stepped
<1>4. ASSUME NEW x, x.pc \in P, call' = [call EXCEPT ![c] = x]
      PROVE  Stepped(c, P)
  BY <1>1, <1>4 DEF Stepped
<1> HIDE DEF P
<1>5. UNCHANGED lockout => UNCHANGED <<fails, locked, guesses>>
  BY DEF lockout
<1>6. ASSUME NEW u \in Users, LoginUser(c, u)
      PROVE  Aside(c)
  <2>1. call[c].pc = "idle" /\ UNCHANGED <<lockout, crashes>>
    BY <1>6 DEF LoginUser, Idle
  <2>2. [NoCall EXCEPT !.pc = "lock", !.user = u, !.role = row[u].role].pc = "lock"
    BY DEF NoCall
  <2> QED BY <1>2, <1>4, <1>5, <1>6, <2>1, <2>2 DEF LoginUser, Aside, P
<1>7. CASE LoginRight(c) \/ LoginExpire(c)
  <2>1. call[c].pc \notin {"incr", "lockout"} /\ UNCHANGED <<fails, locked, guesses, crashes>>
    BY <1>5, <1>7 DEF LoginRight, LoginExpire
  <2>2. Stepped(c, P)
    BY <1>2, <1>3, <1>7 DEF LoginRight, LoginExpire
  <2> QED BY <2>1, <2>2 DEF Aside, P
<1>8. ASSUME NEW p \in Issued, Refresh(c, p) \/ Logout(c, p)
      PROVE  Aside(c)
  <2>1. call[c].pc = "idle" /\ UNCHANGED <<lockout, crashes>>
    BY <1>8 DEF Refresh, Logout, Idle
  <2>2. /\ [NoCall EXCEPT !.pc = "user", !.user = pairs[p].user, !.pair = p].pc = "user"
        /\ [NoCall EXCEPT !.pc = "revoke", !.pair = p].pc = "revoke"
    BY DEF NoCall
  <2>3. Stepped(c, P)
    BY <1>2, <1>4, <1>8, <2>2 DEF Refresh, Logout
  <2> QED BY <1>5, <2>1, <2>3 DEF Aside, P
<1>9. CASE RefreshUser(c) \/ LogoutRefresh(c) \/ Mint(c)
  <2>1. call[c].pc \notin {"incr", "lockout"} /\ UNCHANGED <<lockout, crashes>>
    BY <1>9 DEF RefreshUser, LogoutRefresh, Mint
  <2>2. Stepped(c, P)
    <3>1. [call[c] EXCEPT !.pc = "mint", !.role = row[call[c].user].role].pc = "mint"
      BY <1>1 DEF RequestType
    <3>2. RefreshUser(c) => End(c) \/ call' = [call EXCEPT ![c] = [call[c] EXCEPT !.pc = "mint", !.role = row[call[c].user].role]]
      BY DEF RefreshUser
    <3> QED BY <1>2, <1>3, <1>4, <1>9, <3>1, <3>2 DEF LogoutRefresh, Mint
  <2> QED BY <1>5, <2>1, <2>2 DEF Aside, P
<1>10. ASSUME NEW p \in Issued, NEW u \in Users,
              Delete(c, p, u) \/ \E role \in NewRoles : Patch(c, p, u, role)
       PROVE  Aside(c)
  <2>1. call[c].pc = "idle" /\ UNCHANGED <<lockout, crashes>>
    BY <1>10 DEF Delete, Patch, Idle
  <2>2. Stepped(c, P)
    BY <1>2, <1>4, <1>10 DEF Delete, Patch, Request
  <2> QED BY <1>5, <2>1, <2>2 DEF Aside, P
<1>11. CASE PatchRank(c) \/ PatchUpdate(c) \/ DeleteCheck(c) \/ DeleteCount(c) \/ Disable(c) \/ Stamp(c)
  <2>1. call[c].pc \notin {"incr", "lockout"} /\ UNCHANGED <<lockout, crashes>>
    BY <1>11 DEF PatchRank, PatchUpdate, DeleteCheck, DeleteCount, Disable, Stamp
  <2>2. Stepped(c, P)
    BY <1>2, <1>3, <1>11 DEF PatchRank, PatchUpdate, DeleteCheck, DeleteCount, Disable, Stamp
  <2> QED BY <1>5, <2>1, <2>2 DEF Aside, P
<1> QED BY <1>6, <1>7, <1>8, <1>9, <1>10, <1>11 DEF LoginStep, SessionStep, AdminStep

(* The numbers a user's lockout is stated with.                            *)
Numbers(u) ==
  /\ guesses[u] \in Nat /\ fails[u] \in 0..MaxFailed /\ locked[u] \in BOOLEAN
  /\ MaxFailed \in Nat \ {0, 1} /\ crashes \in Nat /\ Counted(u) \in 0..(MaxFailed - 1)
  /\ Cardinality(Calls) \in Nat
  /\ Cardinality(Pending(u)) \in Nat /\ Cardinality(Comparing(u)) \in Nat
  /\ Cardinality(Pending(u)) + Cardinality(Comparing(u)) <= Cardinality(Calls)

LEMMA LockoutNumbers == \A u \in Users : IInv => Numbers(u)
<1> SUFFICES ASSUME IInv, NEW u \in Users PROVE Numbers(u)
  OBVIOUS
<1>1. guesses[u] \in Nat /\ fails[u] \in 0..MaxFailed /\ locked[u] \in BOOLEAN /\ crashes \in Nat
  BY DEF IInv, LockoutOK
<1>2. MaxFailed \in Nat \ {0, 1}
  BY AccountsAssumption
<1>3. Counted(u) \in 0..(MaxFailed - 1)
  BY <1>1, <1>2 DEF Counted
<1>4. /\ Cardinality(Calls) \in Nat
      /\ Cardinality(Pending(u)) \in Nat /\ Cardinality(Comparing(u)) \in Nat
  BY AtCounts DEF Pending, Comparing
<1>5. Cardinality(Pending(u)) + Cardinality(Comparing(u)) <= Cardinality(Calls)
  BY Apart DEF Pending, Comparing
<1> QED BY <1>1, <1>2, <1>3, <1>4, <1>5 DEF Numbers

LEMMA NextNumbers == \A u \in Users : IInv' => Numbers(u)'
<1>1. (\A u \in Users : IInv => Numbers(u))'
  BY LockoutNumbers, PTL
<1> QED BY <1>1

LEMMA LockedInBounds ==
  ASSUME IInv, NEW u \in Users, LockedIn(u)
  PROVE  guesses[u] <= MaxFailed - 1 + Cardinality(Calls) + crashes
BY LockoutNumbers DEF LockedIn, Numbers

(* A user whose count is cleared, or whose lock ends, is left with the     *)
(* wrong passwords still to be counted.                                    *)
LEMMA StartsAfresh ==
  ASSUME IInv, IInv', NEW u \in Users, guesses'[u] = ToCome(u),
         \A d \in Calls : call[d].pc = "incr" => call'[d] = call[d]
  PROVE  LockedIn(u)'
<1>1. At(u, {"incr"}) \subseteq Pending(u)' /\ Pending(u)' \subseteq Calls
  BY DEF At, Pending
<1>2. ToCome(u) = Cardinality(At(u, {"incr"}))
  <2>1. At(u, {"incr"}) = {c \in Calls : call[c].pc = "incr" /\ call[c].user = u}
    BY DEF At
  <2> QED BY <2>1 DEF ToCome
<1>3. /\ IsFiniteSet(At(u, {"incr"})) /\ Cardinality(At(u, {"incr"})) \in Nat
      /\ IsFiniteSet(Pending(u)')
  BY <1>1, AtCounts, AccountsAssumption, FS_Subset
<1>4. Cardinality(At(u, {"incr"})) <= Cardinality(Pending(u)')
  BY <1>1, <1>3, FS_Subset
<1>5. Numbers(u)'
  BY NextNumbers
<1> QED BY <1>2, <1>3, <1>4, <1>5 DEF LockedIn, Numbers

(* A step that leaves the numbers of a user alone, or of another user.     *)
LEMMA NumbersStay ==
  ASSUME IInv, IInv', NEW c \in Calls, NEW u \in Users, LockedIn(u),
         \A d \in Calls \ {c} : call'[d] = call[d],
         guesses'[u] = guesses[u], fails'[u] = fails[u], locked'[u] = locked[u],
         crashes' = crashes,
         c \in Comparing(u)' => c \in Comparing(u) \/ ~locked[u],
         c \in Pending(u) => c \in Pending(u)'
  PROVE  LockedIn(u)'
<1>1. Numbers(u) /\ Numbers(u)'
  BY LockoutNumbers, NextNumbers
<1>2. /\ (c \in Comparing(u)' <=> c \in Comparing(u)) => Comparing(u)' = Comparing(u)
      /\ c \notin Comparing(u)' /\ c \in Comparing(u) =>
           Cardinality(Comparing(u)') = Cardinality(Comparing(u)) - 1
  BY OneCall DEF Comparing
<1>3. /\ (c \in Pending(u)' <=> c \in Pending(u)) => Pending(u)' = Pending(u)
      /\ c \in Pending(u)' /\ c \notin Pending(u) =>
           Cardinality(Pending(u)') = Cardinality(Pending(u)) + 1
  BY OneCall DEF Pending
<1>4. locked[u] => Cardinality(Comparing(u)') <= Cardinality(Comparing(u))
  BY <1>1, <1>2 DEF Numbers
<1>5. Cardinality(Pending(u)') >= Cardinality(Pending(u))
  BY <1>1, <1>3 DEF Numbers
<1>6. Counted(u)' = Counted(u)
  BY DEF Counted
<1> QED BY <1>1, <1>4, <1>5, <1>6 DEF LockedIn, Numbers


LEMMA OtherUser ==
  ASSUME IInv, IInv', NEW c \in Calls, NEW u \in Users, LockedIn(u), call[c].user # u,
         LoginLock(c) \/ LoginWrong(c) \/ LoginIncr(c) \/ LoginLockout(c) \/ LoginReset(c)
  PROVE  LockedIn(u)'
<1>1. /\ call[c] \in RequestType /\ call[c].user \in Users /\ LockoutOK
      /\ {"compare", "incr", "expire", "lockout", "mint"} \subseteq Pcs
  BY DEF IInv, CallsOK, RequestType, Pcs
<1>2. /\ End(c) => Stepped(c, {"idle"})
      /\ \A pc \in Pcs : Goto(c, pc) => Stepped(c, {pc}) /\ call'[c].user = call[c].user
  BY Steps
<1>3. /\ \A d \in Calls \ {c} : call'[d] = call[d]
      /\ call'[c].pc = "idle" \/ call'[c].user = call[c].user
  BY <1>1, <1>2 DEF Stepped, LoginLock, LoginWrong, LoginIncr, LoginLockout, LoginReset
<1>4. /\ guesses'[u] = guesses[u] /\ fails'[u] = fails[u] /\ locked'[u] = locked[u]
      /\ crashes' = crashes
  BY <1>1 DEF LockoutOK, lockout, LoginLock, LoginWrong, LoginIncr, CountFailure, LoginLockout,
     LoginReset, ClearFails
<1>5. c \notin Pending(u) /\ c \notin Comparing(u)'
  BY <1>3 DEF Pending, Comparing, At
<1> QED BY <1>3, <1>4, <1>5, NumbersStay

LEMMA OwnUser ==
  ASSUME IInv, IInv', NEW c \in Calls, NEW u \in Users, LockedIn(u), call[c].user = u,
         LoginLock(c) \/ LoginWrong(c) \/ LoginIncr(c) \/ LoginLockout(c) \/ LoginReset(c)
  PROVE  LockedIn(u)'
<1>1. /\ Numbers(u) /\ Numbers(u)' /\ LockoutOK /\ call[c] \in RequestType
      /\ {"compare", "incr", "expire", "lockout", "mint"} \subseteq Pcs
  BY LockoutNumbers, NextNumbers DEF IInv, CallsOK, Pcs
<1>2. /\ End(c) => Stepped(c, {"idle"})
      /\ \A pc \in Pcs : Goto(c, pc) => Stepped(c, {pc}) /\ call'[c].user = u
  BY Steps
<1>3. ASSUME \A d \in Calls \ {c} : call'[d] = call[d]
      PROVE  /\ (c \in Comparing(u)' <=> c \in Comparing(u)) => Comparing(u)' = Comparing(u)
             /\ c \notin Comparing(u)' /\ c \in Comparing(u) =>
                  Cardinality(Comparing(u)') = Cardinality(Comparing(u)) - 1
             /\ (c \in Pending(u)' <=> c \in Pending(u)) => Pending(u)' = Pending(u)
             /\ c \in Pending(u)' /\ c \notin Pending(u) =>
                  Cardinality(Pending(u)') = Cardinality(Pending(u)) + 1
             /\ c \notin Pending(u)' /\ c \in Pending(u) =>
                  Cardinality(Pending(u)') = Cardinality(Pending(u)) - 1
  BY <1>3, OneCall DEF Comparing, Pending
<1>4. CASE LoginLock(c)
  <2>1. call[c].pc = "lock" /\ UNCHANGED <<fails, locked, guesses, crashes>>
        /\ (End(c) \/ (~locked[u] /\ Goto(c, "compare")))
    BY <1>4 DEF LoginLock, lockout
  <2>2. (\A d \in Calls \ {c} : call'[d] = call[d]) /\ (call'[c].pc = "idle" \/ ~locked[u])
    BY <1>1, <1>2, <2>1 DEF Stepped
  <2>3. c \notin Pending(u) /\ (c \in Comparing(u)' => ~locked[u])
    BY <2>1, <2>2 DEF Pending, Comparing, At
  <2> QED BY <2>1, <2>2, <2>3, NumbersStay
<1>5. CASE LoginWrong(c)
  <2>1. /\ call[c].pc = "compare" /\ guesses' = [guesses EXCEPT ![u] = @ + 1] /\ Goto(c, "incr")
        /\ UNCHANGED <<fails, locked, crashes>>
    BY <1>5 DEF LoginWrong
  <2>2. guesses'[u] = guesses[u] + 1
    BY <1>1, <2>1 DEF LockoutOK
  <2>3. Stepped(c, {"incr"}) /\ call'[c].user = u
    BY <1>1, <1>2, <2>1
  <2>4. c \in Comparing(u) /\ c \notin Comparing(u)' /\ c \notin Pending(u) /\ c \in Pending(u)'
    BY <2>1, <2>3 DEF Stepped, Comparing, Pending, At
  <2>5. /\ Cardinality(Comparing(u)') = Cardinality(Comparing(u)) - 1
        /\ Cardinality(Pending(u)') = Cardinality(Pending(u)) + 1
    BY <1>3, <2>3, <2>4 DEF Stepped
  <2>6. Counted(u)' = Counted(u)
    BY <2>1 DEF Counted
  <2> QED BY <1>1, <2>1, <2>2, <2>5, <2>6 DEF LockedIn, Numbers
<1>6. CASE LoginIncr(c)
  <2>1. /\ call[c].pc = "incr" /\ UNCHANGED <<locked, guesses, crashes>>
        /\ fails' = [fails EXCEPT ![u] = IF @ < MaxFailed THEN @ + 1 ELSE @]
    BY <1>6 DEF LoginIncr, CountFailure
  <2>2. fails'[u] = IF fails[u] < MaxFailed THEN fails[u] + 1 ELSE fails[u]
    BY <1>1, <2>1 DEF LockoutOK
  <2>3. \/ fails[u] + 1 < MaxFailed /\ (Goto(c, "expire") \/ End(c))
        \/ fails[u] + 1 >= MaxFailed /\ Goto(c, "lockout")
    BY <1>1, <1>6 DEF LoginIncr, Numbers
  <2>4. Counted(u)' = IF fails[u] + 1 < MaxFailed THEN Counted(u) + 1 ELSE Counted(u)
    BY <1>1, <2>2 DEF Counted, Numbers
  <2>5. c \notin Comparing(u) /\ c \in Pending(u)
    BY <2>1 DEF Comparing, Pending, At
  <2>6. CASE fails[u] + 1 < MaxFailed
    <3>1. Stepped(c, {"idle", "expire"})
      BY <1>1, <1>2, <2>3, <2>6 DEF Stepped, Numbers
    <3>2. c \notin Comparing(u)' /\ c \notin Pending(u)'
      BY <3>1 DEF Stepped, Comparing, Pending, At
    <3>3. Comparing(u)' = Comparing(u) /\ Cardinality(Pending(u)') = Cardinality(Pending(u)) - 1
      BY <1>3, <2>5, <3>1, <3>2 DEF Stepped
    <3> QED BY <1>1, <2>1, <2>4, <2>6, <3>3 DEF LockedIn, Numbers
  <2>7. CASE fails[u] + 1 >= MaxFailed
    <3>1. Stepped(c, {"lockout"}) /\ call'[c].user = u
      BY <1>1, <1>2, <2>3, <2>7 DEF Numbers
    <3>2. c \notin Comparing(u)' /\ c \in Pending(u)'
      BY <3>1 DEF Stepped, Comparing, Pending, At
    <3>3. Comparing(u)' = Comparing(u) /\ Pending(u)' = Pending(u)
      BY <1>3, <2>5, <3>1, <3>2 DEF Stepped
    <3>4. Counted(u)' = Counted(u)
      BY <1>1, <2>4, <2>7 DEF Numbers
    <3> QED BY <1>1, <2>1, <3>3, <3>4 DEF LockedIn, Numbers
  <2> QED BY <2>3, <2>6, <2>7
<1>7. CASE LoginLockout(c)
  <2>1. /\ call[c].pc = "lockout" /\ locked' = [locked EXCEPT ![u] = TRUE] /\ End(c)
        /\ UNCHANGED <<fails, guesses, crashes>>
    BY <1>7 DEF LoginLockout
  <2>2. locked'[u] = TRUE /\ Stepped(c, {"idle"})
    BY <1>1, <1>2, <2>1 DEF LockoutOK
  <2>3. c \notin Comparing(u) /\ c \notin Comparing(u)'
    BY <2>1, <2>2 DEF Stepped, Comparing, At
  <2>4. Comparing(u)' = Comparing(u)
    BY <1>3, <2>2, <2>3 DEF Stepped
  <2> QED BY <1>1, <2>1, <2>2, <2>4 DEF LockedIn, Numbers
<1>8. CASE LoginReset(c)
  <2>1. call[c].pc = "reset" /\ guesses' = [guesses EXCEPT ![u] = ToCome(u)] /\ Goto(c, "mint")
    BY <1>8 DEF LoginReset, ClearFails
  <2>2. guesses'[u] = ToCome(u)
    BY <1>1, <2>1 DEF LockoutOK
  <2>3. \A d \in Calls : call[d].pc = "incr" => call'[d] = call[d]
    BY <1>1, <1>2, <2>1 DEF Stepped
  <2> QED BY <2>2, <2>3, StartsAfresh
<1> QED BY <1>4, <1>5, <1>6, <1>7, <1>8

(* A request that dies takes a count, or a lock, with it: this is what the *)
(* deaths are in the bound for.                                            *)
LEMMA CrashKeepsLock ==
  ASSUME IInv, IInv', NEW c \in Calls, NEW u \in Users, LockedIn(u), Crash(c)
  PROVE  LockedIn(u)'
<1>1. /\ crashes' = crashes + 1 /\ Stepped(c, {"idle"}) /\ UNCHANGED <<fails, locked, guesses>>
  BY Steps DEF Crash, lockout
<1>2. Numbers(u) /\ Numbers(u)' /\ Counted(u)' = Counted(u)
  BY <1>1, LockoutNumbers, NextNumbers DEF Counted
<1>3. /\ (c \in Comparing(u)' <=> c \in Comparing(u)) => Comparing(u)' = Comparing(u)
      /\ c \notin Comparing(u)' /\ c \in Comparing(u) =>
           Cardinality(Comparing(u)') = Cardinality(Comparing(u)) - 1
      /\ (c \in Pending(u)' <=> c \in Pending(u)) => Pending(u)' = Pending(u)
      /\ c \notin Pending(u)' /\ c \in Pending(u) =>
           Cardinality(Pending(u)') = Cardinality(Pending(u)) - 1
  BY <1>1, OneCall DEF Stepped, Comparing, Pending
<1>4. c \notin Comparing(u)' /\ c \notin Pending(u)'
  BY <1>1 DEF Stepped, Comparing, Pending, At
<1>5. /\ Cardinality(Comparing(u)') <= Cardinality(Comparing(u))
      /\ Cardinality(Pending(u)') + 1 >= Cardinality(Pending(u))
  BY <1>2, <1>3, <1>4 DEF Numbers
<1> QED BY <1>1, <1>2, <1>5 DEF LockedIn, Numbers

LEMMA LockoutKeeps ==
  ASSUME IInv, IInv', [Next]_vars, NEW u \in Users, LockedIn(u)
  PROVE  LockedIn(u)'
<1>1. LockoutOK
  BY DEF IInv
<1>2. ASSUME UNCHANGED <<call, fails, locked, crashes>>, guesses'[u] = guesses[u]
      PROVE  LockedIn(u)'
  BY <1>2 DEF LockedIn, Counted, Comparing, Pending, At
<1>3. CASE UNCHANGED vars
  BY <1>2, <1>3 DEF vars
<1>4. ASSUME NEW c \in Calls, LoginStep(c) \/ SessionStep(c) \/ AdminStep(c) \/ Crash(c)
      PROVE  LockedIn(u)'
  <2>1. CASE Aside(c)
    <3>1. c \notin Pending(u) /\ c \notin Comparing(u)'
      BY <2>1 DEF Aside, Stepped, Pending, Comparing, At
    <3> QED BY <2>1, <3>1, NumbersStay DEF Aside, Stepped
  <2> QED BY <1>4, <2>1, LockoutCases, OtherUser, OwnUser, CrashKeepsLock
<1>5. ASSUME NEW v \in Users, FailsExpire(v) \/ LockExpires(v)
      PROVE  LockedIn(u)'
  <2>1. guesses' = [guesses EXCEPT ![v] = ToCome(v)] /\ UNCHANGED <<call, crashes>>
    BY <1>5 DEF FailsExpire, LockExpires, ClearFails
  <2>2. CASE u = v
    BY <1>1, <2>1, <2>2, StartsAfresh DEF LockoutOK
  <2>3. CASE u # v
    <3>1. guesses'[u] = guesses[u] /\ fails'[u] = fails[u] /\ locked'[u] = locked[u]
      BY <1>1, <1>5, <2>3 DEF LockoutOK, FailsExpire, LockExpires, ClearFails
    <3> QED BY <2>1, <3>1 DEF LockedIn, Counted, Comparing, Pending, At
  <2> QED BY <2>2, <2>3
<1>6. CASE Tick \/ \E p \in Issued : Expire(p)
  BY <1>2, <1>6 DEF Tick, Expire, lockout
<1> QED BY <1>3, <1>4, <1>5, <1>6 DEF Next

LockoutInv == IInv /\ \A u \in Users : LockedIn(u)

LEMMA LockoutInvariant == Spec => []LockoutInv
<1>1. Init => LockoutInv
  <2> SUFFICES ASSUME Init, NEW u \in Users PROVE LockedIn(u)
    BY InitInv DEF LockoutInv
  <2>1. IInv /\ Numbers(u)
    BY InitInv, LockoutNumbers
  <2>2. guesses[u] = 0 /\ ~locked[u]
    BY DEF Init
  <2> QED BY <2>1, <2>2 DEF LockedIn, Numbers
<1>2. LockoutInv /\ [Next]_vars => LockoutInv'
  BY NextInv, LockoutKeeps DEF LockoutInv
<1> QED BY <1>1, <1>2, PTL DEF Spec

(* Past MAX_FAILED_ATTEMPTS there is at most one more wrong password per   *)
(* request in progress and one per request that died (login of             *)
(* authService.ts), however many requests there are.                       *)
THEOREM LockoutIsBounded == Spec => []LockoutBound
<1>1. LockoutInv => LockoutBound
  BY LockedInBounds DEF LockoutInv, LockoutBound
<1> QED BY <1>1, LockoutInvariant, PTL

----------------------------------------------------------------------------
(* Deletions                                                               *)

(* Requests that can still end in a pair of tokens for their user, whatever*)
(* has happened to him since they read his row.                            *)
SigningPcs == {"lock", "compare", "reset", "mint"}
Signing(u) == At(u, SigningPcs)

(* The request that deletes a user is none of those.                       *)
FewAfter(u) ==
  IF Active(u) THEN late[u] = 0 ELSE late[u] + Cardinality(Signing(u)) < Cardinality(Calls)

(* Steps that issue no tokens, delete nobody, and bring no request for a   *)
(* deleted user among those that can still end in tokens.                  *)
Unsigned(c) ==
  /\ late' = late /\ \A d \in Calls \ {c} : call'[d] = call[d]
  /\ \A u \in Users : row'[u].status = row[u].status
  /\ \A u \in Users : ~Active(u) /\ c \in Signing(u)' => c \in Signing(u)

LEMMA DeletionCases ==
  ASSUME IInv, NEW c \in Calls, LoginStep(c) \/ SessionStep(c) \/ AdminStep(c) \/ Crash(c)
  PROVE  Unsigned(c) \/ Mint(c) \/ Disable(c)
<1>1. /\ call \in [Calls -> RequestType] /\ call[c] \in RequestType /\ RowsOK
      /\ call[c].user \in Users
  BY DEF IInv, CallsOK, RequestType
<1>2. /\ End(c) => Stepped(c, {"idle"})
      /\ \A pc \in Pcs : Goto(c, pc) => Stepped(c, {pc}) /\ call'[c].user = call[c].user
  BY Steps
<1>3. ASSUME UNCHANGED <<rows, late>>, \A d \in Calls \ {c} : call'[d] = call[d],
             \/ call'[c].pc \notin SigningPcs
             \/ call[c].pc \in SigningPcs /\ call'[c].user = call[c].user
             \/ Active(call'[c].user)
      PROVE  Unsigned(c)
  BY <1>3 DEF Unsigned, Signing, At, rows
<1>4. ASSUME NEW x, call' = [call EXCEPT ![c] = x]
      PROVE  call'[c] = x /\ \A d \in Calls \ {c} : call'[d] = call[d]
  BY <1>1, <1>4
<1>5. /\ {"idle", "incr", "expire", "lockout", "user", "revoke", "rank", "update", "check", "count",
          "disable", "stamp"} \subseteq Pcs \ SigningPcs
      /\ SigningPcs \subseteq Pcs
  BY NoCallType DEF Pcs, SigningPcs, NoCall, RequestType
<1>6. ASSUME NEW u \in Users, LoginUser(c, u)
      PROVE  Unsigned(c)
  <2> DEFINE x == [NoCall EXCEPT !.pc = "lock", !.user = u, !.role = row[u].role]
  <2>1. Active(u) /\ UNCHANGED <<rows, late>> /\ call' = [call EXCEPT ![c] = x]
    BY <1>6 DEF LoginUser, tokens
  <2>2. x.user = u
    BY DEF NoCall
  <2> HIDE DEF x
  <2> QED BY <1>3, <1>4, <2>1, <2>2
<1>7. CASE LoginLock(c) \/ LoginWrong(c) \/ LoginRight(c) \/ LoginIncr(c) \/ LoginExpire(c)
           \/ LoginLockout(c) \/ LoginReset(c)
  <2>1. UNCHANGED <<rows, late>>
    BY <1>7 DEF LoginLock, LoginWrong, LoginRight, LoginIncr, LoginExpire, LoginLockout, LoginReset,
       tokens
  <2>2. \/ End(c) \/ Goto(c, "incr") \/ Goto(c, "expire") \/ Goto(c, "lockout")
        \/ (call[c].pc = "lock" /\ Goto(c, "compare"))
        \/ (call[c].pc = "compare" /\ Goto(c, "reset"))
        \/ (call[c].pc = "reset" /\ Goto(c, "mint"))
    BY <1>7 DEF LoginLock, LoginWrong, LoginRight, LoginIncr, LoginExpire, LoginLockout, LoginReset
  <2>3. \/ Stepped(c, Pcs \ SigningPcs)
        \/ call[c].pc \in SigningPcs /\ Stepped(c, Pcs) /\ call'[c].user = call[c].user
    BY <1>2, <1>5, <2>2 DEF Stepped, SigningPcs
  <2> QED BY <1>3, <2>1, <2>3 DEF Stepped
<1>8. ASSUME NEW p \in Issued, Refresh(c, p) \/ Logout(c, p)
      PROVE  Unsigned(c)
  <2>1. /\ UNCHANGED <<rows, late>>
        /\ \/ call' = [call EXCEPT ![c] = [NoCall EXCEPT !.pc = "user", !.user = pairs[p].user, !.pair = p]]
           \/ call' = [call EXCEPT ![c] = [NoCall EXCEPT !.pc = "revoke", !.pair = p]]
    BY <1>8 DEF Refresh, Logout
  <2>2. /\ [NoCall EXCEPT !.pc = "user", !.user = pairs[p].user, !.pair = p].pc = "user"
        /\ [NoCall EXCEPT !.pc = "revoke", !.pair = p].pc = "revoke"
    BY DEF NoCall
  <2>3. call'[c].pc \in {"user", "revoke"} /\ \A d \in Calls \ {c} : call'[d] = call[d]
    BY <1>4, <2>1, <2>2
  <2> QED BY <1>3, <1>5, <2>1, <2>3
<1>9. CASE RefreshUser(c)
  <2> DEFINE x == [call[c] EXCEPT !.pc = "mint", !.role = row[call[c].user].role]
  <2>1. /\ UNCHANGED <<rows, late>>
        /\ End(c) \/ (Active(call[c].user) /\ call' = [call EXCEPT ![c] = x])
    BY <1>9 DEF RefreshUser, tokens
  <2>2. x.user = call[c].user
    BY <1>1 DEF RequestType
  <2> HIDE DEF x
  <2> QED BY <1>2, <1>3, <1>4, <1>5, <2>1, <2>2 DEF Stepped
<1>10. CASE LogoutRefresh(c) \/ Crash(c) \/ PatchRank(c) \/ DeleteCheck(c) \/ DeleteCount(c) \/ Stamp(c)
  <2>1. UNCHANGED <<rows, late>>
    BY <1>10 DEF LogoutRefresh, Crash, PatchRank, DeleteCheck, DeleteCount, Stamp, tokens
  <2>2. End(c) \/ Goto(c, "update") \/ Goto(c, "count") \/ Goto(c, "disable")
    BY <1>10 DEF LogoutRefresh, Crash, PatchRank, DeleteCheck, DeleteCount, Stamp
  <2>3. Stepped(c, Pcs \ SigningPcs)
    BY <1>2, <1>5, <2>2 DEF Stepped
  <2> QED BY <1>3, <2>1, <2>3 DEF Stepped
<1>11. ASSUME NEW p \in Issued, NEW u \in Users,
              Delete(c, p, u) \/ \E role \in NewRoles : Patch(c, p, u, role)
       PROVE  Unsigned(c)
  <2>1. PICK role \in Roles, pc \in {"check", "rank"} :
          Request(c, p, u, role, pc) /\ UNCHANGED <<rows, late>>
    <3>1. "viewer" \in Roles /\ NewRoles \subseteq Roles
      BY AccountsAssumption DEF Roles, Rank
    <3> QED BY <1>11, <3>1 DEF Delete, Patch, tokens
  <2>2. call'[c].pc = pc /\ \A d \in Calls \ {c} : call'[d] = call[d]
    BY <1>4, <2>1 DEF Request
  <2> QED BY <1>3, <1>5, <2>1, <2>2
<1>12. CASE PatchUpdate(c)
  <2>1. /\ row' = [row EXCEPT ![call[c].user].role = call[c].role] /\ Goto(c, "stamp")
        /\ late' = late
    BY <1>12 DEF PatchUpdate, tokens
  <2>2. \A u \in Users : row'[u].status = row[u].status
    BY <1>1, <2>1 DEF RowsOK
  <2>3. Stepped(c, Pcs \ SigningPcs)
    BY <1>2, <1>5, <2>1 DEF Stepped
  <2> QED BY <2>1, <2>2, <2>3 DEF Unsigned, Stepped, Signing, At
<1> QED BY <1>6, <1>7, <1>8, <1>9, <1>10, <1>11, <1>12 DEF LoginStep, SessionStep, AdminStep

Signs(u) ==
  /\ late[u] \in Nat /\ Cardinality(Signing(u)) \in Nat /\ Cardinality(Calls) \in Nat
  /\ Active(u) \in BOOLEAN

LEMMA SignNumbers == \A u \in Users : IInv => Signs(u)
BY AtCounts DEF Signs, Signing, IInv, TokensOK, Active

LEMMA NextSignNumbers == \A u \in Users : IInv' => Signs(u)'
<1>1. (\A u \in Users : IInv => Signs(u))'
  BY SignNumbers, PTL
<1> QED BY <1>1

LEMMA DeletionKeeps ==
  ASSUME IInv, IInv', [Next]_vars, NEW u \in Users, FewAfter(u)
  PROVE  FewAfter(u)'
<1>1. /\ Signs(u) /\ Signs(u)' /\ RowsOK /\ TokensOK /\ call \in [Calls -> RequestType]
  BY SignNumbers, NextSignNumbers DEF IInv, CallsOK
<1>2. ASSUME UNCHANGED <<row, late, call>>
      PROVE  FewAfter(u)'
  BY <1>2 DEF FewAfter, Active, Signing, At
<1>3. CASE UNCHANGED vars
  BY <1>2, <1>3 DEF vars
<1>4. CASE (\E v \in Users : FailsExpire(v) \/ LockExpires(v)) \/ Tick \/ \E p \in Issued : Expire(p)
  BY <1>2, <1>4 DEF FailsExpire, LockExpires, Tick, Expire, rows, tokens
<1>5. ASSUME NEW c \in Calls, LoginStep(c) \/ SessionStep(c) \/ AdminStep(c) \/ Crash(c)
      PROVE  FewAfter(u)'
  <2>1. ASSUME \A d \in Calls \ {c} : call'[d] = call[d]
        PROVE  /\ (c \in Signing(u)' <=> c \in Signing(u)) => Signing(u)' = Signing(u)
               /\ c \notin Signing(u)' /\ c \in Signing(u) =>
                    Cardinality(Signing(u)') = Cardinality(Signing(u)) - 1
    BY <2>1, OneCall DEF Signing
  <2>2. CASE Unsigned(c)
    <3>1. late'[u] = late[u] /\ Active(u)' = Active(u)
      BY <2>2 DEF Unsigned, Active
    <3>2. ~Active(u) => Cardinality(Signing(u)') <= Cardinality(Signing(u))
      BY <1>1, <2>1, <2>2 DEF Unsigned, Signs
    <3> QED BY <1>1, <3>1, <3>2 DEF FewAfter, Signs
  <2>3. CASE Mint(c)
    <3>1. /\ call[c].pc = "mint" /\ End(c) /\ row' = row
          /\ late' = IF Active(call[c].user) THEN late ELSE [late EXCEPT ![call[c].user] = @ + 1]
      BY <2>3 DEF Mint, rows
    <3>2. Active(u)' = Active(u) /\ Stepped(c, {"idle"})
      BY <3>1, Steps DEF Active
    <3>3. c \notin Signing(u)' /\ (c \in Signing(u) <=> call[c].user = u)
      BY <3>1, <3>2 DEF Stepped, Signing, SigningPcs, At
    <3>4. CASE Active(u)
      BY <1>1, <3>1, <3>2, <3>4 DEF FewAfter, TokensOK
    <3>5. CASE ~Active(u) /\ call[c].user = u
      <4>1. late'[u] = late[u] + 1
        BY <1>1, <3>1, <3>5 DEF TokensOK
      <4>2. Cardinality(Signing(u)') = Cardinality(Signing(u)) - 1
        BY <2>1, <3>2, <3>3, <3>5 DEF Stepped
      <4> QED BY <1>1, <3>2, <3>5, <4>1, <4>2 DEF FewAfter, Signs
    <3>6. CASE ~Active(u) /\ call[c].user # u
      <4>1. late'[u] = late[u]
        BY <1>1, <3>1, <3>6 DEF TokensOK
      <4>2. Signing(u)' = Signing(u)
        BY <2>1, <3>2, <3>3, <3>6 DEF Stepped
      <4> QED BY <1>1, <3>2, <3>6, <4>1, <4>2 DEF FewAfter, Signs
    <3> QED BY <3>4, <3>5, <3>6
  <2>4. CASE Disable(c)
    <3>1. /\ call[c].pc = "disable" /\ late' = late /\ (Goto(c, "stamp") \/ End(c))
          /\ row' = [row EXCEPT ![call[c].user].status = "disabled"]
      BY <2>4 DEF Disable, tokens
    <3>2. Stepped(c, {"stamp", "idle"})
      BY <3>1, Steps DEF Stepped, Pcs
    <3>3. c \notin Signing(u) /\ c \notin Signing(u)'
      BY <3>1, <3>2 DEF Stepped, Signing, SigningPcs, At
    <3>4. Signing(u)' = Signing(u)
      BY <2>1, <3>2, <3>3 DEF Stepped
    <3>5. \/ row'[u].status = row[u].status
          \/ row'[u].status = "disabled"
      BY <1>1, <3>1 DEF RowsOK
    <3>6. Cardinality(Signing(u)) < Cardinality(Calls)
      <4>1. Signing(u) \subseteq Calls /\ Signing(u) # Calls
        BY <3>3 DEF Signing, At
      <4>2. /\ Cardinality(Signing(u)) <= Cardinality(Calls)
            /\ Cardinality(Signing(u)) # Cardinality(Calls)
        BY <4>1, AccountsAssumption, FS_Subset
      <4> QED BY <1>1, <4>2 DEF Signs
    <3>7. Active(u)' = Active(u) \/ (Active(u) /\ ~Active(u)')
      BY <3>5 DEF Active
    <3> QED BY <1>1, <3>1, <3>4, <3>6, <3>7 DEF FewAfter, Signs
  <2> QED BY <1>5, <2>2, <2>3, <2>4, DeletionCases
<1> QED BY <1>3, <1>4, <1>5 DEF Next

DeletionInv == IInv /\ \A u \in Users : FewAfter(u)

LEMMA DeletionInvariant == Spec => []DeletionInv
<1>1. Init => DeletionInv
  BY InitInv, AccountsAssumption DEF DeletionInv, Init, FewAfter, Active
<1>2. DeletionInv /\ [Next]_vars => DeletionInv'
  BY NextInv, DeletionKeeps DEF DeletionInv
<1> QED BY <1>1, <1>2, PTL DEF Spec

(* A deleted user gets at most one pair per request that was in progress   *)
(* beside the deletion (login and refresh of authService.ts, the deletion  *)
(* of admin.ts).                                                           *)
THEOREM DeletedGetFewTokens == Spec => []DisabledGetsFew
<1>1. DeletionInv => DisabledGetsFew
  <2> SUFFICES ASSUME DeletionInv, NEW u \in Users PROVE late[u] < Cardinality(Calls)
    BY DEF DisabledGetsFew
  <2>1. Signs(u) /\ FewAfter(u)
    BY SignNumbers DEF DeletionInv
  <2>2. Cardinality(Calls) # 0
    BY AccountsAssumption, FS_EmptySet
  <2> QED BY <2>1, <2>2 DEF FewAfter, Signs
<1> QED BY <1>1, DeletionInvariant, PTL
==============================================================================
