----------------------------- MODULE UsersProofs -----------------------------
(***************************************************************************)
(* Proofs about the tables of webapp/users.py, in two parts.               *)
(*                                                                         *)
(* Accounts: type correctness, what a mailed secret is worth, the reasons  *)
(* for which an account is verified, the two tables of keys in step, and   *)
(* that no revoked key comes back and no working key is the last to go -   *)
(* for any accounts, keys, limits and number of restarts.                  *)
(*                                                                         *)
(* Metering: no account makes more metered checks in a day than its quota, *)
(* and no counter lets two whole windows pass in the length of one -       *)
(* for any accounts, requests, list sizes, quotas, limits and clocks.      *)
(***************************************************************************)
EXTENDS Accounts, Metering, FiniteSetTheorems, TLAPS


-----------------------------------------------------------------------------
(* Types.                                                                  *)

LEMMA NewRowType == \A u \in Accounts : NewRow(u) \in Row
BY DEF NewRow, Row

LEMMA RowType ==
  ASSUME NEW row \in Row
  PROVE  /\ [row EXCEPT !.revoked = TRUE] \in Row
         /\ [row EXCEPT !.calls = row.calls + 1] \in Row
<1>1. [row EXCEPT !.revoked = TRUE] \in Row
  BY DEF Row
<1>2. [row EXCEPT !.calls = row.calls + 1] \in Row
  BY DEF Row
<1> QED
  BY <1>1, <1>2

LEMMA LimitsType == MaxStarts \in Nat /\ MaxTries \in Nat \ {0}
BY AccountsAssumption

\* A start writes a row only for a key that has none.
LEMMA AdoptType ==
  ASSUME TypeOK
  PROVE  /\ Adopt \in [Keys -> Row]
         /\ \A k \in Held : Adopt[k] = table[k]
<1>1. ASSUME NEW k \in Keys PROVE Adopt[k] \in Row
  <2>1. CASE k \notin Held /\ \E u \in known : primary[u] = k
    <3>1. (CHOOSE u \in known : primary[u] = k) \in known
      BY <2>1
    <3> QED
      BY <2>1, <3>1, NewRowType DEF Adopt, TypeOK
  <2>2. CASE ~ (k \notin Held /\ \E u \in known : primary[u] = k)
    BY <2>2 DEF Adopt, TypeOK
  <2> QED
    BY <2>1, <2>2
<1>2. \A k \in Held : Adopt[k] = table[k]
  BY DEF Adopt, Held
<1> QED
  BY <1>1, <1>2 DEF Adopt

LEMMA CodeType ==
  ASSUME NEW c \in Code
  PROVE  Mailed(c) \in Code /\ Spent(c) \in Code /\ Missed(c) \in Code
BY DEF Code, Mailed, Spent, Missed

LEMMA LinkType ==
  ASSUME NEW l \in Link
  PROVE  Sent(l) \in Link /\ Opened(l) \in Link
BY DEF Link, Sent, Opened

\* No account is ever deleted.
TypeInv == TypeOK /\ Old \subseteq known

\* Every action keeps every variable in its type: only accounts that exist have
\* requests under way, a primary key, or are verified.
LEMMA TypeStep == TypeInv /\ [Next]_vars => TypeInv'
<1> SUFFICES ASSUME TypeInv, [Next]_vars PROVE TypeInv'
  OBVIOUS
<1> USE AccountsAssumption DEF TypeInv, TypeOK, server, access, keys
<1>1. CASE Start
  <2>1. table' \in [Keys -> Row]
    BY <1>1, AdoptType DEF Start
  <2>2. /\ primary' \in [Accounts -> Keys \cup {NoKey}]
        /\ \A u \in Accounts : u \in known' <=> primary'[u] # NoKey
    BY <1>1 DEF Start, Unused
  <2>3. up' \in BOOLEAN /\ starts' \in 0 .. MaxStarts /\ version' \in {0, 1}
    BY <1>1 DEF Start
  <2>4. /\ known' \subseteq Accounts /\ migrated' \subseteq known'
        /\ verified' \subseteq known' /\ disabled' \subseteq known'
    BY <1>1 DEF Start, Grandfathered
  <2>5. entitled' \subseteq known'
    BY <1>1 DEF Start
  <2>6. pending' \subseteq known' \X {"key", "code"}
    BY <1>1 DEF Start
  <2> QED
    BY <1>1, <2>1, <2>2, <2>3, <2>4, <2>5, <2>6 DEF Start
<1>2. CASE Stop
  BY <1>2 DEF Stop
<1>3. ASSUME NEW u \in Accounts, Signup(u) PROVE TypeInv'
  <2>1. code' \in [Accounts -> Code]
    BY <1>3, CodeType DEF Signup
  <2>2. /\ primary' \in [Accounts -> Keys \cup {NoKey}]
        /\ \A v \in Accounts : v \in known' <=> primary'[v] # NoKey
    BY <1>3 DEF Signup, Unused
  <2> QED
    BY <1>3, <2>1, <2>2 DEF Signup
<1>4. ASSUME NEW u \in Accounts, Resend(u) PROVE TypeInv'
  BY <1>4, CodeType DEF Resend
<1>5. ASSUME NEW u \in Accounts, AdmitCode(u) PROVE TypeInv'
  BY <1>5 DEF AdmitCode
<1>6. ASSUME NEW u \in Accounts, CheckCode(u) PROVE TypeInv'
  <2>1. u \in known
    BY <1>6 DEF CheckCode
  <2>2. code' \in [Accounts -> Code]
    BY <1>6, CodeType DEF CheckCode
  <2> QED
    BY <1>6, <2>1, <2>2 DEF CheckCode
<1>7. ASSUME NEW u \in Accounts, Forgot(u) PROVE TypeInv'
  BY <1>7, LinkType DEF Forgot
<1>8. ASSUME NEW u \in Accounts, ResetPassword(u) PROVE TypeInv'
  BY <1>8, LinkType DEF ResetPassword
<1>9. ASSUME NEW u \in Accounts, AdmitKey(u) PROVE TypeInv'
  BY <1>9 DEF AdmitKey, Admitted
<1>10. ASSUME NEW u \in Accounts, NewKey(u) PROVE TypeInv'
  <2>1. table' \in [Keys -> Row]
    BY <1>10, NewRowType DEF NewKey
  <2> QED
    BY <1>10, <2>1 DEF NewKey
<1>11. ASSUME NEW u \in Accounts, Rotate(u) PROVE TypeInv'
  <2>1. PICK k \in Unused :
          /\ table' = [j \in Keys |->
               CASE j = primary[u] /\ j \in Held /\ table[j].owner = u ->
                      [table[j] EXCEPT !.revoked = TRUE]
                 [] j = k -> NewRow(u)
                 [] OTHER -> table[j]]
          /\ primary' = [primary EXCEPT ![u] = k]
    BY <1>11 DEF Rotate
  <2>2. \A j \in Keys : [table[j] EXCEPT !.revoked = TRUE] \in Row
    BY RowType
  <2>3. table' \in [Keys -> Row]
    BY <2>1, <2>2, NewRowType
  <2>4. /\ primary' \in [Accounts -> Keys \cup {NoKey}]
        /\ \A v \in Accounts : v \in known <=> primary'[v] # NoKey
    BY <1>11, <2>1 DEF Rotate, Admitted, Unused
  <2> QED
    BY <1>11, <2>3, <2>4 DEF Rotate
<1>12. ASSUME NEW u \in Accounts, NEW k \in Keys, Revoke(u, k) PROVE TypeInv'
  <2>1. [table[k] EXCEPT !.revoked = TRUE] \in Row
    BY RowType
  <2>2. table' = [table EXCEPT ![k] = [table[k] EXCEPT !.revoked = TRUE]]
    BY <1>12 DEF Revoke
  <2> QED
    BY <1>12, <2>1, <2>2 DEF Revoke
<1>13. ASSUME NEW u \in Accounts, AdminVerify(u) PROVE TypeInv'
  BY <1>13 DEF AdminVerify, Code
<1>14. ASSUME NEW u \in Accounts, AdminToggle(u) PROVE TypeInv'
  BY <1>14 DEF AdminToggle
<1>15. ASSUME NEW u \in Accounts, StaleCode(u) PROVE TypeInv'
  BY <1>15 DEF StaleCode, Code
<1>16. ASSUME NEW u \in Accounts, StaleLink(u) PROVE TypeInv'
  BY <1>16 DEF StaleLink, Link
<1>17. ASSUME NEW k \in Keys, Call(k) PROVE TypeInv'
  <2>1. [table[k] EXCEPT !.calls = table[k].calls + 1] \in Row
    BY RowType
  <2>2. table' = [table EXCEPT ![k] = [table[k] EXCEPT !.calls = table[k].calls + 1]]
    BY <1>17 DEF Call
  <2> QED
    BY <1>17, <2>1, <2>2 DEF Call
<1>18. CASE UNCHANGED vars
  BY <1>18 DEF vars
<1> QED
  BY <1>1, <1>2, <1>3, <1>4, <1>5, <1>6, <1>7, <1>8, <1>9, <1>10, <1>11, <1>12, <1>13, <1>14,
     <1>15, <1>16, <1>17, <1>18 DEF Next

LEMMA TypeInit == Init => TypeInv
<1> SUFFICES ASSUME Init PROVE TypeInv
  OBVIOUS
<1>1. table \in [Keys -> Row] /\ code \in [Accounts -> Code] /\ link \in [Accounts -> Link]
  BY AccountsAssumption DEF Init, NoRow, Row, NoCode, Code, NoLink, Link
<1>2. /\ primary \in [Accounts -> Keys \cup {NoKey}]
      /\ \A u \in Accounts : u \in known <=> primary[u] # NoKey
  BY DEF Init
<1>3. up \in BOOLEAN /\ starts \in 0 .. MaxStarts /\ version \in {0, 1}
  <2>1. starts = 0 /\ version = 0
    BY DEF Init
  <2>2. up \in BOOLEAN
    BY DEF Init
  <2> QED
    BY <2>1, <2>2, LimitsType
<1>4. /\ known \subseteq Accounts /\ migrated \subseteq known /\ Old \subseteq known
      /\ verified \subseteq known /\ disabled \subseteq known /\ entitled \subseteq known
      /\ pending \subseteq known \X {"key", "code"}
  BY AccountsAssumption DEF Init
<1> QED
  BY <1>1, <1>2, <1>3, <1>4 DEF TypeInv, TypeOK

\* TypeOK holds of every reachable state.
THEOREM TypeCorrect == Spec => []TypeOK
<1>1. TypeInv => TypeOK
  BY DEF TypeInv
<1> QED
  BY <1>1, TypeInit, TypeStep, PTL DEF Spec

-----------------------------------------------------------------------------
(* Reasons to be verified.                                                 *)

\* Until the first start the database is what the migration finds.
Unmigrated == version = 0 => ~up /\ starts = 0 /\ known = Old

Reasons == Unmigrated /\ VerifiedForAReason

LEMMA ReasonsStep == TypeInv /\ Reasons /\ [Next]_vars => Reasons'
<1> SUFFICES ASSUME TypeInv, Reasons, [Next]_vars PROVE Reasons'
  OBVIOUS
<1> USE DEF Reasons, Unmigrated, VerifiedForAReason, server, access, keys
<1>1. CASE Start
  <2>1. Unmigrated'
    BY <1>1 DEF Start
  <2>2. Grandfathered \subseteq entitled'
    <3>1. version \in {0, 1}
      BY DEF TypeInv, TypeOK
    <3> QED
      BY <1>1, <3>1 DEF Start, Grandfathered
  <2>3. verified' \subseteq entitled'
    BY <1>1, <2>2 DEF Start
  <2> QED
    BY <2>1, <2>3
<1>2. CASE Stop
  BY <1>2 DEF Stop
<1>3. ASSUME NEW u \in Accounts, Signup(u) PROVE Reasons'
  BY <1>3 DEF Signup
<1>4. ASSUME NEW u \in Accounts, CheckCode(u) PROVE Reasons'
  BY <1>4 DEF CheckCode, MayGuess
<1>5. ASSUME NEW u \in Accounts, AdminVerify(u) PROVE Reasons'
  BY <1>5 DEF AdminVerify
<1>6. ASSUME NEW u \in Accounts, AdminToggle(u) PROVE Reasons'
  BY <1>6 DEF AdminToggle
<1>7. CASE UNCHANGED <<up, starts, version, known, verified, entitled>>
  BY <1>7
<1>8. ASSUME NEW u \in Accounts, Resend(u) \/ AdmitCode(u) \/ Forgot(u) \/ ResetPassword(u)
      PROVE  Reasons'
  BY <1>7, <1>8 DEF Resend, AdmitCode, Forgot, ResetPassword
<1>9. ASSUME NEW u \in Accounts,
             AdmitKey(u) \/ NewKey(u) \/ Rotate(u) \/ StaleCode(u) \/ StaleLink(u)
      PROVE  Reasons'
  BY <1>7, <1>9 DEF AdmitKey, NewKey, Rotate, StaleCode, StaleLink
<1>10. ASSUME NEW u \in Accounts, NEW k \in Keys, Revoke(u, k) PROVE Reasons'
  BY <1>7, <1>10 DEF Revoke
<1>11. ASSUME NEW k \in Keys, Call(k) PROVE Reasons'
  BY <1>7, <1>11 DEF Call
<1>12. CASE UNCHANGED vars
  BY <1>7, <1>12 DEF vars
<1> QED
  BY <1>1, <1>2, <1>3, <1>4, <1>5, <1>6, <1>8, <1>9, <1>10, <1>11, <1>12 DEF Next

\* Nobody is verified without a reason: grandfathering (users.py:142-148) happens
\* in the first start only, and a code is taken while it is fresh (users.py:221-235).
THEOREM VerifiedHaveReasons == Spec => []VerifiedForAReason
<1>1. Init => Reasons
  BY DEF Init, Reasons, Unmigrated, VerifiedForAReason
<1>2. Reasons => VerifiedForAReason
  BY DEF Reasons
<1> QED
  BY <1>1, <1>2, TypeInit, TypeStep, ReasonsStep, PTL DEF Spec

-----------------------------------------------------------------------------
(* What a mailed secret is worth.                                          *)

\* The guesses that were made and those the stored code still admits.
Worth(c) == c.guesses + (IF c.stored THEN MaxTries - c.tries ELSE 0)
CodeWorth(c) == c.tries <= MaxTries /\ Worth(c) <= MaxTries * c.mailed
LinkWorth(l) == l.resets + (IF l.stored THEN 1 ELSE 0) <= l.mailed

Worths == /\ \A u \in Accounts : CodeWorth(code[u])
          /\ \A u \in Accounts : LinkWorth(link[u])

LEMMA MailedWorth ==
  ASSUME NEW c \in Code, CodeWorth(c)
  PROVE  CodeWorth(Mailed(c))
<1>1. c.mailed \in Nat /\ c.guesses \in Nat /\ c.tries \in Nat
  BY DEF Code
<1>2. MaxTries * (c.mailed + 1) = MaxTries * c.mailed + MaxTries
  BY <1>1, LimitsType
<1>3. c.guesses <= MaxTries * c.mailed
  <2>1. MaxTries * c.mailed \in Nat
    BY <1>1, LimitsType
  <2> QED
    BY <1>1, <2>1, LimitsType DEF CodeWorth, Worth
<1>4. MaxTries * c.mailed \in Nat
  BY <1>1, LimitsType
<1>5. /\ Mailed(c).tries = 0 /\ Mailed(c).stored
      /\ Mailed(c).guesses = c.guesses /\ Mailed(c).mailed = c.mailed + 1
  BY DEF Mailed
<1> QED
  BY <1>1, <1>2, <1>3, <1>4, <1>5, LimitsType DEF CodeWorth, Worth

LEMMA GuessedWorth ==
  ASSUME NEW c \in Code, CodeWorth(c), c.stored, c.tries < MaxTries
  PROVE  CodeWorth(Spent(c)) /\ CodeWorth(Missed(c))
<1>1. c.mailed \in Nat /\ c.guesses \in Nat /\ c.tries \in Nat
  BY DEF Code
<1>2. MaxTries * c.mailed \in Nat
  BY <1>1, LimitsType
<1>3. c.guesses + 1 + (MaxTries - (c.tries + 1)) <= MaxTries * c.mailed
  BY <1>1, <1>2, LimitsType DEF CodeWorth, Worth
<1>4. CodeWorth(Spent(c))
  <2>1. /\ Spent(c).tries = 0 /\ ~ Spent(c).stored
        /\ Spent(c).guesses = c.guesses + 1 /\ Spent(c).mailed = c.mailed
    BY DEF Spent
  <2> QED
    BY <1>1, <1>2, <1>3, <2>1, LimitsType DEF CodeWorth, Worth
<1>5. CodeWorth(Missed(c))
  <2>1. /\ Missed(c).tries = c.tries + 1 /\ Missed(c).stored
        /\ Missed(c).guesses = c.guesses + 1 /\ Missed(c).mailed = c.mailed
    BY DEF Missed
  <2> QED
    BY <1>1, <1>2, <1>3, <2>1, LimitsType DEF CodeWorth, Worth
<1> QED
  BY <1>4, <1>5

LEMMA LinkWorthStep ==
  ASSUME NEW l \in Link, LinkWorth(l)
  PROVE  LinkWorth(Sent(l)) /\ (l.stored => LinkWorth(Opened(l)))
BY DEF Link, LinkWorth, Sent, Opened

LEMMA WorthsStep == TypeInv /\ Worths /\ [Next]_vars => Worths'
<1> SUFFICES ASSUME TypeInv, Worths, [Next]_vars PROVE Worths'
  OBVIOUS
<1>0. code \in [Accounts -> Code] /\ link \in [Accounts -> Link]
  BY DEF TypeInv, TypeOK
<1>1. ASSUME NEW u \in Accounts, NEW c, CodeWorth(c), code' = [code EXCEPT ![u] = c],
             UNCHANGED link
      PROVE  Worths'
  BY <1>0, <1>1 DEF Worths
<1>2. ASSUME NEW u \in Accounts, NEW l, LinkWorth(l), link' = [link EXCEPT ![u] = l],
             UNCHANGED code
      PROVE  Worths'
  BY <1>0, <1>2 DEF Worths
<1>3. CASE UNCHANGED <<code, link>>
  BY <1>3 DEF Worths
<1>4. ASSUME NEW u \in Accounts, Signup(u) \/ Resend(u) PROVE Worths'
  <2>1. code' = [code EXCEPT ![u] = Mailed(code[u])] /\ UNCHANGED link
    BY <1>4 DEF Signup, Resend
  <2>2. CodeWorth(Mailed(code[u]))
    BY <1>0, MailedWorth DEF Worths
  <2> QED
    BY <1>1, <2>1, <2>2
<1>5. ASSUME NEW u \in Accounts, CheckCode(u) PROVE Worths'
  <2>1. \/ UNCHANGED code
        \/ /\ MayGuess(u)
           /\ \E c \in {Spent(code[u]), Missed(code[u])} : code' = [code EXCEPT ![u] = c]
    BY <1>5 DEF CheckCode
  <2>2. UNCHANGED link
    BY <1>5 DEF CheckCode
  <2>3. MayGuess(u) => CodeWorth(Spent(code[u])) /\ CodeWorth(Missed(code[u]))
    BY <1>0, GuessedWorth DEF MayGuess, Worths
  <2> QED
    BY <1>1, <1>3, <2>1, <2>2, <2>3
<1>6. ASSUME NEW u \in Accounts, Forgot(u) PROVE Worths'
  <2>1. link' = [link EXCEPT ![u] = Sent(link[u])] /\ UNCHANGED code
    BY <1>6 DEF Forgot
  <2>2. LinkWorth(Sent(link[u]))
    BY <1>0, LinkWorthStep DEF Worths
  <2> QED
    BY <1>2, <2>1, <2>2
<1>7. ASSUME NEW u \in Accounts, ResetPassword(u) PROVE Worths'
  <2>1. link' = [link EXCEPT ![u] = Opened(link[u])] /\ UNCHANGED code /\ link[u].stored
    BY <1>7 DEF ResetPassword
  <2>2. LinkWorth(Opened(link[u]))
    BY <1>0, <2>1, LinkWorthStep DEF Worths
  <2> QED
    BY <1>2, <2>1, <2>2
<1>8. ASSUME NEW u \in Accounts, AdminVerify(u) PROVE Worths'
  <2>1. code' = [code EXCEPT ![u] = [code[u] EXCEPT !.stored = FALSE]] /\ UNCHANGED link
    BY <1>0, <1>8 DEF AdminVerify
  <2>2. CodeWorth([code[u] EXCEPT !.stored = FALSE])
    <3>1. code[u] \in Code /\ CodeWorth(code[u])
      BY <1>0 DEF Worths
    <3>2. MaxTries * code[u].mailed \in Nat
      BY <3>1, LimitsType DEF Code
    <3> QED
      BY <3>1, <3>2, LimitsType DEF Code, CodeWorth, Worth
  <2> QED
    BY <1>1, <2>1, <2>2
<1>9. ASSUME NEW u \in Accounts, StaleCode(u) PROVE Worths'
  <2>1. code' = [code EXCEPT ![u] = [code[u] EXCEPT !.fresh = FALSE]] /\ UNCHANGED link
    BY <1>0, <1>9 DEF StaleCode
  <2>2. CodeWorth([code[u] EXCEPT !.fresh = FALSE])
    BY <1>0 DEF Code, CodeWorth, Worth, Worths
  <2> QED
    BY <1>1, <2>1, <2>2
<1>10. ASSUME NEW u \in Accounts, StaleLink(u) PROVE Worths'
  <2>1. link' = [link EXCEPT ![u] = [link[u] EXCEPT !.fresh = FALSE]] /\ UNCHANGED code
    BY <1>0, <1>10 DEF StaleLink
  <2>2. LinkWorth([link[u] EXCEPT !.fresh = FALSE])
    BY <1>0 DEF Link, LinkWorth, Worths
  <2> QED
    BY <1>2, <2>1, <2>2
<1>11. CASE Start \/ Stop \/ UNCHANGED vars
  BY <1>3, <1>11 DEF Start, Stop, vars
<1>12. ASSUME NEW u \in Accounts,
              AdmitCode(u) \/ AdmitKey(u) \/ NewKey(u) \/ Rotate(u) \/ AdminToggle(u)
       PROVE  Worths'
  BY <1>3, <1>12 DEF AdmitCode, AdmitKey, NewKey, Rotate, AdminToggle
<1>13. ASSUME NEW u \in Accounts, NEW k \in Keys, Revoke(u, k) PROVE Worths'
  BY <1>3, <1>13 DEF Revoke
<1>14. ASSUME NEW k \in Keys, Call(k) PROVE Worths'
  BY <1>3, <1>14 DEF Call
<1> QED
  BY <1>4, <1>5, <1>6, <1>7, <1>8, <1>9, <1>10, <1>11, <1>12, <1>13, <1>14 DEF Next

\* A mailed code is worth at most OTP_MAX_TRIES guesses and a mailed link one new
\* password (users.py check_otp and reset_password), whatever is mailed again,
\* checked at the same time or interrupted by a restart.
THEOREM SecretsAreSpent == Spec => []SecretsSpent
<1>1. Init => Worths
  BY LimitsType DEF Init, NoCode, NoLink, Worths, CodeWorth, Worth, LinkWorth
<1>2. TypeInv /\ Worths => SecretsSpent
  <2> SUFFICES ASSUME TypeInv, Worths, NEW u \in Accounts
               PROVE  /\ code[u].guesses <= MaxTries * code[u].mailed
                      /\ LinkWorth(link[u])
    BY DEF SecretsSpent, GuessesBounded, LinkWorksOnce, LinkWorth
  <2>1. code[u] \in Code /\ CodeWorth(code[u]) /\ LinkWorth(link[u])
    BY DEF TypeInv, TypeOK, Worths
  <2>2. MaxTries * code[u].mailed \in Nat
    BY <2>1, LimitsType DEF Code
  <2> QED
    BY <2>1, <2>2, LimitsType DEF Code, CodeWorth, Worth
<1> QED
  BY <1>1, <1>2, TypeInit, TypeStep, WorthsStep, PTL DEF Spec

-----------------------------------------------------------------------------
(* The two tables of keys.                                                 *)

\* No key is the key of two accounts, and if it has a row the row says whose.
OneOwner == \A u, v \in known : primary[u] = primary[v] => u = v
OwnRow == \A u \in known : primary[u] \in Held => table[primary[u]].owner = u

KeysInv == OneOwner /\ OwnRow /\ InStep

\* A start gives every account it finds a row for its key.
LEMMA AdoptKeys ==
  ASSUME TypeInv, KeysInv, NEW u \in known
  PROVE  Adopt[primary[u]].held /\ Adopt[primary[u]].owner = u
<1>1. primary[u] \in Keys
  BY DEF TypeInv, TypeOK
<1>2. CASE primary[u] \in Held
  BY <1>1, <1>2 DEF Adopt, KeysInv, OwnRow, Held
<1>3. CASE primary[u] \notin Held
  <2>1. (CHOOSE v \in known : primary[v] = primary[u]) = u
    BY DEF KeysInv, OneOwner
  <2>2. Adopt[primary[u]] = NewRow(u)
    BY <1>1, <1>3, <2>1 DEF Adopt
  <2> QED
    BY <2>2 DEF NewRow
<1> QED
  BY <1>2, <1>3

LEMMA KeysStep == TypeInv /\ TypeInv' /\ KeysInv /\ [Next]_vars => KeysInv'
<1> SUFFICES ASSUME TypeInv, TypeInv', KeysInv, [Next]_vars PROVE KeysInv'
  OBVIOUS
<1>0. /\ table \in [Keys -> Row] /\ table' \in [Keys -> Row]
      /\ primary \in [Accounts -> Keys \cup {NoKey}]
      /\ known \subseteq Accounts /\ migrated \subseteq known
      /\ \A u \in known : primary[u] \in Keys
  BY DEF TypeInv, TypeOK
\* Of a row, only whether it is there and whose it is matters.
<1>1. ASSUME known' = known, migrated' = migrated, primary' = primary,
             \A u \in known : /\ primary[u] \in Held' <=> primary[u] \in Held
                              /\ table'[primary[u]].owner = table[primary[u]].owner
      PROVE  KeysInv'
  BY <1>0, <1>1 DEF KeysInv, OneOwner, OwnRow, InStep
<1>2. CASE UNCHANGED <<known, migrated, primary, table>>
  BY <1>2 DEF KeysInv, OneOwner, OwnRow, InStep, Held
<1>3. ASSUME NEW u \in Accounts \ known, NEW k \in Unused,
             primary' = [primary EXCEPT ![u] = k], known' = known \cup {u}
      PROVE  OneOwner'
  BY <1>0, <1>3 DEF Unused, KeysInv, OneOwner
<1>4. CASE Start
  <2>1. table' = Adopt /\ migrated' = known
    BY <1>4 DEF Start
  <2>2. Held' = {k \in Keys : Adopt[k].held}
    BY <2>1 DEF Held
  <2>3. \A u \in known : primary'[u] = primary[u]
    BY <1>0, <1>4 DEF Start
  <2>4. InStep'
    BY <1>0, <2>1, <2>2, <2>3, AdoptKeys DEF InStep
  <2>5. CASE Admin \in known
    <3>1. primary' = primary /\ known' = known
      BY <1>4, <2>5 DEF Start
    <3> QED
      BY <2>1, <2>4, <3>1, AdoptKeys DEF KeysInv, OneOwner, OwnRow
  <2>6. CASE Admin \notin known
    <3>1. PICK k \in Unused : primary' = [primary EXCEPT ![Admin] = k]
      BY <1>4, <2>6 DEF Start
    <3>2. known' = known \cup {Admin} /\ Admin \in Accounts
      BY <1>4, AccountsAssumption DEF Start
    <3>3. OneOwner'
      BY <1>3, <2>6, <3>1, <3>2
    <3>4. k \in Keys /\ ~ Adopt[k].held
      <4>1. k \in Keys /\ k \notin Held /\ \A u \in known : primary[u] # k
        BY <1>0 DEF Unused
      <4> QED
        BY <4>1 DEF Adopt, Held
    <3>5. OwnRow'
      <4> SUFFICES ASSUME NEW u \in known', primary'[u] \in Held'
                   PROVE  table'[primary'[u]].owner = u
        BY DEF OwnRow
      <4>1. u # Admin
        BY <1>0, <2>2, <3>1, <3>2, <3>4
      <4> QED
        BY <2>1, <2>3, <3>2, <4>1, AdoptKeys
    <3> QED
      BY <2>4, <3>3, <3>5 DEF KeysInv
  <2> QED
    BY <2>5, <2>6
<1>5. ASSUME NEW u \in Accounts, Signup(u) PROVE KeysInv'
  <2>1. PICK k \in Unused : primary' = [primary EXCEPT ![u] = k]
    BY <1>5 DEF Signup
  <2>2. u \notin known /\ known' = known \cup {u} /\ UNCHANGED <<table, migrated>>
    BY <1>5 DEF Signup
  <2>3. OneOwner'
    BY <1>3, <2>1, <2>2
  <2>4. k \notin Held /\ Held' = Held /\ primary'[u] = k
        /\ \A v \in known : primary'[v] = primary[v]
    BY <1>0, <2>1, <2>2 DEF Unused, Held
  <2>5. OwnRow' /\ InStep'
    BY <1>0, <2>2, <2>4 DEF KeysInv, OwnRow, InStep
  <2> QED
    BY <2>3, <2>5 DEF KeysInv
<1>6. ASSUME NEW u \in Accounts, NewKey(u) PROVE KeysInv'
  <2>1. PICK k \in Unused : table' = [table EXCEPT ![k] = NewRow(u)]
    BY <1>6 DEF NewKey
  <2>2. \A v \in known : primary[v] # k /\ table'[primary[v]] = table[primary[v]]
    BY <1>0, <2>1 DEF Unused
  <2>3. UNCHANGED <<known, migrated, primary>>
    BY <1>6 DEF NewKey
  <2> QED
    BY <1>0, <1>1, <2>2, <2>3 DEF Held
<1>7. ASSUME NEW u \in Accounts, Rotate(u) PROVE KeysInv'
  <2>1. PICK k \in Unused :
          /\ table' = [j \in Keys |->
               CASE j = primary[u] /\ j \in Held /\ table[j].owner = u ->
                      [table[j] EXCEPT !.revoked = TRUE]
                 [] j = k -> NewRow(u)
                 [] OTHER -> table[j]]
          /\ primary' = [primary EXCEPT ![u] = k]
    BY <1>7 DEF Rotate
  <2>2. u \in known /\ UNCHANGED <<known, migrated>>
    BY <1>7 DEF Rotate, Admitted, access, TypeInv, TypeOK
  <2>3. k \in Keys /\ k \notin Held /\ \A v \in known : primary[v] # k
    BY <1>0 DEF Unused
  <2>4. table'[k] = NewRow(u)
    BY <2>1, <2>3
  <2>5. \A j \in Keys \ {k} : table'[j].held = table[j].held /\ table'[j].owner = table[j].owner
    <3> SUFFICES ASSUME NEW j \in Keys \ {k}
                 PROVE  table'[j].held = table[j].held /\ table'[j].owner = table[j].owner
      OBVIOUS
    <3>1. table'[j] = table[j] \/ table'[j] = [table[j] EXCEPT !.revoked = TRUE]
      BY <2>1
    <3>2. table[j] \in Row
      BY <1>0
    <3> QED
      BY <3>1, <3>2 DEF Row
  <2>6. primary'[u] = k /\ \A v \in known \ {u} : primary'[v] = primary[v]
    BY <1>0, <2>1, <2>2
  <2>7. OneOwner'
    BY <2>2, <2>3, <2>6 DEF KeysInv, OneOwner
  <2>8. k \in Held' /\ table'[k].owner = u
    BY <2>3, <2>4 DEF NewRow, Held
  <2>9. \A j \in Keys \ {k} : j \in Held' <=> j \in Held
    BY <2>5 DEF Held
  <2>10. OwnRow' /\ InStep'
    BY <1>0, <2>2, <2>3, <2>5, <2>6, <2>8, <2>9 DEF KeysInv, OwnRow, InStep
  <2> QED
    BY <2>7, <2>10 DEF KeysInv
<1>8. ASSUME NEW u \in Accounts, NEW k \in Keys, Revoke(u, k) PROVE KeysInv'
  <2>1. table' = [table EXCEPT ![k] = [table[k] EXCEPT !.revoked = TRUE]]
        /\ UNCHANGED <<known, migrated, primary>>
    BY <1>0, <1>8 DEF Revoke
  <2>2. \A j \in Keys : table'[j].held = table[j].held /\ table'[j].owner = table[j].owner
    BY <1>0, <2>1 DEF Row
  <2> QED
    BY <1>0, <1>1, <2>1, <2>2 DEF Held
<1>9. ASSUME NEW k \in Keys, Call(k) PROVE KeysInv'
  <2>1. table' = [table EXCEPT ![k] = [table[k] EXCEPT !.calls = table[k].calls + 1]]
        /\ UNCHANGED <<known, migrated, primary>>
    BY <1>0, <1>9 DEF Call
  <2>2. \A j \in Keys : table'[j].held = table[j].held /\ table'[j].owner = table[j].owner
    BY <1>0, <2>1 DEF Row
  <2> QED
    BY <1>0, <1>1, <2>1, <2>2 DEF Held
<1>10. CASE Stop \/ UNCHANGED vars
  BY <1>2, <1>10 DEF Stop, vars, keys
<1>11. ASSUME NEW u \in Accounts,
              \/ Resend(u) \/ AdmitCode(u) \/ CheckCode(u) \/ Forgot(u) \/ ResetPassword(u)
       PROVE  KeysInv'
  BY <1>2, <1>11 DEF Resend, AdmitCode, CheckCode, Forgot, ResetPassword, keys
<1>12. ASSUME NEW u \in Accounts,
              \/ AdmitKey(u) \/ AdminVerify(u) \/ AdminToggle(u) \/ StaleCode(u) \/ StaleLink(u)
       PROVE  KeysInv'
  BY <1>2, <1>12 DEF AdmitKey, AdminVerify, AdminToggle, StaleCode, StaleLink, keys
<1> QED
  BY <1>4, <1>5, <1>6, <1>7, <1>8, <1>9, <1>10, <1>11, <1>12 DEF Next

LEMMA KeysInit == Init => KeysInv
BY DEF Init, NoRow, Held, KeysInv, OneOwner, OwnRow, InStep

\* The key of an account that the latest start found has a row, and the row is
\* theirs (users.py:133-140 and rotate_key).
THEOREM TablesInStep == Spec => []InStep
<1>1. KeysInv => InStep
  BY DEF KeysInv
<1> QED
  BY <1>1, TypeInit, TypeStep, KeysInit, KeysStep, PTL DEF Spec

-----------------------------------------------------------------------------
(* What no step does to the rows.                                          *)

\* What a step does to the row of a key: nothing, it counts a call, or it revokes
\* a key of an account that keeps another.
RowsKept ==
  \A k \in Held :
    /\ table'[k].held /\ table'[k].owner = table[k].owner
    /\ table[k].revoked => table'[k].revoked
    /\ ~ table[k].revoked /\ table'[k].revoked =>
         \E j \in Keys \ {k} : /\ table'[j].held /\ ~ table'[j].revoked
                               /\ table'[j].owner = table[k].owner

\* More than one working key: besides any of them there is another.
LEMMA AnotherKey ==
  ASSUME NEW u, NEW k, Spare(u)
  PROVE  \E j \in Live(u) : j # k
<1> SUFFICES ASSUME \A j \in Live(u) : j = k PROVE FALSE
  OBVIOUS
<1>1. Live(u) = {} \/ Live(u) = {k}
  OBVIOUS
<1>2. Cardinality(Live(u)) \in {0, 1}
  BY <1>1, FS_EmptySet, FS_Singleton
<1> QED
  BY <1>2 DEF Spare

LEMMA RowsStep == TypeInv /\ [Next]_vars => RowsKept
<1> SUFFICES ASSUME TypeInv, [Next]_vars PROVE RowsKept
  OBVIOUS
<1>0. table \in [Keys -> Row]
  BY DEF TypeInv, TypeOK
<1>1. CASE \A k \in Held : table'[k] = table[k]
  BY <1>1 DEF RowsKept, Held
<1>2. CASE Start
  BY <1>1, <1>2, AdoptType DEF Start, TypeInv
<1>3. ASSUME NEW u \in Accounts, NewKey(u) PROVE RowsKept
  BY <1>0, <1>1, <1>3 DEF NewKey, Unused, Held
<1>4. ASSUME NEW u \in Accounts, NEW k \in Keys, Revoke(u, k) PROVE RowsKept
  <2>1. /\ table' = [table EXCEPT ![k] = [table[k] EXCEPT !.revoked = TRUE]]
        /\ k \in Held /\ table[k].owner = u
    BY <1>0, <1>4 DEF Revoke
  <2>2. PICK j \in Live(u) : j # k
    BY <1>4, AnotherKey DEF Revoke
  <2>3. /\ j \in Keys \ {k} /\ table'[j] = table[j]
        /\ table[j].held /\ ~ table[j].revoked /\ table[j].owner = u
    BY <1>0, <2>1, <2>2 DEF Live, Held
  <2>4. /\ table'[k].held = table[k].held /\ table'[k].owner = table[k].owner
        /\ table'[k].revoked
    BY <1>0, <2>1 DEF Row
  <2>5. \A i \in Keys \ {k} : table'[i] = table[i]
    BY <1>0, <2>1
  <2> QED
    BY <2>1, <2>3, <2>4, <2>5 DEF RowsKept, Held
<1>5. ASSUME NEW u \in Accounts, Rotate(u) PROVE RowsKept
  <2>1. PICK k \in Unused :
          table' = [j \in Keys |->
            CASE j = primary[u] /\ j \in Held /\ table[j].owner = u ->
                   [table[j] EXCEPT !.revoked = TRUE]
              [] j = k -> NewRow(u)
              [] OTHER -> table[j]]
    BY <1>5 DEF Rotate
  <2>2. k \in Keys /\ k \notin Held /\ primary[u] # k
    BY DEF Unused
  <2>3. table'[k] = NewRow(u)
    BY <2>1, <2>2
  <2> SUFFICES ASSUME NEW j \in Held
               PROVE  /\ table'[j].held /\ table'[j].owner = table[j].owner
                      /\ table[j].revoked => table'[j].revoked
                      /\ ~ table[j].revoked /\ table'[j].revoked =>
                           /\ k \in Keys \ {j} /\ table'[k].held /\ ~ table'[k].revoked
                           /\ table'[k].owner = table[j].owner
    BY <2>2 DEF RowsKept
  <2>4. CASE j = primary[u] /\ table[j].owner = u
    <3>1. j \in Keys /\ table[j] \in Row /\ table[j].held
      BY <1>0 DEF Held
    <3>2. table'[j] = [table[j] EXCEPT !.revoked = TRUE]
      BY <2>1, <2>2, <2>4, <3>1
    <3>3. table'[j].held /\ table'[j].revoked /\ table'[j].owner = u
      BY <2>4, <3>1, <3>2 DEF Row
    <3> QED
      BY <2>2, <2>3, <2>4, <3>3 DEF NewRow
  <2>5. CASE ~ (j = primary[u] /\ table[j].owner = u)
    <3>1. table'[j] = table[j]
      BY <2>1, <2>2, <2>5 DEF Held
    <3> QED
      BY <3>1 DEF Held
  <2> QED
    BY <2>4, <2>5
<1>6. ASSUME NEW k \in Keys, Call(k) PROVE RowsKept
  <2>1. table' = [table EXCEPT ![k] = [table[k] EXCEPT !.calls = table[k].calls + 1]]
    BY <1>0, <1>6 DEF Call
  <2>2. \A j \in Keys : /\ table'[j].held = table[j].held /\ table'[j].owner = table[j].owner
                        /\ table'[j].revoked = table[j].revoked
    BY <1>0, <2>1 DEF Row
  <2> QED
    BY <2>2 DEF RowsKept, Held
<1>7. CASE UNCHANGED table
  BY <1>1, <1>7
<1>8. CASE Stop \/ UNCHANGED vars
  BY <1>7, <1>8 DEF Stop, vars, keys
<1>9. ASSUME NEW u \in Accounts,
             \/ Signup(u) \/ Resend(u) \/ AdmitCode(u) \/ CheckCode(u) \/ Forgot(u)
             \/ ResetPassword(u)
      PROVE  RowsKept
  BY <1>7, <1>9 DEF Signup, Resend, AdmitCode, CheckCode, Forgot, ResetPassword, keys
<1>10. ASSUME NEW u \in Accounts,
              \/ AdmitKey(u) \/ AdminVerify(u) \/ AdminToggle(u) \/ StaleCode(u) \/ StaleLink(u)
       PROVE  RowsKept
  BY <1>7, <1>10 DEF AdmitKey, AdminVerify, AdminToggle, StaleCode, StaleLink, keys
<1> QED
  BY <1>2, <1>3, <1>4, <1>5, <1>6, <1>8, <1>9, <1>10 DEF Next

\* A revoked key never works again (users.py:133-140 adopts with INSERT OR IGNORE).
THEOREM RevokedStaysRevoked == Spec => RevokedForGood
<1>1. RowsKept => \A k \in Held : table[k].revoked => k \in Held' /\ table'[k].revoked
  BY DEF RowsKept, Held
<1> QED
  BY <1>1, TypeInit, TypeStep, RowsStep, PTL DEF Spec, RevokedForGood

\* An account with a working key keeps one (api.py:391-403 refuses to revoke the
\* last, and rotate_key inserts before it forgets).
THEOREM SomeKeyWorks == Spec => WorkingKeyKept
<1>1. TypeInv /\ RowsKept => \A u \in Accounts : Live(u) # {} => Live(u)' # {}
  <2> SUFFICES ASSUME RowsKept, NEW u \in Accounts, NEW k \in Live(u)
               PROVE  Live(u)' # {}
    OBVIOUS
  <2>1. k \in Held /\ table[k].owner = u /\ ~ table[k].revoked /\ k \in Keys
    BY DEF Live, Held
  <2>2. CASE ~ table'[k].revoked
    <3>1. k \in Live(u)'
      BY <2>1, <2>2 DEF RowsKept, Live, Held
    <3> QED
      BY <3>1
  <2>3. CASE table'[k].revoked
    <3>1. PICK j \in Keys \ {k} : table'[j].held /\ ~ table'[j].revoked /\ table'[j].owner = u
      BY <2>1, <2>3 DEF RowsKept
    <3>2. j \in Live(u)'
      BY <3>1 DEF Live, Held
    <3> QED
      BY <3>2
  <2> QED
    BY <2>2, <2>3
<1> QED
  BY <1>1, TypeInit, TypeStep, RowsStep, PTL DEF Spec, WorkingKeyKept


-----------------------------------------------------------------------------
(* Metering: the quota.  QuotaKept is not inductive: it needs the row to   *)
(* know at least what was granted today (UsageRemembered), and the quota   *)
(* in force to be at most the highest of the day (QuotaWithin).            *)


UserRow == [used : Nat, date : Nat, quota : Nat, disabled : BOOLEAN]

\* What the quota needs of the types
Rows ==
  /\ clock \in Times
  /\ account \in [Users -> UserRow]
  /\ today \in [Users -> Nat] /\ uploaded \in [Users -> 0 .. MaxUploaded]
  /\ highest \in [Users -> Nat]

\* What an account was granted today stays on its row until the day is over, but
\* for the lists it uploaded;
\* a midnight in the middle of a charge can only make the row say more.
UsageRemembered ==
  \A u \in Users : today[u] > uploaded[u] =>
    account[u].date = Day(clock) /\ account[u].used + uploaded[u] >= today[u]

QuotaWithin == \A u \in Users : account[u].quota <= highest[u]

IInv == Rows /\ UsageRemembered /\ QuotaWithin /\ QuotaKept

-----------------------------------------------------------------------------

\* A day is a natural number.
LEMMA DayNat == ASSUME NEW t \in Nat PROVE Day(t) \in Nat
  BY MeteringAssumption, Z3 DEF Day

\* Every request costs a natural number of checks (_user_from_key and consume
\* take one, or the length of the list).
LEMMA ChecksNat == ASSUME NEW k PROVE ChecksOf(k) \in Nat
  BY MeteringAssumption DEF ChecksOf

\* The clock moves by at most one tick, within its bound.
LEMMA NextTime == ASSUME clock \in Times, clock < MaxTime PROVE clock + 1 \in Times
  BY MeteringAssumption DEF Times

LEMMA InitInv == MInit => IInv
  BY MeteringAssumption
  DEF MInit, IInv, Rows, UserRow, UsageRemembered, QuotaWithin, QuotaKept, Times

\* A day that ends takes its history with it; the rows stay as they are.
LEMMA TickInv == IInv /\ Tick => IInv'
<1> SUFFICES ASSUME IInv, Tick PROVE IInv'
  OBVIOUS
<1> USE DEF IInv, Tick, Turn, tables
<1>1. clock + 1 \in Times
  BY NextTime DEF Rows
<1>2. Rows'
  BY <1>1, MeteringAssumption DEF Rows, UserRow
<1>3. QuotaWithin' /\ QuotaKept'
  <2>1. CASE NewDay(clock + 1)
    BY <2>1 DEF Rows, UserRow, QuotaWithin, QuotaKept
  <2>2. CASE ~NewDay(clock + 1)
    BY <2>2 DEF Rows, UserRow, QuotaWithin, QuotaKept
  <2> QED BY <2>1, <2>2
<1>4. UsageRemembered'
  <2>1. CASE NewDay(clock + 1)
    BY <2>1 DEF UsageRemembered
  <2>2. CASE ~NewDay(clock + 1)
    BY <2>2 DEF UsageRemembered, NewDay
  <2> QED BY <2>1, <2>2
<1> QED BY <1>2, <1>3, <1>4

\* The grant of n checks with the date d of the check and the time t of the
\* update: what a charge does to the row of its account.
LEMMA ChargedRow ==
  ASSUME Rows, NEW u \in Users, NEW n \in Nat, NEW d \in Nat, NEW e \in Nat
  PROVE  /\ Charged(u, n, d, e) \in UserRow
         /\ Charged(u, n, d, e).used = Used(u, d) + n
         /\ Charged(u, n, d, e).date = e
         /\ Charged(u, n, d, e).quota = account[u].quota
         /\ Used(u, d) \in Nat
<1>1. account[u] \in UserRow
  BY DEF Rows
<1>2. Used(u, d) \in Nat
  BY <1>1 DEF UserRow, Used
<1>3. Used(u, d) + n \in Nat
  BY <1>1, <1>2 DEF UserRow
<1> QED BY <1>1, <1>2, <1>3 DEF UserRow, Charged

\* A charge that is granted keeps the account within its quota, whether the
\* day ends in the middle of consume() or not.
LEMMA ChargeInv ==
  ASSUME IInv, NEW u \in Users, NEW n \in Nat, NEW t \in Times,
         MayConsume(u, n, Day(clock)),
         account' = [account EXCEPT ![u] = Charged(u, n, Day(clock), Day(t))],
         Turn(t),
         today' \in [Users -> Nat],
         \A w \in Users : today'[w] = (IF NewDay(t) THEN 0 ELSE today[w])
                                       + (IF w = u THEN n ELSE 0)
  PROVE  IInv'
<1> USE DEF IInv
<1>1. /\ clock \in Nat /\ t \in Nat
      /\ Day(clock) \in Nat /\ Day(t) \in Nat
  BY DayNat, MeteringAssumption DEF Rows, Times
<1>2. /\ account'[u] \in UserRow
      /\ account'[u].used = Used(u, Day(clock)) + n
      /\ account'[u].date = Day(t)
      /\ account'[u].quota = account[u].quota
      /\ Used(u, Day(clock)) \in Nat
  <2>1. account'[u] = Charged(u, n, Day(clock), Day(t))
    BY DEF Rows
  <2>2. Rows
    OBVIOUS
  <2>3. ASSUME NEW d \in Nat, NEW e \in Nat
        PROVE  /\ Charged(u, n, d, e) \in UserRow
               /\ Charged(u, n, d, e).used = Used(u, d) + n
               /\ Charged(u, n, d, e).date = e
               /\ Charged(u, n, d, e).quota = account[u].quota
               /\ Used(u, d) \in Nat
    BY <2>2, ChargedRow
  <2> QED BY ONLY <2>1, <2>3, <1>1
<1>3. \A w \in Users : w # u => account'[w] = account[w]
  BY DEF Rows
<1>4. Rows'
  <2>1. uploaded' \in [Users -> 0 .. MaxUploaded]
    BY MeteringAssumption DEF Rows, Turn
  <2>2. account' \in [Users -> UserRow]
    BY <1>2 DEF Rows
  <2>3. highest' \in [Users -> Nat]
    BY DEF Rows, Turn, UserRow
  <2> QED
    BY <1>1, <2>1, <2>2, <2>3 DEF Rows, Turn
<1>5. \A w \in Users : account'[w].quota = account[w].quota
  BY <1>2, <1>3
<1>6. QuotaWithin'
  BY <1>5 DEF QuotaWithin, Turn, Rows, UserRow
<1>7. today[u] <= Used(u, Day(clock)) + uploaded[u]
  BY <1>1 DEF UsageRemembered, Used, Rows, UserRow
<1>8. Used(u, Day(clock)) + n <= account[u].quota
  BY DEF MayConsume
<1>9. CASE NewDay(t)
  <2>1. \A w \in Users : today'[w] = IF w = u THEN n ELSE 0
    BY <1>9
  <2>2. QuotaKept'
    BY <1>2, <1>4, <1>8, <1>9, <2>1 DEF QuotaKept, Turn, Rows, UserRow
  <2>3. UsageRemembered'
    BY <1>2, <1>9, <2>1 DEF UsageRemembered, Turn
  <2> QED BY <1>4, <1>6, <2>2, <2>3
<1>10. CASE ~NewDay(t)
  <2>1. \A w \in Users : today'[w] = today[w] + (IF w = u THEN n ELSE 0)
    BY <1>10
  <2>2. QuotaKept'
    BY <1>2, <1>7, <1>8, <1>10, <2>1 DEF QuotaKept, QuotaWithin, Turn, Rows, UserRow
  <2>3. /\ today'[u] <= account'[u].used + uploaded'[u]
        /\ account'[u].date = Day(clock')
    BY <1>2, <1>7, <1>10, <2>1 DEF Turn, Rows
  <2>4. \A w \in Users : w # u => today'[w] = today[w]
    BY <2>1 DEF Rows
  <2>5. Day(clock') = Day(clock)
    BY <1>10 DEF NewDay, Turn
  <2>6. UsageRemembered'
    BY <1>3, <1>10, <2>3, <2>4, <2>5 DEF UsageRemembered, Turn, Rows, UserRow
  <2> QED BY <1>4, <1>6, <2>2, <2>6
<1> QED BY <1>9, <1>10

LEMMA AcceptInv ==
  ASSUME IInv, NEW q \in Requests, NEW u \in Users, NEW k \in Kinds, NEW late \in BOOLEAN,
         Accept(q, u, k, late)
  PROVE  IInv'
<1> DEFINE t == IF late THEN clock + 1 ELSE clock
<1>1. t \in Times /\ (NewDay(t) <=> late)
  BY NextTime DEF IInv, Rows, Accept, NewDay
<1>2. /\ today' \in [Users -> Nat]
      /\ \A w \in Users : today'[w] = (IF NewDay(t) THEN 0 ELSE today[w])
                                       + (IF w = u THEN ChecksOf(k) ELSE 0)
  <2>1. /\ today \in [Users -> Nat]
        /\ today' = [w \in Users |-> (IF late THEN 0 ELSE today[w])
                                      + (IF w = u THEN ChecksOf(k) ELSE 0)]
    BY DEF Accept, IInv, Rows
  <2> QED BY <1>1, <2>1, ChecksNat
<1>3. /\ MayConsume(u, ChecksOf(k), Day(clock))
      /\ account' = [account EXCEPT ![u] = Charged(u, ChecksOf(k), Day(clock), Day(t))]
      /\ Turn(t)
  BY DEF Accept
<1>4. ChecksOf(k) \in Nat
  BY ChecksNat
<1> HIDE DEF t
<1> QED BY ONLY IInv, <1>1, <1>2, <1>3, <1>4, ChargeInv

LEMMA RefuseInv ==
  ASSUME IInv, NEW u \in Users, RefusePool(u)
  PROVE  IInv'
<1>1. clock \in Times /\ ~NewDay(clock)
  BY DEF IInv, Rows, NewDay
<1>2. Turn(clock)
  BY <1>1 DEF RefusePool, Turn
<1>3. /\ today' \in [Users -> Nat]
      /\ \A w \in Users : today'[w] = (IF NewDay(clock) THEN 0 ELSE today[w])
                                       + (IF w = u THEN 1 ELSE 0)
  BY <1>1 DEF RefusePool, IInv, Rows
<1>4. /\ MayConsume(u, 1, Day(clock))
      /\ account' = [account EXCEPT ![u] = Charged(u, 1, Day(clock), Day(clock))]
  BY DEF RefusePool
<1> QED BY <1>1, <1>2, <1>3, <1>4, ChargeInv

\* A list is uploaded: what the meter does not count, the row need not know.
LEMMA UploadInv ==
  ASSUME IInv, NEW u \in Users, Upload(u)
  PROVE  IInv'
<1> USE DEF IInv
<1>1. /\ today[u] \in Nat /\ uploaded[u] \in 0 .. MaxUploaded
      /\ uploaded[u] + ListSize <= MaxUploaded
      /\ ListSize \in Nat /\ MaxUploaded \in Nat
  BY MeteringAssumption DEF Rows, Upload
<1>2. today[u] + ListSize \in Nat /\ uploaded[u] + ListSize \in 0 .. MaxUploaded
  BY <1>1
<1>3. \A w \in Users :
        \/ today'[w] = today[w] /\ uploaded'[w] = uploaded[w]
        \/ today'[w] = today[w] + ListSize /\ uploaded'[w] = uploaded[w] + ListSize
  BY DEF Rows, Upload
<1>4. UNCHANGED <<clock, account, highest>>
  BY DEF Upload, tables
<1>5. Rows'
  BY <1>2, <1>4 DEF Rows, Upload
<1>6. QuotaKept' /\ UsageRemembered' /\ QuotaWithin'
  <2>1. \A w \in Users : /\ today[w] \in Nat /\ uploaded[w] \in Nat /\ highest[w] \in Nat
                         /\ account[w].used \in Nat
    BY MeteringAssumption DEF Rows, UserRow
  <2> QED
    BY <1>1, <1>3, <1>4, <2>1 DEF QuotaKept, UsageRemembered, QuotaWithin
<1> QED
  BY <1>5, <1>6

\* A quota set in the middle of a day counts from then on; lowering it takes
\* nothing back.
LEMMA SetQuotaInv ==
  ASSUME IInv, NEW u \in Users, NEW n \in Quotas, SetQuota(u, n)
  PROVE  IInv'
<1> USE DEF IInv, SetQuota
<1>1. n \in Nat
  BY MeteringAssumption
<1>2. \A w \in Users : highest[w] <= highest'[w] /\ account'[w].quota <= highest'[w]
  BY <1>1 DEF Rows, UserRow, QuotaWithin
<1>3. Rows'
  BY <1>1 DEF Rows, UserRow
<1>4. QuotaKept'
  BY <1>2, <1>3 DEF QuotaKept, Rows
<1>5. \A w \in Users : /\ account'[w].used = account[w].used
                       /\ account'[w].date = account[w].date
  BY DEF Rows, UserRow
<1>6. UsageRemembered'
  BY <1>5 DEF UsageRemembered
<1> QED BY <1>2, <1>3, <1>4, <1>6 DEF QuotaWithin

LEMMA SetDisabledInv ==
  ASSUME IInv, NEW u \in Users, SetDisabled(u)
  PROVE  IInv'
<1> USE DEF IInv, SetDisabled, history
<1>1. Rows'
  BY DEF Rows, UserRow
<1>2. \A w \in Users : /\ account'[w].used = account[w].used
                       /\ account'[w].date = account[w].date
                       /\ account'[w].quota = account[w].quota
  BY DEF Rows, UserRow
<1> QED BY <1>1, <1>2 DEF QuotaKept, QuotaWithin, UsageRemembered

\* What the other steps leave alone is all the invariant reads.
LEMMA UnchangedInv == IInv /\ UNCHANGED <<clock, account, today, uploaded, highest>> => IInv'
  BY DEF IInv, Rows, UsageRemembered, QuotaWithin, QuotaKept

LEMMA StepInv == IInv /\ [MNext]_mvars => IInv'
<1> SUFFICES ASSUME IInv, [MNext]_mvars PROVE IInv'
  OBVIOUS
<1>1. CASE Tick
  BY <1>1, TickInv
<1>2. CASE \E q \in Requests, u \in Users, k \in Kinds, late \in BOOLEAN : Accept(q, u, k, late)
  BY <1>2, AcceptInv
<1>3. CASE \E u \in Users : RefusePool(u) \/ Upload(u)
  BY <1>3, RefuseInv, UploadInv
<1>4. CASE \E q \in Requests : Demo(q) \/ End(q)
  BY <1>4, UnchangedInv DEF Demo, End, tables, history
<1>5. CASE Restart
  BY <1>5, UnchangedInv DEF Restart, tables, history
<1>6. CASE \E u \in Users, n \in Quotas : SetQuota(u, n)
  BY <1>6, SetQuotaInv
<1>7. CASE \E u \in Users : SetDisabled(u)
  BY <1>7, SetDisabledInv
<1>8. CASE UNCHANGED mvars
  BY <1>8, UnchangedInv DEF mvars, tables, history
<1> QED BY <1>1, <1>2, <1>3, <1>4, <1>5, <1>6, <1>7, <1>8 DEF MNext

\* The inductive invariant holds in every reachable state of the metering
\* tables (users.py, consume and set_quota).
THEOREM MeteringInvariant == MSpec => []IInv
  BY InitInv, StepInv, PTL DEF MSpec

\* Apart from the lists it uploads (bulk and bulk_find never call consume), no
\* account makes more checks in a day than the highest quota it had on that day,
\* also when midnight passes in the middle of a charge.
THEOREM QuotaIsKept == MSpec => []QuotaKept
<1>1. IInv => QuotaKept
  BY DEF IInv
<1> QED BY <1>1, MeteringInvariant, PTL

\* The row of an account holds at least what it was granted today (consume); what
\* it uploaded is on no row.
THEOREM UsageIsRemembered == MSpec => []UsageRemembered
<1>1. IInv => UsageRemembered
  BY DEF IInv
<1> QED BY <1>1, MeteringInvariant, PTL

-----------------------------------------------------------------------------
(* Types of the counters.                                                  *)

CounterRow == [exists : BOOLEAN, start : Times, count : 0 .. Cap]
Grants == SUBSET (Times \X Nat)

CounterTypes ==
  /\ counter \in [Counters -> CounterRow]
  /\ request \subseteq Requests
  /\ granted \in [Counters -> Grants]
  /\ \A c \in Counters : IsFiniteSet(granted[c])
  /\ probed \in [Times -> Nat]

\* A bump leaves a counter within its limit (bump_counter).
LEMMA BumpedType ==
  ASSUME CounterTypes, NEW c \in Counters, NEW t \in Times
  PROVE  Bumped(c, t) \in CounterRow
<1>0. Cap \in Nat \ {0} /\ counter[c] \in CounterRow
  BY MeteringAssumption DEF CounterTypes
<1>1. CASE ~counter[c].exists \/ Expired(c, t)
  BY <1>0, <1>1 DEF Bumped, CounterRow
<1>2. CASE ~ (~counter[c].exists \/ Expired(c, t))
  <2>1. Bumped(c, t) = [counter[c] EXCEPT !.count = counter[c].count + (IF Passes(c, t) THEN 1 ELSE 0)]
    BY <1>2 DEF Bumped
  <2>2. counter[c].count + (IF Passes(c, t) THEN 1 ELSE 0) \in 0 .. Cap
    BY <1>0, <1>2 DEF Passes, CounterRow
  <2> QED
    BY <1>0, <2>1, <2>2 DEF CounterRow
<1> QED
  BY <1>1, <1>2

LEMMA GrantType ==
  ASSUME CounterTypes, NEW c \in Counters, NEW t \in Times
  PROVE  /\ Grant(c, t) \in [Counters -> Grants]
         /\ \A d \in Counters : IsFiniteSet(Grant(c, t)[d])
<1>1. Cardinality(granted[c]) \in Nat
  BY FS_CardinalityType DEF CounterTypes
<1>2. granted[c] \cup {<<t, Cardinality(granted[c])>>} \in Grants
  BY <1>1 DEF CounterTypes, Grants
<1>3. IsFiniteSet(granted[c] \cup {<<t, Cardinality(granted[c])>>})
  BY FS_AddElement DEF CounterTypes
<1> QED
  BY <1>2, <1>3 DEF CounterTypes, Grant

LEMMA AskType ==
  ASSUME CounterTypes, NEW k \in Kinds, NEW t \in Times, AskToProbe(k, t)
  PROVE  /\ counter' \in [Counters -> CounterRow]
         /\ granted' \in [Counters -> Grants]
         /\ \A c \in Counters : IsFiniteSet(granted'[c])
         /\ probed' \in [Times -> Nat]
<1>1. "smtp_global" \in Counters
  BY DEF Counters
<1>2. counter' \in [Counters -> CounterRow]
  BY <1>1, BumpedType DEF AskToProbe, CounterTypes
<1>3. granted' \in [Counters -> Grants] /\ \A c \in Counters : IsFiniteSet(granted'[c])
  <2>1. granted' = granted \/ granted' = Grant("smtp_global", t)
    BY DEF AskToProbe
  <2> QED
    BY <1>1, <2>1, GrantType DEF CounterTypes
<1>4. probed' \in [Times -> Nat]
  <2>1. ProbesOf(k) \in Nat
    BY MeteringAssumption DEF ProbesOf
  <2> QED
    BY <2>1 DEF AskToProbe, CounterTypes
<1> QED
  BY <1>2, <1>3, <1>4

LEMMA CounterStep == IInv /\ CounterTypes /\ [MNext]_mvars => CounterTypes'
<1> SUFFICES ASSUME IInv, CounterTypes, [MNext]_mvars PROVE CounterTypes'
  OBVIOUS
<1>0. clock \in Times
  BY DEF IInv, Rows
<1> USE DEF tables, history
<1>1. ASSUME NEW q \in Requests, NEW u \in Users, NEW k \in Kinds, NEW late \in BOOLEAN,
             Accept(q, u, k, late)
      PROVE  CounterTypes'
  <2> DEFINE t == IF late THEN clock + 1 ELSE clock
  <2>1. t \in Times
    BY <1>0, <1>1, NextTime DEF Accept
  <2>2. AskToProbe(k, t) \/ UNCHANGED <<counter, granted, probed>>
    BY <1>1 DEF Accept
  <2>3. request' \subseteq Requests
    BY <1>1 DEF Accept, CounterTypes
  <2> HIDE DEF t
  <2> QED
    BY <2>1, <2>2, <2>3, AskType DEF CounterTypes
<1>2. ASSUME NEW q \in Requests, Demo(q) PROVE CounterTypes'
  <2>1. "demo" \in Counters
    BY DEF Counters
  <2>2. counter' \in [Counters -> CounterRow]
    BY <1>0, <1>2, <2>1, BumpedType DEF Demo, CounterTypes
  <2>3. granted' = granted \/ granted' = Grant("demo", clock)
    BY <1>2 DEF Demo
  <2>4. granted' \in [Counters -> Grants] /\ \A c \in Counters : IsFiniteSet(granted'[c])
    BY <1>0, <2>1, <2>3, GrantType DEF CounterTypes
  <2> QED
    BY <1>2, <2>2, <2>4 DEF Demo, CounterTypes
<1>3. CASE Tick \/ Restart \/ UNCHANGED mvars
  BY <1>3 DEF Tick, Restart, mvars, CounterTypes
<1>4. ASSUME NEW u \in Users, RefusePool(u) \/ Upload(u) \/ SetDisabled(u) PROVE CounterTypes'
  BY <1>4 DEF RefusePool, Upload, SetDisabled, CounterTypes
<1>5. ASSUME NEW u \in Users, NEW n \in Quotas, SetQuota(u, n) PROVE CounterTypes'
  BY <1>5 DEF SetQuota, CounterTypes
<1>6. ASSUME NEW q \in Requests, End(q) PROVE CounterTypes'
  BY <1>6 DEF End, CounterTypes
<1> QED
  BY <1>1, <1>2, <1>3, <1>4, <1>5, <1>6 DEF MNext

LEMMA CounterInit == MInit => CounterTypes
<1>1. 0 \in Times /\ 0 \in 0 .. Cap
  BY MeteringAssumption DEF Times
<1> QED
  BY <1>1, FS_EmptySet DEF MInit, CounterTypes, CounterRow, NoCounter, Grants

\* MTypeOK holds of every reachable state; a counter never exceeds its limit.
THEOREM CountersTyped == MSpec => []MTypeOK
<1>1. IInv /\ CounterTypes => MTypeOK
  BY DEF IInv, Rows, UserRow, CounterTypes, CounterRow, Grants, MTypeOK
<1> QED
  BY <1>1, InitInv, StepInv, CounterInit, CounterStep, PTL DEF MSpec

-----------------------------------------------------------------------------
(* The windows of a counter.  The limit holds for each window; what two of *)
(* them have in a stretch of Window ticks follows from how a new one       *)
(* begins: more than Window after the one before, whose first request is   *)
(* then out of its reach.                                                  *)

Since(G, start) == {g \in G : start <= g[1]}

\* The requests of a window after the moment it began
After(G, start) == {g \in G : start < g[1]}

\* The requests before a window that share a stretch with its beginning
Shortly(G, start) == {g \in G : g[1] < start /\ start <= g[1] + Window}

\* A window that began at start and let count requests pass, now being the time
Windowed(start, count, G, now) ==
  /\ start <= now
  /\ \A g \in G : g[1] <= now /\ g[1] <= start + Window
  /\ G # {} => /\ Cardinality(Since(G, start)) <= count
               /\ Cardinality(After(G, start)) + 1 <= count
  /\ Cardinality(Shortly(G, start)) <= Cap - 1
  /\ \A t \in Times : Cardinality(Within(t, G)) <= 2 * Cap - 1

Windows ==
  \A c \in Counters :
    /\ counter[c].exists <=> granted[c] # {}
    /\ Windowed(counter[c].start, counter[c].count, granted[c], clock)

\* Parts of a finite set.
LEMMA Parts ==
  ASSUME NEW G, IsFiniteSet(G), NEW A, A \subseteq G
  PROVE  IsFiniteSet(A) /\ Cardinality(A) \in Nat /\ Cardinality(A) <= Cardinality(G)
         /\ Cardinality(G) \in Nat
BY FS_Subset, FS_CardinalityType

\* A set that two others cover is no larger than both.
LEMMA Covered ==
  ASSUME NEW A, NEW B, NEW C, IsFiniteSet(A), IsFiniteSet(B), C \subseteq A \cup B
  PROVE  Cardinality(C) <= Cardinality(A) + Cardinality(B) /\ Cardinality(C) \in Nat
<1>1. /\ IsFiniteSet(A \cup B)
      /\ Cardinality(A \cup B) = Cardinality(A) + Cardinality(B) - Cardinality(A \cap B)
  BY FS_Union
<1>2. Cardinality(A) \in Nat /\ Cardinality(B) \in Nat /\ Cardinality(A \cap B) \in Nat
  BY FS_CardinalityType, FS_Intersection
<1>3. Cardinality(C) <= Cardinality(A \cup B) /\ Cardinality(C) \in Nat
  BY <1>1, Parts
<1> QED
  BY <1>1, <1>2, <1>3

\* A request that begins a window (bump_counter).
LEMMA WindowBegins ==
  ASSUME NEW G \in Grants, IsFiniteSet(G), NEW start \in Times, NEW count \in 0 .. Cap,
         NEW now \in Times, Windowed(start, count, G, now),
         NEW t \in Times, now <= t, G = {} \/ t - start > Window, NEW x \in {t} \X Nat
  PROVE  Windowed(t, 1, G \cup {x}, t)
<1> DEFINE H == G \cup {x}
<1>1. Cap \in Nat \ {0} /\ Window \in Nat /\ Times \subseteq Nat
  BY MeteringAssumption DEF Times
<1>2. x[1] = t /\ \A g \in G : g[1] \in Nat
  BY <1>1 DEF Grants
<1>3. \A g \in G : g[1] < t
  BY <1>1, <1>2 DEF Windowed
<1>4. IsFiniteSet(H) /\ IsFiniteSet({x}) /\ Cardinality({x}) = 1
  BY FS_AddElement, FS_Singleton
<1>5. Cardinality(Since(H, t)) <= 1
  <2>1. Since(H, t) \subseteq {x}
    BY <1>1, <1>2, <1>3 DEF Since
  <2> QED
    BY <1>4, <2>1, Parts
<1>6. Cardinality(Shortly(G, t)) <= Cap - 1 /\ IsFiniteSet(Shortly(G, t))
      /\ Cardinality(Shortly(G, t)) \in Nat
  <2>1. IsFiniteSet(Shortly(G, t)) /\ Cardinality(Shortly(G, t)) \in Nat
    BY Parts DEF Shortly
  <2>2. CASE G = {}
    <3>1. Shortly(G, t) = {}
      BY <2>2 DEF Shortly
    <3> QED
      BY <1>1, <2>1, <3>1, FS_EmptySet
  <2>3. CASE G # {}
    <3>1. Shortly(G, t) \subseteq After(G, start)
      BY <1>1, <1>2, <2>3 DEF Shortly, After
    <3>2. IsFiniteSet(After(G, start))
      BY Parts DEF After
    <3>3. Cardinality(Shortly(G, t)) <= Cardinality(After(G, start))
          /\ Cardinality(After(G, start)) \in Nat
      BY <3>1, <3>2, Parts
    <3>4. Cardinality(After(G, start)) + 1 <= count
      BY <2>3 DEF Windowed
    <3> QED
      BY <1>1, <2>1, <3>3, <3>4
  <2> QED
    BY <2>2, <2>3
<1>7. Shortly(H, t) = Shortly(G, t)
  BY <1>1, <1>2 DEF Shortly
<1>8. ASSUME NEW s \in Times PROVE Cardinality(Within(s, H)) <= 2 * Cap - 1
  <2>1. CASE t \notin During(s)
    <3>1. Within(s, H) = Within(s, G)
      BY <1>2, <2>1 DEF Within
    <3> QED
      BY <3>1 DEF Windowed
  <2>2. CASE t \in During(s)
    <3>1. Within(s, H) \subseteq Shortly(G, t) \cup {x}
      BY <1>1, <1>2, <1>3, <2>2 DEF Within, During, Shortly
    <3>2. Cardinality(Within(s, H)) <= Cardinality(Shortly(G, t)) + 1
          /\ Cardinality(Within(s, H)) \in Nat
      BY <1>4, <1>6, <3>1, Covered
    <3> QED
      BY <1>1, <1>6, <3>2
  <2> QED
    BY <2>1, <2>2
<1>9. \A g \in H : g[1] <= t /\ g[1] <= t + Window
  BY <1>1, <1>2, <1>3
<1>10. Cardinality(After(H, t)) = 0
  <2>1. After(H, t) = {}
    BY <1>1, <1>2, <1>3 DEF After
  <2> QED
    BY <2>1, FS_EmptySet
<1>11. t <= t /\ Cardinality(After(H, t)) + 1 <= 1 /\ Cardinality(Shortly(H, t)) <= Cap - 1
  BY <1>1, <1>6, <1>7, <1>10
<1> QED
  BY <1>5, <1>8, <1>9, <1>11 DEF Windowed

\* A request that the window under way lets pass.
LEMMA WindowGoesOn ==
  ASSUME NEW G \in Grants, IsFiniteSet(G), NEW start \in Times, NEW count \in 0 .. Cap,
         NEW now \in Times, Windowed(start, count, G, now), G # {},
         NEW t \in Times, now <= t, t - start <= Window, count + 1 <= Cap, NEW x \in {t} \X Nat
  PROVE  Windowed(start, count + 1, G \cup {x}, t)
<1> DEFINE H == G \cup {x}
<1>1. Cap \in Nat \ {0} /\ Window \in Nat /\ Times \subseteq Nat
  BY MeteringAssumption DEF Times
<1>2. x[1] = t /\ (\A g \in G : g[1] \in Nat) /\ start <= t
  <2>1. x[1] = t
    OBVIOUS
  <2>2. \A g \in G : g[1] \in Nat
    BY <1>1 DEF Grants
  <2>3. start <= t
    BY <1>1 DEF Windowed
  <2> QED
    BY <2>1, <2>2, <2>3
<1>3. /\ IsFiniteSet(Since(G, start)) /\ IsFiniteSet(Shortly(G, start))
      /\ Cardinality(Since(G, start)) \in Nat /\ Cardinality(Shortly(G, start)) \in Nat
  BY Parts DEF Since, Shortly
<1>4. Cardinality(Since(G, start)) <= count /\ Cardinality(Shortly(G, start)) <= Cap - 1
  BY DEF Windowed
<1>5. /\ IsFiniteSet(Since(H, start)) /\ Cardinality(Since(H, start)) \in Nat
      /\ Cardinality(Since(H, start)) <= count + 1
  <2>1. Since(H, start) = Since(G, start) \cup {x}
    BY <1>2 DEF Since
  <2>2. IsFiniteSet({x}) /\ Cardinality({x}) = 1
    BY FS_Singleton
  <2>3. Cardinality(Since(H, start)) <= Cardinality(Since(G, start)) + Cardinality({x})
    BY <1>3, <2>1, <2>2, Covered
  <2>4. IsFiniteSet(Since(H, start))
    <3>1. IsFiniteSet(H)
      BY FS_AddElement
    <3>2. Since(H, start) \subseteq H
      BY DEF Since
    <3> HIDE DEF H
    <3> QED
      BY <3>1, <3>2, Parts
  <2> QED
    BY <1>3, <1>4, <2>2, <2>3, <2>4, FS_CardinalityType
<1>6. Shortly(H, start) = Shortly(G, start)
  BY <1>1, <1>2 DEF Shortly
<1>7. ASSUME NEW s \in Times PROVE Cardinality(Within(s, H)) <= 2 * Cap - 1
  <2>1. CASE t \notin During(s)
    <3>1. Within(s, H) = Within(s, G)
      BY <1>2, <2>1 DEF Within
    <3> QED
      BY <3>1 DEF Windowed
  <2>2. CASE t \in During(s)
    <3>1. Within(s, H) \subseteq Shortly(G, start) \cup Since(H, start)
      BY <1>1, <1>2, <2>2 DEF Within, During, Shortly, Since
    <3>2. Cardinality(Within(s, H)) <= Cardinality(Shortly(G, start)) + Cardinality(Since(H, start))
          /\ Cardinality(Within(s, H)) \in Nat
      BY <1>3, <1>5, <3>1, Covered
    <3> QED
      BY <1>1, <1>3, <1>4, <1>5, <3>2
  <2> QED
    BY <2>1, <2>2
<1>8. \A g \in H : g[1] <= t /\ g[1] <= start + Window
  BY <1>1, <1>2 DEF Windowed
<1>9. Cardinality(After(H, start)) + 1 <= count + 1
  <2>1. After(H, start) \subseteq After(G, start) \cup {x} /\ IsFiniteSet({x})
        /\ Cardinality({x}) = 1
    BY FS_Singleton DEF After
  <2>2. IsFiniteSet(After(G, start)) /\ Cardinality(After(G, start)) \in Nat
    BY Parts DEF After
  <2>3. /\ Cardinality(After(H, start)) <= Cardinality(After(G, start)) + 1
        /\ Cardinality(After(H, start)) \in Nat
    BY <2>1, <2>2, Covered
  <2>4. Cardinality(After(G, start)) + 1 <= count
    BY DEF Windowed
  <2> QED
    BY <2>2, <2>3, <2>4
<1> QED
  BY <1>1, <1>2, <1>4, <1>5, <1>6, <1>7, <1>8, <1>9 DEF Windowed

\* A request that a counter refuses leaves its window, and so does time.
LEMMA WindowStays ==
  ASSUME NEW G \in Grants, NEW start \in Times, NEW count, NEW now \in Times,
         Windowed(start, count, G, now), NEW t \in Times, now <= t
  PROVE  Windowed(start, count, G, t)
<1>1. \A g \in G : g[1] \in Nat
  BY MeteringAssumption DEF Grants, Times
<1>2. start \in Nat /\ now \in Nat /\ t \in Nat
  BY MeteringAssumption DEF Times
<1> QED
  BY <1>1, <1>2 DEF Windowed

\* A bump of a counter at time t, and what is granted with it.
LEMMA BumpWindow ==
  ASSUME CounterTypes, clock \in Times, Windows, NEW c \in Counters, NEW t \in Times, clock <= t,
         NEW G, G = IF Passes(c, t) THEN Grant(c, t)[c] ELSE granted[c]
  PROVE  /\ Bumped(c, t).exists /\ G # {}
         /\ Windowed(Bumped(c, t).start, Bumped(c, t).count, G, t)
<1> DEFINE x == <<t, Cardinality(granted[c])>>
<1>1. /\ counter[c] \in CounterRow /\ granted[c] \in Grants /\ IsFiniteSet(granted[c])
      /\ counter[c].start \in Times /\ counter[c].count \in 0 .. Cap
  BY DEF CounterTypes, CounterRow
<1>2. x \in {t} \X Nat
  BY <1>1, FS_CardinalityType
<1>3. Grant(c, t)[c] = granted[c] \cup {x}
  BY DEF Grant, CounterTypes
<1>4. Windowed(counter[c].start, counter[c].count, granted[c], clock)
  BY DEF Windows
<1> HIDE DEF x
<1>5. CASE ~counter[c].exists \/ Expired(c, t)
  <2>1. Passes(c, t)
    BY <1>5, MeteringAssumption DEF Passes
  <2>2. Bumped(c, t) = [exists |-> TRUE, start |-> t, count |-> 1]
    BY <1>5 DEF Bumped
  <2>3. granted[c] = {} \/ t - counter[c].start > Window
    BY <1>5 DEF Windows, Expired
  <2>4. Windowed(t, 1, granted[c] \cup {x}, t)
    BY <1>1, <1>2, <1>4, <2>3, WindowBegins
  <2> QED
    BY <1>3, <2>1, <2>2, <2>4
<1>6. CASE counter[c].exists /\ ~Expired(c, t) /\ Passes(c, t)
  <2>1. t - counter[c].start <= Window /\ counter[c].count + 1 <= Cap
    BY <1>1, <1>6, MeteringAssumption DEF Expired, Passes, Times
  <2>2. Bumped(c, t) = [counter[c] EXCEPT !.count = counter[c].count + 1]
    BY <1>6 DEF Bumped
  <2>3. Windowed(counter[c].start, counter[c].count + 1, granted[c] \cup {x}, t)
    <3>1. granted[c] # {}
      BY <1>6 DEF Windows
    <3> QED
      BY <1>1, <1>2, <1>4, <2>1, <3>1, WindowGoesOn
  <2>4. /\ Bumped(c, t).exists /\ Bumped(c, t).start = counter[c].start
        /\ Bumped(c, t).count = counter[c].count + 1
    BY <1>1, <1>6, <2>2 DEF CounterRow
  <2> QED
    BY <1>3, <1>6, <2>3, <2>4
<1>7. CASE counter[c].exists /\ ~Expired(c, t) /\ ~Passes(c, t)
  <2>1. Bumped(c, t) = [counter[c] EXCEPT !.count = counter[c].count + 0]
    BY <1>7 DEF Bumped
  <2>2. /\ Bumped(c, t).exists /\ Bumped(c, t).start = counter[c].start
        /\ Bumped(c, t).count = counter[c].count
    BY <1>1, <1>7, <2>1 DEF CounterRow
  <2> QED
    BY <1>1, <1>4, <1>7, <2>2, WindowStays DEF Windows
<1> QED
  BY <1>5, <1>6, <1>7

\* A step that bumps no more than the counter b, at the time it ends.
LEMMA OneBump ==
  ASSUME CounterTypes, clock \in Times, Windows, clock' \in Times, clock <= clock',
         NEW b \in Counters,
         counter' = [counter EXCEPT ![b] = Bumped(b, clock')],
         granted' = IF Passes(b, clock') THEN Grant(b, clock') ELSE granted
  PROVE  Windows'
<1>1. /\ counter'[b] = Bumped(b, clock')
      /\ granted'[b] = IF Passes(b, clock') THEN Grant(b, clock')[b] ELSE granted[b]
      /\ \A c \in Counters \ {b} : counter'[c] = counter[c] /\ granted'[c] = granted[c]
  BY DEF CounterTypes, Grant
<1>2. /\ counter'[b].exists /\ granted'[b] # {}
      /\ Windowed(counter'[b].start, counter'[b].count, granted'[b], clock')
  BY <1>1, BumpWindow
<1>3. ASSUME NEW c \in Counters \ {b}
      PROVE  Windowed(counter[c].start, counter[c].count, granted[c], clock')
  <2>1. granted[c] \in Grants /\ counter[c].start \in Times
    BY DEF CounterTypes, CounterRow
  <2> QED
    BY <2>1, WindowStays DEF Windows
<1> QED
  BY <1>1, <1>2, <1>3 DEF Windows

\* A step that bumps no counter.
LEMMA NoBump ==
  ASSUME CounterTypes, clock \in Times, Windows, clock' \in Times, clock <= clock',
         UNCHANGED <<counter, granted>>
  PROVE  Windows'
<1>1. ASSUME NEW c \in Counters
      PROVE  Windowed(counter[c].start, counter[c].count, granted[c], clock')
  <2>1. granted[c] \in Grants /\ counter[c].start \in Times
    BY DEF CounterTypes, CounterRow
  <2> QED
    BY <2>1, WindowStays DEF Windows
<1> QED
  BY <1>1 DEF Windows

LEMMA WindowStep == IInv /\ CounterTypes /\ Windows /\ [MNext]_mvars => Windows'
<1> SUFFICES ASSUME IInv, CounterTypes, Windows, [MNext]_mvars PROVE Windows'
  OBVIOUS
<1>0. clock \in Times /\ Times \subseteq Nat
  BY MeteringAssumption DEF IInv, Rows, Times
<1>1. ASSUME NEW q \in Requests, NEW u \in Users, NEW k \in Kinds, NEW late \in BOOLEAN,
             Accept(q, u, k, late)
      PROVE  Windows'
  <2>1. clock' = IF late THEN clock + 1 ELSE clock
    BY <1>1 DEF Accept, Turn
  <2>2. clock' \in Times /\ clock <= clock'
    BY <1>0, <1>1, <2>1, NextTime DEF Accept
  <2>3. AskToProbe(k, clock') \/ UNCHANGED <<counter, granted, probed>>
    BY <1>1, <2>1 DEF Accept
  <2>4. CASE AskToProbe(k, clock')
    <3>1. "smtp_global" \in Counters
      BY DEF Counters
    <3>2. /\ counter' = [counter EXCEPT !["smtp_global"] = Bumped("smtp_global", clock')]
          /\ granted' = IF Passes("smtp_global", clock') THEN Grant("smtp_global", clock')
                        ELSE granted
      BY <2>4 DEF AskToProbe
    <3> QED
      BY <1>0, <2>2, <3>1, <3>2, OneBump
  <2>5. CASE UNCHANGED <<counter, granted, probed>>
    BY <1>0, <2>2, <2>5, NoBump
  <2> QED
    BY <2>3, <2>4, <2>5
<1>2. ASSUME NEW q \in Requests, Demo(q) PROVE Windows'
  <2>1. "demo" \in Counters /\ clock' = clock /\ clock <= clock'
    BY <1>0, <1>2 DEF Counters, Demo
  <2>2. /\ counter' = [counter EXCEPT !["demo"] = Bumped("demo", clock')]
        /\ granted' = IF Passes("demo", clock') THEN Grant("demo", clock') ELSE granted
    BY <1>2, <2>1 DEF Demo
  <2> QED
    BY <1>0, <2>1, <2>2, OneBump
<1>3. CASE Tick
  <2>1. clock' \in Times /\ clock <= clock' /\ UNCHANGED <<counter, granted>>
    BY <1>0, <1>3, NextTime DEF Tick, Turn, tables
  <2> QED
    BY <1>0, <2>1, NoBump
<1>4. ASSUME UNCHANGED <<clock, counter, granted>> PROVE Windows'
  BY <1>4 DEF Windows
<1>5. CASE Restart \/ UNCHANGED mvars
  BY <1>4, <1>5 DEF Restart, mvars, tables, history
<1>6. ASSUME NEW u \in Users, RefusePool(u) \/ Upload(u) \/ SetDisabled(u) PROVE Windows'
  BY <1>4, <1>6 DEF RefusePool, Upload, SetDisabled, tables, history
<1>7. ASSUME NEW u \in Users, NEW n \in Quotas, SetQuota(u, n) PROVE Windows'
  BY <1>4, <1>7 DEF SetQuota
<1>8. ASSUME NEW q \in Requests, End(q) PROVE Windows'
  BY <1>4, <1>8 DEF End, tables, history
<1> QED
  BY <1>1, <1>2, <1>3, <1>5, <1>6, <1>7, <1>8 DEF MNext

LEMMA WindowInit == MInit => Windows
<1>1. Cap \in Nat \ {0}
  BY MeteringAssumption
<1>2. Since({}, 0) = {} /\ Shortly({}, 0) = {} /\ \A t \in Times : Within(t, {}) = {}
  BY DEF Since, Shortly, Within
<1>3. Windowed(0, 0, {}, 0)
  BY <1>1, <1>2, FS_EmptySet DEF Windowed
<1> QED
  BY <1>3 DEF MInit, Windows, NoCounter

\* The hazard of windows that do not slide is bounded: in any stretch of a window's
\* length a counter lets at most twice its limit pass (bump_counter).
THEOREM TwoWindows == MSpec => []TwoWindowsAtMost
<1>1. Windows => TwoWindowsAtMost
  BY DEF Windows, Windowed, TwoWindowsAtMost
<1> QED
  BY <1>1, InitInv, StepInv, CounterInit, CounterStep, WindowInit, WindowStep, PTL DEF MSpec
=============================================================================
