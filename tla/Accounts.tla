------------------------------ MODULE Accounts ------------------------------
(***************************************************************************)
(* Accounts and their API keys: webapp/users.py and the account handlers   *)
(* of webapp/api.py behind the middleware of webapp/main.py.               *)
(*                                                                         *)
(* A handler is one step of the event loop, except that the middleware     *)
(* admits a request before its form is read: creating a key and checking a *)
(* code are two steps.  Sign-up sets the account cookie and no cookie is   *)
(* ever withdrawn, so every account is taken to be signed in.  The server  *)
(* is stopped and started on every release, and starting it migrates the   *)
(* database.                                                               *)
(***************************************************************************)
EXTENDS Naturals, FiniteSets

CONSTANTS
  Accounts,   \* e-mail addresses that may hold an account
  Admin,      \* the account named by ADMIN_EMAIL
  Old,        \* accounts that are older than e-mail verification and api_keys
  Keys,       \* API key tokens
  NoKey,      \* stands for an account that does not exist yet
  MaxTries,   \* OTP_MAX_TRIES
  MaxCodes,   \* bound on the codes mailed to each account
  MaxLinks,   \* bound on the reset links mailed to each account
  MaxCalls,   \* bound on the calls of one key
  MaxStarts   \* bound on server starts

ASSUME AccountsAssumption ==
  /\ Admin \in Accounts
  /\ Old \subseteq Accounts
  /\ NoKey \notin Keys
  /\ MaxTries \in Nat \ {0}
  /\ MaxCodes \in [Accounts -> Nat]
  /\ MaxLinks \in [Accounts -> Nat]
  /\ MaxCalls \in Nat /\ MaxStarts \in Nat

VARIABLES
  up, starts,  \* is the server running, and how often was it started
  version,     \* PRAGMA user_version
  known,       \* accounts with a row in users
  verified, disabled,
  primary,     \* users.api_key
  table,       \* api_keys: the rows, by key
  pending,     \* admitted requests whose form is still being read
  code,        \* the e-mail code columns of users
  link,        \* the reset columns of users
  entitled,    \* history: accounts with a reason to be verified
  migrated     \* history: accounts that the latest start found

server == <<up, starts, version>>
access == <<verified, disabled, entitled>>
keys == <<primary, table>>
vars == <<server, known, access, keys, pending, code, link, migrated>>

Row == [held : BOOLEAN, owner : Accounts, revoked : BOOLEAN, calls : Nat]
NoRow == [held |-> FALSE, owner |-> Admin, revoked |-> FALSE, calls |-> 0]

\* stored: a code is in email_token; fresh: within its 15 minutes.
\* mailed and guesses count over the life of the account.
Code == [stored : BOOLEAN, fresh : BOOLEAN, tries : Nat, mailed : Nat, guesses : Nat]
NoCode == [stored |-> FALSE, fresh |-> FALSE, tries |-> 0, mailed |-> 0, guesses |-> 0]

\* stored: a token is in reset_token; fresh: within its hour.
Link == [stored : BOOLEAN, fresh : BOOLEAN, mailed : Nat, resets : Nat]
NoLink == [stored |-> FALSE, fresh |-> FALSE, mailed |-> 0, resets |-> 0]

TypeOK ==
  /\ up \in BOOLEAN /\ starts \in 0 .. MaxStarts /\ version \in {0, 1}
  /\ known \subseteq Accounts /\ migrated \subseteq known
  /\ verified \subseteq known /\ disabled \subseteq known
  /\ entitled \subseteq known
  /\ primary \in [Accounts -> Keys \cup {NoKey}]
  /\ \A u \in Accounts : u \in known <=> primary[u] # NoKey
  /\ table \in [Keys -> Row]
  /\ pending \subseteq known \X {"key", "code"}
  /\ code \in [Accounts -> Code]
  /\ link \in [Accounts -> Link]

Held == {k \in Keys : table[k].held}
Live(u) == {k \in Held : table[k].owner = u /\ ~table[k].revoked}
\* secrets.token_urlsafe never repeats itself.
Unused == {k \in Keys \ Held : \A u \in Accounts : primary[u] # k}

Init ==
  /\ up = FALSE /\ starts = 0 /\ version = 0
  /\ known = Old /\ migrated = {}
  /\ verified = {} /\ disabled = {} /\ entitled = {}
  /\ primary \in {p \in [Accounts -> Keys \cup {NoKey}] :
       /\ \A u \in Accounts : u \in Old <=> p[u] # NoKey
       /\ \A u, v \in Old : p[u] = p[v] => u = v}
  /\ table = [k \in Keys |-> NoRow]
  /\ pending = {}
  /\ code = [u \in Accounts |-> NoCode]
  /\ link = [u \in Accounts |-> NoLink]

-----------------------------------------------------------------------------
(* The server starts and stops.  A definition named Name_Fault is a faulty *)
(* variant of Name that some property must refuse.                         *)

NewRow(u) == [held |-> TRUE, owner |-> u, revoked |-> FALSE, calls |-> 0]

Adopt_Replaces ==
  [k \in Keys |->
     IF \E u \in known : primary[u] = k
     THEN NewRow(CHOOSE u \in known : primary[u] = k)
     ELSE table[k]]

\* INSERT OR IGNORE of every account's own key as "default".
Adopt ==
  [k \in Keys |->
     IF k \notin Held /\ \E u \in known : primary[u] = k
     THEN NewRow(CHOOSE u \in known : primary[u] = k)
     ELSE table[k]]

Grandfathered_Always == known

\* Accounts that exist when verification becomes mandatory are verified.
Grandfathered == IF version < 1 THEN known ELSE {}

\* Users.__init__, then seed_admin, which may insert the owner's account.
Start ==
  /\ ~up /\ starts < MaxStarts
  /\ up' = TRUE /\ starts' = starts + 1
  /\ table' = Adopt
  /\ migrated' = known
  /\ version' = 1
  /\ verified' = verified \cup Grandfathered \cup {Admin}
  /\ entitled' = entitled \cup {Admin} \cup (IF starts = 0 THEN Old ELSE {})
  /\ known' = known \cup {Admin}
  /\ IF Admin \in known THEN UNCHANGED primary
     ELSE \E k \in Unused : primary' = [primary EXCEPT ![Admin] = k]
  /\ UNCHANGED <<disabled, pending, code, link>>

\* A crash or a release: requests under way are gone.
Stop ==
  /\ up /\ starts < MaxStarts
  /\ up' = FALSE
  /\ pending' = {}
  /\ UNCHANGED <<starts, version, known, access, keys, code, link, migrated>>

-----------------------------------------------------------------------------
(* Signing up and proving the address.                                     *)

Mailed(c) == [stored |-> TRUE, fresh |-> TRUE, tries |-> 0, mailed |-> c.mailed + 1,
              guesses |-> c.guesses]

\* signup(): the key goes into users and not into api_keys.
Signup(u) ==
  /\ up /\ u \notin known
  /\ code[u].mailed < MaxCodes[u]
  /\ known' = known \cup {u}
  /\ \E k \in Unused : primary' = [primary EXCEPT ![u] = k]
  /\ code' = [code EXCEPT ![u] = Mailed(@)]
  /\ UNCHANGED <<server, access, table, pending, link, migrated>>

\* resend_verification() -> issue_otp
Resend(u) ==
  /\ up /\ u \in known \ (disabled \cup verified)
  /\ code[u].mailed < MaxCodes[u]
  /\ code' = [code EXCEPT ![u] = Mailed(@)]
  /\ UNCHANGED <<server, known, access, keys, pending, link, migrated>>

\* verify_otp() up to the form
AdmitCode(u) ==
  /\ up /\ u \in known \ (disabled \cup verified)
  /\ pending' = pending \cup {<<u, "code">>}
  /\ UNCHANGED <<server, known, access, keys, code, link, migrated>>

MayGuess_OneMore(u) == code[u].stored /\ code[u].fresh /\ code[u].tries <= MaxTries

\* check_otp: neither "expired" nor "locked"
MayGuess(u) == code[u].stored /\ code[u].fresh /\ code[u].tries < MaxTries

\* The code is used up, or one guess is.
Spent(c) == [stored |-> FALSE, fresh |-> FALSE, tries |-> 0, mailed |-> c.mailed,
             guesses |-> c.guesses + 1]
Missed(c) == [stored |-> c.stored, fresh |-> c.fresh, tries |-> c.tries + 1,
              mailed |-> c.mailed, guesses |-> c.guesses + 1]

\* check_otp: the rest of verify_otp()
CheckCode(u) ==
  /\ up /\ <<u, "code">> \in pending
  /\ pending' = pending \ {<<u, "code">>}
  /\ \/ /\ u \in verified \/ ~MayGuess(u)
        /\ UNCHANGED <<verified, entitled, code>>
     \/ /\ u \notin verified /\ MayGuess(u)
        /\ verified' = verified \cup {u}
        /\ entitled' = IF code[u].stored /\ code[u].fresh THEN entitled \cup {u} ELSE entitled
        /\ code' = [code EXCEPT ![u] = Spent(@)]
     \/ /\ u \notin verified /\ MayGuess(u)
        /\ code' = [code EXCEPT ![u] = Missed(@)]
        /\ UNCHANGED <<verified, entitled>>
  /\ UNCHANGED <<server, known, disabled, keys, link, migrated>>

-----------------------------------------------------------------------------
(* The password reset link.                                                *)

Sent(l) == [stored |-> TRUE, fresh |-> TRUE, mailed |-> l.mailed + 1, resets |-> l.resets]
Opened(l) == [stored |-> FALSE, fresh |-> FALSE, mailed |-> l.mailed, resets |-> l.resets + 1]

\* forgot_submit() -> start_reset
Forgot(u) ==
  /\ up /\ u \in known
  /\ link[u].mailed < MaxLinks[u]
  /\ link' = [link EXCEPT ![u] = Sent(@)]
  /\ UNCHANGED <<server, known, access, keys, pending, code, migrated>>

\* reset_submit() -> reset_password, with the newest link
ResetPassword(u) ==
  /\ up /\ u \in known
  /\ link[u].stored /\ link[u].fresh
  /\ link' = [link EXCEPT ![u] = Opened(@)]
  /\ UNCHANGED <<server, known, access, keys, pending, code, migrated>>

-----------------------------------------------------------------------------
(* API keys.                                                               *)

\* The middleware: signed in, enabled and verified.
Admitted(u) == up /\ u \in verified \ disabled

AdmitKey_Anyone(u) ==
  /\ up
  /\ pending' = pending \cup {<<u, "key">>}
  /\ UNCHANGED <<server, known, access, keys, code, link, migrated>>

\* account_key_new() up to the form
AdmitKey(u) ==
  /\ Admitted(u)
  /\ pending' = pending \cup {<<u, "key">>}
  /\ UNCHANGED <<server, known, access, keys, code, link, migrated>>

\* create_api_key: nothing is asked again
NewKey(u) ==
  /\ up /\ <<u, "key">> \in pending
  /\ pending' = pending \ {<<u, "key">>}
  /\ \E k \in Unused : table' = [table EXCEPT ![k] = NewRow(u)]
  /\ UNCHANGED <<server, known, access, primary, code, link, migrated>>

Spare_WithRevoked(u) == Cardinality({k \in Held : table[k].owner = u}) > 1

\* "Refuse to remove the last working key"
Spare(u) == Cardinality(Live(u)) > 1

\* account_key_revoke(): any key id may be asked for
Revoke(u, k) ==
  /\ Admitted(u)
  /\ Spare(u)
  /\ k \in Held /\ table[k].owner = u
  /\ table' = [table EXCEPT ![k].revoked = TRUE]
  /\ UNCHANGED <<server, known, access, primary, pending, code, link, migrated>>

Rotate_UserRowOnly(u) ==
  /\ Admitted(u)
  /\ \E k \in Unused : primary' = [primary EXCEPT ![u] = k]
  /\ UNCHANGED <<server, known, access, table, pending, code, link, migrated>>

\* rotate_key: revoke the old row if there is one, insert the new one, and
\* keep users.api_key in step
Rotate(u) ==
  /\ Admitted(u)
  /\ \E k \in Unused :
       /\ table' = [j \in Keys |->
            CASE j = primary[u] /\ j \in Held /\ table[j].owner = u ->
                   [table[j] EXCEPT !.revoked = TRUE]
              [] j = k -> NewRow(u)
              [] OTHER -> table[j]]
       /\ primary' = [primary EXCEPT ![u] = k]
  /\ UNCHANGED <<server, known, access, pending, code, link, migrated>>

\* by_api_key counts the call, also of an account that is then refused
Call(k) ==
  /\ up /\ \E u \in known : k \in Live(u)
  /\ table[k].calls < MaxCalls
  /\ table' = [table EXCEPT ![k].calls = @ + 1]
  /\ UNCHANGED <<server, known, access, primary, pending, code, link, migrated>>

-----------------------------------------------------------------------------
(* The administrator, and time.                                            *)

\* admin_verify() -> set_verified
AdminVerify(u) ==
  /\ up /\ u \in known
  /\ verified' = verified \cup {u}
  /\ entitled' = entitled \cup {u}
  /\ code' = [code EXCEPT ![u].stored = FALSE]
  /\ UNCHANGED <<server, known, disabled, keys, pending, link, migrated>>

\* admin_toggle() -> set_disabled
AdminToggle(u) ==
  /\ up /\ u \in known
  /\ disabled' = IF u \in disabled THEN disabled \ {u} ELSE disabled \cup {u}
  /\ UNCHANGED <<server, known, verified, entitled, keys, pending, code, link, migrated>>

\* Fifteen minutes pass.
StaleCode(u) ==
  /\ code[u].fresh
  /\ code' = [code EXCEPT ![u].fresh = FALSE]
  /\ UNCHANGED <<server, known, access, keys, pending, link, migrated>>

\* An hour passes.
StaleLink(u) ==
  /\ link[u].fresh
  /\ link' = [link EXCEPT ![u].fresh = FALSE]
  /\ UNCHANGED <<server, known, access, keys, pending, code, migrated>>

-----------------------------------------------------------------------------

Next ==
  \/ Start \/ Stop
  \/ \E u \in Accounts :
       \/ Signup(u) \/ Resend(u) \/ AdmitCode(u) \/ CheckCode(u)
       \/ Forgot(u) \/ ResetPassword(u)
       \/ AdmitKey(u) \/ NewKey(u) \/ Rotate(u)
       \/ \E k \in Keys : Revoke(u, k)
       \/ AdminVerify(u) \/ AdminToggle(u)
       \/ StaleCode(u) \/ StaleLink(u)
  \/ \E k \in Keys : Call(k)

Spec == Init /\ [][Next]_vars

-----------------------------------------------------------------------------
(* Properties.                                                             *)

\* An account that has a working key is never left without one, whatever it
\* revokes and rotates, through any restart (api.py:398 "an account with none
\* can no longer call the API at all, and the UI gives no way back").
WorkingKeyKept == [][\A u \in Accounts : Live(u) # {} => Live(u)' # {}]_vars

\* A revoked key works never again: not when a start adopts the keys of the
\* users table once more, and not when a key is rotated.
RevokedForGood ==
  [][\A k \in Held : table[k].revoked => k \in Held' /\ table'[k].revoked]_vars

\* users.api_key and api_keys stay in step for every account that the latest
\* start found: the row may be revoked, but it is there and it is theirs.
InStep ==
  \A u \in migrated : primary[u] \in Held /\ table[primary[u]].owner = u

\* Nobody is verified without a reason: a fresh code, the administrator's
\* word, or an account older than the gate.
VerifiedForAReason == verified \subseteq entitled

\* One mailed code is worth at most OTP_MAX_TRIES guesses, over any sequence
\* of resends, restarts and requests that overlap.
GuessesBounded ==
  \A u \in Accounts : code[u].guesses <= MaxTries * code[u].mailed

\* One mailed link changes the password at most once, and a newer link takes
\* the place of an older one.
LinkWorksOnce ==
  \A u \in Accounts :
    link[u].resets + (IF link[u].stored THEN 1 ELSE 0) <= link[u].mailed

\* What was mailed is worth what it was meant for and no more.
SecretsSpent == GuessesBounded /\ LinkWorksOnce
=============================================================================
