---------------------------- MODULE AtomicLedger ----------------------------
(***************************************************************************)
(* What the credit ledger promises to the rest of the API: a credit        *)
(* movement happens as a whole or not at all, never takes a balance below  *)
(* zero, and happens at most once for an idempotency key.                  *)
(*                                                                         *)
(* CreditsService implements this specification with database transactions *)
(* and JobVerification uses it for the payments of the job pipeline.       *)
(***************************************************************************)
EXTENDS Integers

CONSTANTS Users,   \* account holders
          Keys,    \* idempotency keys
          NoKey,   \* idempotencyKey = null
          Amounts  \* what movements may add to a balance (negative: a debit)

VARIABLES balance, \* balance[u]: User.creditBalance
          book     \* the movements made under a key

ledgerVars == <<balance, book>>

LedgerInit == balance \in [Users -> Nat] /\ book = {}

Posted(k) == \E e \in book : e.key = k

Post(u, amount, k) ==
  /\ balance[u] + amount >= 0
  /\ ~Posted(k)
  /\ balance' = [balance EXCEPT ![u] = @ + amount]
  /\ book' = IF k = NoKey THEN book ELSE book \cup {[user |-> u, amount |-> amount, key |-> k]}

LedgerNext == \E u \in Users, amount \in Amounts, k \in Keys \cup {NoKey} : Post(u, amount, k)

LedgerSpec == LedgerInit /\ [][LedgerNext]_ledgerVars
=============================================================================
