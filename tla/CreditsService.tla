--------------------------- MODULE CreditsService ---------------------------
(***************************************************************************)
(* Credits (credits/credits.service.ts): `spend` is one SQL statement,     *)
(* `grant` an interactive transaction of two statements, both under READ   *)
(* COMMITTED.  A statement that meets a row or a unique key written by an  *)
(* open transaction waits for it, which here is a guard.                   *)
(***************************************************************************)
EXTENDS Integers, Sequences

CONSTANTS
  Users,        \* account holders
  Keys,         \* idempotency keys
  NoKey,        \* idempotencyKey = null
  Amounts,      \* amounts callers pass (a spend of 0 only reads the balance)
  Txs,          \* slots for open transactions (bound)
  FirstBalance, \* FirstBalance[u]: User.creditBalance when the model starts
  LedgerBound   \* bound on the number of ledger rows of a user

ASSUME CreditsAssumption ==
  /\ NoKey \notin Keys
  /\ Amounts \subseteq Nat \ {0}
  /\ FirstBalance \in [Users -> Nat]
  /\ LedgerBound \in Nat

VARIABLES
  balance,  \* committed User.creditBalance
  ledger,   \* committed CreditLedger rows of a user, in the order of their commits
  tx        \* tx[t]: the grant in slot t, between its statements

creditVars == <<balance, ledger, tx>>

-----------------------------------------------------------------------------

Ledgers == [amount : Int, balanceAfter : Int, key : Keys \cup {NoKey}]

Idle == [pc |-> "idle"]
Transactions ==
  {Idle} \cup [pc : {"credited", "inserted"}, user : Users, amount : Amounts,
               balanceAfter : Int, key : Keys \cup {NoKey}]

Entry(amount, after, k) == [amount |-> amount, balanceAfter |-> after, key |-> k]

\* Broken variant (mutation check): nothing keeps two grants off the same user row.
LockIgnored(u) == FALSE

\* An open transaction keeps the user row it updated to itself.
Locked(u) == \E t \in Txs : tx[t] # Idle /\ tx[t].user = u

Committed(k) == k # NoKey /\ \E u \in Users : \E i \in DOMAIN ledger[u] : ledger[u][i].key = k

\* An open transaction has inserted a row with the key and may still commit or roll back.
Claimed(k) == k # NoKey /\ \E t \in Txs : tx[t].pc = "inserted" /\ tx[t].key = k

HasRoom(u) == Len(ledger[u]) < LedgerBound

Apply(u, entry) ==
  /\ balance' = [balance EXCEPT ![u] = entry.balanceAfter]
  /\ ledger' = [ledger EXCEPT ![u] = Append(@, entry)]

CreditsInit ==
  /\ balance = FirstBalance
  /\ ledger = [u \in Users |-> <<>>]
  /\ tx = [t \in Txs |-> Idle]

-----------------------------------------------------------------------------

\* spend: the conditional debit and the ledger row in one statement.  It changes nothing and
\* throws when the balance is too low or the key is taken.
Spend(u, amount, k) ==
  /\ ~Locked(u) /\ ~Claimed(k) /\ ~Committed(k) /\ HasRoom(u)
  /\ balance[u] >= amount
  /\ Apply(u, Entry(-amount, balance[u] - amount, k))
  /\ UNCHANGED tx

\* Broken variant (mutation check): no transaction around the two statements.
GrantUpdateAtOnce(t, u, amount, k) ==
  /\ tx[t] = Idle /\ ~Locked(u) /\ HasRoom(u)
  /\ tx' = [tx EXCEPT ![t] = [pc |-> "credited", user |-> u, amount |-> amount,
                              balanceAfter |-> balance[u] + amount, key |-> k]]
  /\ balance' = [balance EXCEPT ![u] = @ + amount]
  /\ UNCHANGED ledger

\* grant, first statement: increment the balance, seen by nobody else until the commit.
GrantUpdate(t, u, amount, k) ==
  /\ tx[t] = Idle /\ ~Locked(u) /\ HasRoom(u)
  /\ tx' = [tx EXCEPT ![t] = [pc |-> "credited", user |-> u, amount |-> amount,
                              balanceAfter |-> balance[u] + amount, key |-> k]]
  /\ UNCHANGED <<balance, ledger>>

\* grant, second statement: a key that is already in the ledger throws, which rolls the
\* increment back.
GrantInsert(t) ==
  /\ tx[t].pc = "credited"
  /\ ~Claimed(tx[t].key)
  /\ tx' = IF Committed(tx[t].key) THEN [tx EXCEPT ![t] = Idle]
                                   ELSE [tx EXCEPT ![t].pc = "inserted"]
  /\ UNCHANGED <<balance, ledger>>

GrantCommit(t) ==
  /\ tx[t].pc = "inserted"
  /\ Apply(tx[t].user, Entry(tx[t].amount, tx[t].balanceAfter, tx[t].key))
  /\ tx' = [tx EXCEPT ![t] = Idle]

\* The process dies, the connection breaks or the transaction times out: roll back.
GrantAbort(t) ==
  /\ tx[t] # Idle
  /\ tx' = [tx EXCEPT ![t] = Idle]
  /\ UNCHANGED <<balance, ledger>>

CreditsNext ==
  \/ \E u \in Users, amount \in Amounts, k \in Keys \cup {NoKey} :
       \/ Spend(u, amount, k)
       \/ \E t \in Txs : GrantUpdate(t, u, amount, k)
  \/ \E t \in Txs : GrantInsert(t) \/ GrantCommit(t) \/ GrantAbort(t)

CreditsSpec == CreditsInit /\ [][CreditsNext]_creditVars

-----------------------------------------------------------------------------
(* Properties *)

\* Every variable has its type; in particular no interleaving overdraws an account.
CreditsTypeOK ==
  /\ balance \in [Users -> Nat]
  /\ ledger \in [Users -> Seq(Ledgers)]
  /\ tx \in [Txs -> Transactions]

\* The ledger explains the balance: each row continues from the balance the row before it
\* left, and the balance is what the last row left.  An update that is lost between two
\* concurrent movements breaks the chain.
BalanceBefore(u, i) == IF i = 1 THEN FirstBalance[u] ELSE ledger[u][i - 1].balanceAfter

LedgerExplainsBalance ==
  \A u \in Users :
    /\ \A i \in 1..Len(ledger[u]) :
         ledger[u][i].balanceAfter = BalanceBefore(u, i) + ledger[u][i].amount
    /\ balance[u] = BalanceBefore(u, Len(ledger[u]) + 1)

\* Grants and spends that race or are repeated with the same key move credits once.
OncePerKey ==
  \A u, v \in Users : \A i \in 1..Len(ledger[u]), j \in 1..Len(ledger[v]) :
    ledger[u][i].key = ledger[v][j].key /\ ledger[u][i].key # NoKey => u = v /\ i = j

\* The transactions implement the ledger the rest of the API relies on: what others can see
\* changes by whole movements.
Book == UNION {{[user |-> u, amount |-> ledger[u][i].amount, key |-> ledger[u][i].key] :
                  i \in {n \in 1..Len(ledger[u]) : ledger[u][n].key # NoKey}} : u \in Users}

Atomic == INSTANCE AtomicLedger WITH
  Amounts <- Amounts \cup {-a : a \in Amounts},
  book <- Book

AtomicMovements == Atomic!LedgerSpec
=============================================================================
