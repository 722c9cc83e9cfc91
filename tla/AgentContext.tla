----------------------------- MODULE AgentContext -----------------------------
(***************************************************************************)
(* What a model gets to see of a conversation that grows                    *)
(* (agent-context.service.ts, compile): all of it while it fits, then every *)
(* message shortened, then a digest of the oldest and the newest as they    *)
(* are, cut at a multiple of Block messages, so that the cut stands still   *)
(* for some turns.  A message is its length in characters, of which 3.5     *)
(* make a token; shares are in percent.  A message that is too long is      *)
(* shortened to the most it may be: how much shorter it gets depends on its *)
(* lines.                                                                   *)
(***************************************************************************)
EXTENDS Integers, Sequences, FiniteSetsExt

CONSTANTS
  Windows,    \* contextTokens of the models of the registry, 0 where the row has none
  Default,    \* AI_AGENT_CONTEXT_TOKENS, for the models without a row
  LeastRow,   \* the least window of a row that is believed
  LeastLimit, \* the least the setting may be
  Reserve,    \* tokens kept for the answer
  LeastInput, \* the least input budget, in tokens
  LeastPer,   \* the least length a message is shortened to
  Block,      \* CONTEXT_BLOCK
  Overhead,   \* tokens of a message beside its content
  Heading,    \* the length of the digest's first line
  DigestLine, \* the length of a message in the digest
  Lengths,    \* lengths of messages
  Prompts,    \* lengths of system prompts
  MaxMessages \* messages of a conversation (bound)

ASSUME ContextAssumption ==
  /\ {Default, LeastRow, LeastLimit, Reserve, LeastInput, LeastPer, Overhead, Heading,
      DigestLine, MaxMessages} \subseteq Nat
  /\ Windows \cup Lengths \cup Prompts \subseteq Nat /\ Block \in Nat \ {0}

VARIABLES
  system, \* the length of the system prompt
  said    \* the lengths of the messages after it, the oldest first

contextVars == <<system, said>>

AtLeast(least, x) == IF x < least THEN least ELSE x
AtMost(most, x) == IF x > most THEN most ELSE x
Share(percent, x) == (percent * x) \div 100
UpToBlock(n) == ((n + Block - 1) \div Block) * Block
EstimateTokens(chars) == (2 * chars + 6) \div 7
\* The tokens of a message.
Cost(chars) == EstimateTokens(chars) + Overhead
AddedUp(s) ==
  LET upTo[i \in 0 .. Len(s)] == IF i = 0 THEN 0 ELSE upTo[i - 1] + s[i]
  IN  upTo[Len(s)]
\* The tokens of all of these messages.
Total(m) == AddedUp([i \in DOMAIN m |-> Cost(m[i])])

ContextLimit(w) == IF w >= LeastRow THEN w ELSE AtLeast(LeastLimit, Default)
InputBudget(w) == AtLeast(LeastInput, Share(78, ContextLimit(w)) - Reserve)
CharBudget(w) == (7 * InputBudget(w)) \div 2

Unabridged(p, m) == [system |-> p, digest |-> <<>>, tail |-> m]
Estimated(c) == Cost(c.system) + Total(c.digest) + Total(c.tail)

\* Every message but the prompt gets the same share, which changes once in a block.
PerMessage(w, m) == AtLeast(LeastPer, CharBudget(w) \div AtLeast(4, UpToBlock(Len(m) + 1)))
Shortened(w, p, m) ==
  Unabridged(AtMost(Share(42, CharBudget(w)), p), [i \in DOMAIN m |-> AtMost(PerMessage(w, m), m[i])])

\* How many of the newest fit beside the prompt; two are taken in any case.
Fits(w, c) ==
  LET Newest(k) == SubSeq(c.tail, Len(c.tail) - k + 1, Len(c.tail))
      Stops(k) == k > 2 /\ Cost(c.system) + Total(Newest(k)) > Share(62, InputBudget(w))
  IN  Max({k \in 0 .. Len(c.tail) : \A l \in 1 .. k : ~Stops(l)})

\* Broken variant (mutation check): the cut goes back to the block before it.
CutAtBlockBefore(n, fits) == AtMost(AtLeast(0, n - 2), ((n - fits) \div Block) * Block)
\* How many of the oldest are left out.
Cut(n, fits) == AtMost(AtLeast(0, n - 2), UpToBlock(n - fits))

Digest(w, m) == AtMost(Share(25, CharBudget(w)), Heading + AddedUp([i \in DOMAIN m |-> AtMost(DigestLine, m[i])]))
Windowed(w, c) ==
  LET cut == Cut(Len(c.tail), Fits(w, c)) IN
  [c EXCEPT !.tail = SubSeq(c.tail, cut + 1, Len(c.tail)),
            !.digest = IF cut = 0 THEN <<>> ELSE <<Digest(w, SubSeq(c.tail, 1, cut))>>]

\* compile, for a model whose row says w.
Compiled(w, p, m) ==
  LET short == Shortened(w, p, m) IN
  CASE Estimated(Unabridged(p, m)) <= InputBudget(w) -> Unabridged(p, m)
    [] Estimated(Unabridged(p, m)) > InputBudget(w) /\ Estimated(short) <= InputBudget(w) -> short
    [] OTHER -> Windowed(w, short)

-----------------------------------------------------------------------------
ContextInit == system \in Prompts /\ said = <<>>

\* The answer of the model, and what its tool or its user says next.
Say(n) == Len(said) < MaxMessages /\ said' = Append(said, n) /\ UNCHANGED system

ContextNext == \E n \in Lengths : Say(n)
ContextSpec == ContextInit /\ [][ContextNext]_contextVars

-----------------------------------------------------------------------------
(* Properties *)

ContextTypeOK == system \in Prompts /\ said \in Seq(Lengths)

\* With the constants of the code, the least budget that has room, in every case, for the prompt,
\* the digest and two messages of the greatest length: that of a window of 5892 tokens.
Roomy == 3195
CodesConstants == LeastPer <= 1800 /\ Overhead <= 6 /\ Block >= 8

\* However long the prompt is and however the messages come, for every window: what a model gets
\* is within its input budget, or, where the budget is the least or little more, within Roomy.
ContextFits ==
  \A w \in Windows : Estimated(Compiled(w, system, said)) <= AtLeast(Roomy, InputBudget(w))

\* "estimatedTokens never exceeds the input budget after compilation" (context-test.ts:156): in a
\* small window two messages are taken whether they fit or not, and shortened to no less than
\* LeastPer.
InputBudgetHolds == \A w \in Windows : Estimated(Compiled(w, system, said)) <= InputBudget(w)
=============================================================================
