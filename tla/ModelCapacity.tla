--------------------------- MODULE ModelCapacity ---------------------------
(***************************************************************************)
(* How many tokens a role's request to a local model may use: the split of *)
(* a context between prompt and reply (prompts/roleRequestBudget.ts,       *)
(* prompts/promptBudget.ts), the growth of a context whose share is too    *)
(* small for the whole prompt (prompts/contextGrowth.ts), and the growth   *)
(* of a reply that was cut off (prompts/writerOutputBudget.ts).            *)
(* Token counts are naturals; the constants of the code are parameters.    *)
(***************************************************************************)
EXTENDS Integers

CONSTANTS
    Headroom,  \* CONTEXT_GROWTH_INPUT_HEADROOM_TOKENS
    Rounding,  \* CONTEXT_GROWTH_ROUNDING_TOKENS
    SeedLimit, \* WRITER_SEED_OUTPUT_TOKEN_LIMIT
    Step,      \* the least growth of a reply: 1024
    MinGain    \* a growth below this is none: 128

ASSUME Tokens ==
    /\ {Headroom, SeedLimit, Step, MinGain} \subseteq Nat \ {0}
    /\ Rounding \in Nat \ {0}

Larger(a, b) == IF a >= b THEN a ELSE b
Smaller(a, b) == IF a <= b THEN a ELSE b

\* contextInputBudget, and what it leaves for the reply.
InputBudget(context) == (context * 7) \div 10
DefaultReserve(context) == context - InputBudget(context)

(***************************************************************************)
(* The reply a role may write.  The Writer's is bounded (a seed, one more  *)
(* method) but never below what a cut-off reply of this target taught; the *)
(* other roles take the default share.  SeedLimit stands for every cap of  *)
(* the Writer; the caps of a revision and of the Analyst, and the floor of *)
(* a focused seed, are not told apart.                                     *)
(***************************************************************************)
\* Mutant of OutputTokens: what was learned replaces the bound only where it is smaller.
OutputTokens_Unlearned(role, context, learned) ==
    IF role = "writer" THEN Smaller(SeedLimit, DefaultReserve(context))
    ELSE DefaultReserve(context)
OutputTokens(role, context, learned) ==
    IF role = "writer"
    THEN Larger(learned, Smaller(SeedLimit, DefaultReserve(context)))
    ELSE DefaultReserve(context)

\* promptFits, and requiredInputTokens against the role's budget.
Fits(role, context, learned, need) ==
    need <= Larger(0, context - OutputTokens(role, context, learned))

(***************************************************************************)
(* planContextGrowth.  `output' is the reply the limit would give; 0 where *)
(* no context up to the limit holds the prompt.                            *)
(***************************************************************************)
RoundUp(context, limit) ==
    LET up == (Rounding - (context % Rounding)) % Rounding
    IN IF up <= limit - context THEN context + up ELSE limit

\* Mutant of GrownContext: the reply keeps the size the small context gave it.
GrownContext_OldOutput(role, context, learned, need, limit) ==
    LET output == OutputTokens(role, context, learned)
    IN IF limit - output < need THEN 0 ELSE Larger(context + 1, need + output)
GrownContext(role, context, learned, need, limit) ==
    LET output == OutputTokens(role, limit, learned)
        spare == limit - output - need
    IN IF context >= limit \/ spare < 0 THEN 0
       ELSE RoundUp(Larger(context + 1, need + Smaller(Headroom, spare) + output), limit)

(***************************************************************************)
(* planWriterOutputGrowth: the replies a second attempt may ask for.  The  *)
(* time that is left may allow less than the preferred growth.             *)
(***************************************************************************)
GrownOutputs(cap, need, ceiling) ==
    cap + MinGain .. Smaller(Larger(cap + Step, (3 * cap + 1) \div 2),
                             ceiling - need - Headroom)
=============================================================================
