----------------------------- MODULE RealModeSetup -----------------------------
(***************************************************************************)
(* validateRealModeSetup of utils/securityValidation.ts, as                *)
(* scripts/validate-setup.ts runs it before real mode is used: the         *)
(* settings, the key, the RPC connection, the wallet and its balance, one  *)
(* after the other with the first error as the answer.  It is the second   *)
(* judge of the same settings beside Configuration, and the swaps of the   *)
(* real services are a third, with limits of their own.                    *)
(***************************************************************************)
EXTENDS Configuration

CONSTANTS
    Environments,   \* what the environment may hold
    Balances        \* what the wallet may hold, in thousandths of SOL

ASSUME SetupAssumption == Environments \subseteq ProcessEnv /\ Balances \subseteq Nat

VARIABLES
    settings,   \* the parsed settings
    wallet,     \* the balance of the wallet, which others spend and fill
    setup       \* the validation: its step, warnings and the balance it saw

setupVars == <<settings, wallet, setup>>

\* validatePrivateKey: placeholders by their first word, the others by their length.
KeyAccepted(k) == k \notin {"absent", "blank", "spaces", "placeholder"} /\ KeyLength[k] \in 50 .. 200
KeyWarnings(k) == IF k = "spaced" THEN {"whitespace"} ELSE {}

\* loadKeypairFromEnv: base64, where white space is skipped, then bs58.
Loads(k) == k \in {"base64", "spaced"} \/ k = "bs58"

\* checkBalance of the real services: 0.01 SOL.
SwapNeeds == 10

SetupTypeOK ==
    /\ wallet \in Balances
    /\ setup.pc \in {"idle", "rpc", "wallet", "balance", "valid", "invalid"}
    /\ setup.warnings \subseteq {"whitespace", "publicRpc", "commitment", "lowBalance"}
    /\ setup.seen \in Balances \cup {-1}

SetupInit ==
    /\ \E env \in Environments : settings = Parsed(env)
    /\ wallet \in Balances
    /\ setup = [pc |-> "idle", warnings |-> {}, seen |-> -1]

Proceed(pc) == setup' = [setup EXCEPT !.pc = pc]

\* validateSolanaConfig of securityValidation.ts.
ConfigWarnings(c) ==
    KeyWarnings(c.key)
        \cup (IF c.rpcUrl = "public" THEN {"publicRpc"} ELSE {})
        \cup (IF c.commitment = "unknown" THEN {"commitment"} ELSE {})

CheckConfig ==
    /\ setup.pc = "idle"
    /\ \/ /\ ~settings.mockMode /\ KeyAccepted(settings.key)
          /\ setup' = [setup EXCEPT !.pc = "rpc", !.warnings = ConfigWarnings(settings)]
       \/ /\ settings.mockMode \/ ~KeyAccepted(settings.key)
          /\ Proceed("invalid")
    /\ UNCHANGED <<settings, wallet>>

\* validateRpcConnection; no connection is made to a URL that is none.
CheckRpc ==
    /\ setup.pc = "rpc"
    /\ \/ settings.rpcUrl # "malformed" /\ Proceed("wallet")
       \/ Proceed("invalid")
    /\ UNCHANGED <<settings, wallet>>

LoadWallet ==
    /\ setup.pc = "wallet"
    /\ Proceed(IF Loads(settings.key) THEN "balance" ELSE "invalid")
    /\ UNCHANGED <<settings, wallet>>

\* Mutant of Required: a setting that is no number is taken as it is.
RequiredUnchecked(c) == c.minSol

\* minBalance || config.trading.minSolBalance || 0.1
Required(c) == IF Falsy(c.minSol) \/ c.minSol = Text THEN 100 ELSE c.minSol

\* validateWalletReadiness: nothing at all, less than is required, less than 0.001 SOL.
ReadBalance ==
    /\ setup.pc = "balance"
    /\ \/ setup' = [setup EXCEPT
             !.pc = IF wallet < 1 THEN "invalid" ELSE "valid",
             !.seen = wallet,
             !.warnings = @ \cup IF Above(Required(settings), wallet) THEN {"lowBalance"} ELSE {}]
       \/ Proceed("invalid")
    /\ UNCHANGED <<settings, wallet>>

WalletChanges ==
    /\ setup.pc \notin {"valid", "invalid"}
    /\ wallet' \in Balances
    /\ UNCHANGED <<settings, setup>>

SetupNext == CheckConfig \/ CheckRpc \/ LoadWallet \/ ReadBalance \/ WalletChanges

SetupSpec == SetupInit /\ [][SetupNext]_setupVars
-----------------------------------------------------------------------------

\* What a valid setup is worth to the swaps: their key loads, and if neither validator
\* warned about SOL, the balance that was seen is one they accept.  Three limits in
\* three files hang together here: 0.001 and MIN_SOL_BALANCE in the setup, 0.01 in the
\* validator, 0.01 in the swap; with a warning, a valid setup may refuse every swap.
ReadyMeansSwapsPay ==
    setup.pc = "valid" =>
        /\ Loads(settings.key) /\ "SOLANA_PRIVATE_KEY" \notin SolanaErrors(settings)
        /\ ("lowBalance" \notin setup.warnings
              /\ "MIN_SOL_BALANCE" \notin TradingWarnings(settings)) => setup.seen >= SwapNeeds
=============================================================================
