----------------------------- MODULE ServicesProofs -----------------------------
(***************************************************************************)
(* Proofs about the parts of the server beside the order engine, each of   *)
(* its own specification: the confirmation loop, the start and the end of  *)
(* the process, the validation of real mode, the health probes, the        *)
(* requests that create orders, the collection of orders, and the fees;    *)
(* at the end, the types of all of them side by side.                      *)
(***************************************************************************)
EXTENDS MCServices, WebSocketHubProofs, FiniteSetTheorems, SequenceTheorems,
        WellFoundedInduction, TLAPS

-----------------------------------------------------------------------------
(***************************************************************************)
(* The confirmation loop.                                                  *)
(***************************************************************************)

Poll == [pc : {"idle", "asking", "asleep", "true", "failed", "timeout", "rpcError"},
         began : Nat, until : Nat]

\* A node never knows of a block that is not confirmed on the chain.
ConfirmationInv ==
    /\ level \in 1 .. 4 /\ node \in 1 .. 4
    /\ fails \in BOOLEAN
    /\ time \in 0 .. MaxClock
    /\ poll \in Poll /\ poll.began <= time
    /\ node >= 3 => level >= 3
    /\ poll.pc = "true" => level >= 3
    /\ poll.pc = "failed" => fails
    /\ poll.pc = "timeout" => time - poll.began >= Timeout

LEMMA LandedLevels == \A l \in 1 .. 4 : Landed(l) <=> l >= 3
<1>1. \A l \in 1 .. 4 : l = 1 \/ l = 2 \/ l = 3 \/ l = 4
    OBVIOUS
<1>2. Level[1] = "none" /\ Level[2] = "processed" /\ Level[3] = "confirmed" /\ Level[4] = "finalized"
    BY DEF Level
<1> QED
    BY <1>1, <1>2 DEF Landed

LEMMA ConfirmationInit_Inv == ConfirmationInit => ConfirmationInv
BY ConfirmationAssumption DEF ConfirmationInit, ConfirmationInv, Poll

LEMMA ConfirmationNext_Inv ==
    ConfirmationInv /\ [ConfirmationNext]_confirmationVars => ConfirmationInv'
<1> SUFFICES ASSUME ConfirmationInv, [ConfirmationNext]_confirmationVars
             PROVE  ConfirmationInv'
    OBVIOUS
<1>len. Len(Level) = 4
    BY DEF Level
<1>nat. Timeout \in Nat /\ MaxClock \in Nat
    BY ConfirmationAssumption
<1>1. CASE ChainMoves
    BY <1>1, <1>len DEF ConfirmationInv, ChainMoves
<1>2. CASE NodeCatchesUp
    BY <1>2 DEF ConfirmationInv, NodeCatchesUp
<1>3. CASE TimePasses
    <2>1. time \in Nat /\ time' = time + 1 /\ time' \in 0 .. MaxClock
        BY <1>3, <1>nat DEF ConfirmationInv, TimePasses
    <2>2. poll \in Poll /\ poll.began \in Nat
        BY DEF ConfirmationInv, Poll
    <2>3. poll.began <= time' /\ (poll.pc = "timeout" => time' - poll.began >= Timeout)
        BY <1>nat, <2>1, <2>2 DEF ConfirmationInv
    <2> QED
        BY <1>3, <2>1, <2>2, <2>3 DEF ConfirmationInv, TimePasses
<1>4. ASSUME NEW began \in 0 .. time, LoopHead(began), UNCHANGED <<level, fails, node, time>>
      PROVE  ConfirmationInv'
    <2>0. began \in Nat /\ time \in Nat
        BY <1>nat DEF ConfirmationInv
    <2>1. poll' = [pc |-> IF time - began < Timeout THEN "asking" ELSE "timeout",
                   began |-> began, until |-> poll.until]
        BY <1>4 DEF LoopHead, ConfirmationInv, Poll
    <2> QED
        BY <1>4, <2>0, <2>1, <1>nat DEF ConfirmationInv, Poll
<1>5. CASE StartPolling
    BY <1>4, <1>5 DEF StartPolling, ConfirmationInv
<1>6. CASE StatusArrives
    <2>1. PICK pc \in {"true", "failed", "asleep", "rpcError"}, until \in Nat :
              /\ poll' = [poll EXCEPT !.pc = pc, !.until = until]
              /\ pc = "true" => Landed(node)
              /\ pc = "failed" => fails
        <3>0. poll \in Poll /\ time + 1 \in Nat /\ poll.until \in Nat
            BY <1>nat DEF ConfirmationInv, Poll
        <3>1. CASE Landed(node) /\ poll' = [poll EXCEPT !.pc = "true"]
            <4>1. poll' = [poll EXCEPT !.pc = "true", !.until = poll.until]
                BY <3>0, <3>1 DEF Poll
            <4> QED
                BY <3>0, <3>1, <4>1
        <3>2. CASE fails /\ poll' = [poll EXCEPT !.pc = "failed"]
            <4>1. poll' = [poll EXCEPT !.pc = "failed", !.until = poll.until]
                BY <3>0, <3>2 DEF Poll
            <4> QED
                BY <3>0, <3>2, <4>1
        <3>3. CASE poll' = [poll EXCEPT !.pc = "asleep", !.until = time + 1]
            BY <3>0, <3>3
        <3>4. CASE poll' = [poll EXCEPT !.pc = "rpcError"]
            <4>1. poll' = [poll EXCEPT !.pc = "rpcError", !.until = poll.until]
                BY <3>0, <3>4 DEF Poll
            <4> QED
                BY <3>0, <3>4, <4>1
        <3> QED
            BY <1>6, <3>1, <3>2, <3>3, <3>4 DEF StatusArrives
    <2>2. poll' \in Poll /\ poll'.pc = pc /\ poll'.began = poll.began
        BY <2>1 DEF ConfirmationInv, Poll
    <2>3. pc = "true" => level >= 3
        BY <2>1, LandedLevels DEF ConfirmationInv
    <2> QED
        BY <1>6, <2>1, <2>2, <2>3 DEF StatusArrives, ConfirmationInv
<1>7. CASE WakeUp
    <2>1. poll.began \in 0 .. time
        BY DEF ConfirmationInv, Poll
    <2> QED
        BY <1>4, <1>7, <2>1 DEF WakeUp
<1>8. CASE UNCHANGED confirmationVars
    BY <1>8 DEF confirmationVars, ConfirmationInv
<1> QED
    BY <1>1, <1>2, <1>3, <1>5, <1>6, <1>7, <1>8 DEF ConfirmationNext

\* confirmTransactionWithTimeout: whatever the chain drops and however far the node lags,
\* true means that the transaction is on the chain to stay, failed that it has an error,
\* and the timeout is not reported early.
THEOREM VerdictsFit == ConfirmationSpec => [](ConfirmationTypeOK /\ VerdictFitsChain)
<1>1. ConfirmationInv => ConfirmationTypeOK /\ VerdictFitsChain
    <2> SUFFICES ASSUME ConfirmationInv PROVE ConfirmationTypeOK /\ VerdictFitsChain
        OBVIOUS
    <2>1. Len(Level) = 4
        BY DEF Level
    <2>2. ConfirmationTypeOK
        BY <2>1 DEF ConfirmationInv, ConfirmationTypeOK, Poll
    <2>3. VerdictFitsChain
        BY LandedLevels DEF ConfirmationInv, VerdictFitsChain
    <2> QED
        BY <2>2, <2>3
<1> QED
    BY ConfirmationInit_Inv, ConfirmationNext_Inv, <1>1, PTL DEF ConfirmationSpec

-----------------------------------------------------------------------------
(***************************************************************************)
(* The process.                                                            *)
(***************************************************************************)

\* What runs at each stage of start(), while no signal has come.
StartedSoFar ==
    /\ boot = "connecting" =>
          worker = "off" /\ monitor = [isMonitoring |-> FALSE, timers |-> 0]
    /\ boot = "starting" =>
          /\ database = "connected" /\ worker = "off"
          /\ monitor = [isMonitoring |-> FALSE, timers |-> 0]
    /\ boot = "checking" =>
          database = "connected" /\ worker = "running" /\ monitor.timers = 0
    /\ boot \in {"listening", "serving"} =>
          /\ database = "connected" /\ worker = "running"
          /\ monitor = [isMonitoring |-> TRUE, timers |-> 1]

ServerInv ==
    /\ ServerTypeOK
    /\ Turn => StartedSoFar

\* The last handler is server.ts's, which exits: a signal never gives the turn back.
LEMMA HandlerSteps ==
    ASSUME NEW l \in Handlers, l # <<>>
    PROVE  /\ Tail(l) \in Handlers
           /\ Tail(l) = <<>> => Head(l) = "server"
<1>1. CASE l = <<"server">>
    BY <1>1 DEF Handlers
<1>2. CASE l = <<"worker", "server">>
    <2>1. Tail(l) = <<"server">>
        BY <1>2
    <2> QED
        BY <2>1 DEF Handlers
<1>3. CASE l = <<"redis", "worker", "server">>
    <2>1. Tail(l) = <<"worker", "server">>
        BY <1>3
    <2> QED
        BY <2>1 DEF Handlers
<1>4. CASE l = <<"database", "redis", "worker", "server">>
    <2>1. Tail(l) = <<"redis", "worker", "server">>
        BY <1>4
    <2> QED
        BY <2>1 DEF Handlers
<1> QED
    BY <1>1, <1>2, <1>3, <1>4 DEF Handlers

LEMMA SignalHandlers == \A s \in DOMAIN Listeners : Listeners[s] \in Handlers \ {<<>>}
BY DEF Listeners, Handlers

LEMMA ServerInit_Inv == ServerInit => ServerInv
BY ServerAssumption DEF ServerInit, ServerInv, ServerTypeOK, StartedSoFar, Handlers

LEMMA ServerNext_Inv == ServerInv /\ [ServerNext]_serverVars => ServerInv'
<1> SUFFICES ASSUME ServerInv, [ServerNext]_serverVars PROVE ServerInv'
    OBVIOUS
<1>1. CASE Start
    <2>0. Turn /\ StartedSoFar /\ jobs' = jobs /\ listeners' = listeners
        BY <1>1 DEF Start, ServerInv, ServerTypeOK
    <2>1. CASE Connect /\ UNCHANGED <<worker, monitor>>
        BY <2>0, <2>1 DEF Connect, Exit, ServerInv, ServerTypeOK, StartedSoFar, Turn, Alive
    <2>2. CASE StartWorker /\ UNCHANGED <<database, monitor, exitCode>>
        BY <2>0, <2>2 DEF StartWorker, ServerInv, ServerTypeOK, StartedSoFar, Turn, Alive
    <2>3. CASE BeginMonitoring /\ UNCHANGED <<boot, database, worker, exitCode>>
        BY <2>0, <2>3 DEF BeginMonitoring, ServerInv, ServerTypeOK, StartedSoFar, Turn, Alive
    <2>4. CASE FirstCheckEnds /\ UNCHANGED <<database, worker, exitCode>>
        <3>1. /\ monitor \in [isMonitoring : BOOLEAN, timers : 0 .. 1]
              /\ monitor.isMonitoring = TRUE /\ monitor.timers = 0
            BY <2>0, <2>4 DEF FirstCheckEnds, ServerInv, ServerTypeOK, StartedSoFar
        <3>2. monitor' = [monitor EXCEPT !.timers = 1]
            BY <2>4, <3>1 DEF FirstCheckEnds
        <3>3. monitor' = [isMonitoring |-> TRUE, timers |-> 1]
            BY <3>1, <3>2
        <3>4. boot' = "listening" /\ UNCHANGED <<database, worker, exitCode>>
            BY <2>4 DEF FirstCheckEnds
        <3>5. database = "connected" /\ worker = "running"
            BY <2>0, <2>4 DEF FirstCheckEnds, StartedSoFar
        <3>6. monitor' \in [isMonitoring : BOOLEAN, timers : 0 .. 1]
            BY <3>3
        <3> QED
            BY <2>0, <3>3, <3>4, <3>5, <3>6 DEF ServerInv, ServerTypeOK, StartedSoFar, Turn, Alive
    <2>5. CASE Listen /\ UNCHANGED <<database, worker, monitor>>
        BY <2>0, <2>5 DEF Listen, Exit, ServerInv, ServerTypeOK, StartedSoFar, Turn, Alive
    <2> QED
        BY <1>1, <2>1, <2>2, <2>3, <2>4, <2>5 DEF Start
<1>2. CASE TakeJob
    <2>1. jobs' \in 0 .. MaxJobs
        BY <1>2, ServerAssumption DEF TakeJob, ServerInv, ServerTypeOK
    <2> QED
        BY <1>2, <2>1 DEF TakeJob, ServerInv, ServerTypeOK, StartedSoFar, Turn, Alive
<1>3. CASE EndJob
    <2>1. jobs' \in 0 .. MaxJobs
        BY <1>3, ServerAssumption DEF EndJob, ServerInv, ServerTypeOK
    <2> QED
        BY <1>3, <2>1 DEF EndJob, ServerInv, ServerTypeOK, StartedSoFar, Turn, Alive
<1>4. CASE RunListener
    <2>1. listeners' \in Handlers /\ (listeners' = <<>> => Head(listeners) = "server")
        BY <1>4, HandlerSteps DEF RunListener, ServerInv, ServerTypeOK
    <2>2. boot' = boot /\ jobs' = jobs
        BY <1>4 DEF RunListener
    <2>3. /\ database' \in {"off", "connected", "closing"}
          /\ worker' \in {"off", "running", "closing"}
          /\ monitor' \in [isMonitoring : BOOLEAN, timers : 0 .. 1]
          /\ exitCode' \in 0 .. 2
          /\ Head(listeners) = "server" => exitCode' = 0
        <3>1. CASE Head(listeners) = "database"
            BY <1>4, <3>1 DEF RunListener, ServerInv, ServerTypeOK, CloseDatabase
        <3>2. CASE Head(listeners) = "redis"
            BY <1>4, <3>2 DEF RunListener, ServerInv, ServerTypeOK, CloseRedis, Exit
        <3>3. CASE Head(listeners) = "worker"
            BY <1>4, <3>3 DEF RunListener, ServerInv, ServerTypeOK, StopWorker
        <3>4. CASE Head(listeners) = "server"
            <4>1. Shutdown /\ UNCHANGED <<database, worker>>
                BY <1>4, <3>4 DEF RunListener
            <4>2. exitCode' = 0 /\ monitor' = [isMonitoring |-> FALSE, timers |-> 0]
                BY <4>1 DEF Shutdown, StopMonitoring, Exit
            <4> QED
                BY <4>1, <4>2 DEF ServerInv, ServerTypeOK
        <3>5. Head(listeners) \in {"database", "redis", "worker", "server"}
            BY <1>4 DEF RunListener
        <3> QED
            BY <3>1, <3>2, <3>3, <3>4, <3>5
    <2>4. ~Turn'
        BY <2>1, <2>3 DEF Turn, Alive
    <2> QED
        BY <2>1, <2>2, <2>3, <2>4 DEF ServerInv, ServerTypeOK
<1>5. ASSUME NEW s \in DOMAIN Listeners, Signal(s)
      PROVE  ServerInv'
    BY <1>5, SignalHandlers DEF Signal, ServerInv, ServerTypeOK, Turn
<1>6. CASE UNCHANGED serverVars
    BY <1>6 DEF serverVars, ServerInv, ServerTypeOK, StartedSoFar, Turn, Alive
<1> QED
    BY <1>1, <1>2, <1>3, <1>4, <1>5, <1>6 DEF ServerNext

\* start() of server.ts: whatever fails on the way, and whenever a signal comes, requests
\* are served only by a process with a database, a worker and one pair of timers.
THEOREM ServesWhole == ServerSpec => []ServesWithAllParts
<1>1. ServerInv => ServesWithAllParts
    BY DEF ServerInv, StartedSoFar, ServesWithAllParts
<1> QED
    BY ServerInit_Inv, ServerNext_Inv, <1>1, PTL DEF ServerSpec

-----------------------------------------------------------------------------
(***************************************************************************)
(* The settings of real mode and their two judges.                         *)
(***************************************************************************)

\* What a number in the settings may be, once it is parsed.
Parse == Int \cup {Text}

\* The settings that the properties look at.
SettingsOK(c) ==
    /\ c.mockMode \in BOOLEAN
    /\ c.key \in DOMAIN KeyLength
    /\ c.minSol \in Parse

LEMMA TextIsNoNumber ==
    /\ Text \notin Int /\ Null \notin Parse /\ Text # Null /\ Absent \notin Parse
    /\ Numerals \cap Parse = {}
BY JsAssumption DEF Parse

LEMMA DefaultsAreNumbers ==
    \A v \in Setting, n \in Int : OrDefault(v, n) \in Parse
BY DEF Setting, OrDefault, Parse

LEMMA ParsedSettings == \A env \in ProcessEnv : SettingsOK(Parsed(env))
<1> SUFFICES ASSUME NEW env \in ProcessEnv PROVE SettingsOK(Parsed(env))
    OBVIOUS
<1>1. /\ Parsed(env).mockMode = env.mockMode
      /\ Parsed(env).key = env.key
      /\ Parsed(env).minSol = OrDefault(env.minSol, 100)
    BY DEF Parsed, Defaults, ProcessEnv
<1>2. /\ env.mockMode \in BOOLEAN /\ env.key \in DOMAIN KeyLength
      /\ env.minSol \in Setting
    BY DEF ProcessEnv
<1> HIDE DEF Parsed
<1> QED
    BY <1>1, <1>2, DefaultsAreNumbers DEF SettingsOK

\* What the comparisons say of a parsed number.
LEMMA Comparisons ==
    ASSUME NEW v \in Parse, NEW n \in Int
    PROVE  /\ Below(v, n) <=> v \in Int /\ v < n
           /\ AtMost(v, n) <=> v \in Int /\ v <= n
           /\ Above(v, n) <=> v \in Int /\ v > n
BY TextIsNoNumber DEF Below, AtMost, Above, Numeric, Number, Parse

\* The tests behind the names.
LEMMA KeyTest ==
    ASSUME NEW c
    PROVE  "SOLANA_PRIVATE_KEY" \in SolanaErrors(c) <=> ~c.mockMode /\ KeyLength[c.key] < 32
BY DEF SolanaErrors, Failing

LEMMA BalanceTest ==
    ASSUME NEW c
    PROVE  "MIN_SOL_BALANCE" \in TradingWarnings(c) <=> ~c.mockMode /\ Below(c.minSol, 10)
BY DEF TradingWarnings, Failing

Setup == [pc : {"idle", "rpc", "wallet", "balance", "valid", "invalid"},
          warnings : SUBSET {"whitespace", "publicRpc", "commitment", "lowBalance"},
          seen : Balances \cup {-1}]

\* What each step of the validation has established.
SetupInv ==
    /\ SettingsOK(settings)
    /\ wallet \in Balances
    /\ setup \in Setup
    /\ setup.pc \in {"rpc", "wallet", "balance", "valid"} =>
          ~settings.mockMode /\ KeyAccepted(settings.key)
    /\ setup.pc \in {"balance", "valid"} => Loads(settings.key)
    /\ setup.pc = "valid" =>
          /\ setup.seen \in Balances
          /\ "lowBalance" \notin setup.warnings => ~Above(Required(settings), setup.seen)

LEMMA SetupInit_Inv == SetupInit => SetupInv
<1> SUFFICES ASSUME SetupInit PROVE SetupInv
    OBVIOUS
<1>1. SettingsOK(settings)
    BY ParsedSettings, SetupAssumption DEF SetupInit
<1>2. setup = [pc |-> "idle", warnings |-> {}, seen |-> -1] /\ wallet \in Balances
    BY DEF SetupInit
<1> QED
    BY <1>1, <1>2 DEF SetupInv, Setup

LEMMA SetupNext_Inv == SetupInv /\ [SetupNext]_setupVars => SetupInv'
<1> SUFFICES ASSUME SetupInv, [SetupNext]_setupVars PROVE SetupInv'
    OBVIOUS
<1>1. SettingsOK(settings)' /\ settings' = settings
    <2>1. settings' = settings
        BY DEF SetupNext, setupVars, CheckConfig, CheckRpc, LoadWallet, ReadBalance, WalletChanges
    <2> QED
        BY <2>1 DEF SetupInv, SettingsOK
<1>p. ASSUME NEW pc \in {"rpc", "wallet", "balance", "valid", "invalid"}, Proceed(pc)
      PROVE  /\ setup' \in Setup
             /\ setup'.pc = pc /\ setup'.warnings = setup.warnings /\ setup'.seen = setup.seen
    BY <1>p DEF Proceed, SetupInv, Setup
<1>2. CASE CheckConfig
    <2>1. CASE /\ ~settings.mockMode /\ KeyAccepted(settings.key)
               /\ setup' = [setup EXCEPT !.pc = "rpc", !.warnings = ConfigWarnings(settings)]
        <3>1. ConfigWarnings(settings) \in SUBSET {"whitespace", "publicRpc", "commitment", "lowBalance"}
            BY DEF ConfigWarnings, KeyWarnings
        <3>2. setup' \in Setup /\ setup'.pc = "rpc"
            BY <2>1, <3>1 DEF SetupInv, Setup
        <3> QED
            BY <1>1, <1>2, <2>1, <3>2 DEF SetupInv, CheckConfig
    <2>2. CASE Proceed("invalid")
        BY <1>p, <1>1, <1>2, <2>2 DEF SetupInv, CheckConfig
    <2> QED
        BY <1>2, <2>1, <2>2 DEF CheckConfig
<1>3. CASE CheckRpc
    <2>1. CASE Proceed("wallet")
        BY <1>p, <1>1, <1>3, <2>1 DEF SetupInv, CheckRpc
    <2>2. CASE Proceed("invalid")
        BY <1>p, <1>1, <1>3, <2>2 DEF SetupInv, CheckRpc
    <2> QED
        BY <1>3, <2>1, <2>2 DEF CheckRpc
<1>4. CASE LoadWallet
    <2>1. CASE Loads(settings.key) /\ Proceed("balance")
        BY <1>p, <1>1, <1>4, <2>1 DEF SetupInv, LoadWallet
    <2>2. CASE Proceed("invalid")
        BY <1>p, <1>1, <1>4, <2>2 DEF SetupInv, LoadWallet
    <2> QED
        BY <1>4, <2>1, <2>2 DEF LoadWallet
<1>5. CASE ReadBalance
    <2>1. CASE Proceed("invalid")
        BY <1>p, <1>1, <1>5, <2>1 DEF SetupInv, ReadBalance
    <2>2. CASE ~Proceed("invalid")
        <3> DEFINE pc == IF wallet < 1 THEN "invalid" ELSE "valid"
                   w == setup.warnings
                          \cup IF Above(Required(settings), wallet) THEN {"lowBalance"} ELSE {}
        <3>1. setup' = [setup EXCEPT !.pc = pc, !.seen = wallet, !.warnings = w]
            BY <1>5, <2>2 DEF ReadBalance
        <3>2. /\ pc \in {"invalid", "valid"}
              /\ w \in SUBSET {"whitespace", "publicRpc", "commitment", "lowBalance"}
              /\ "lowBalance" \notin w => ~Above(Required(settings), wallet)
              /\ setup \in Setup /\ wallet \in Balances
            BY DEF SetupInv, Setup
        <3> HIDE DEF pc, w
        <3>3. /\ setup' \in Setup
              /\ setup'.pc = pc /\ setup'.seen = wallet /\ setup'.warnings = w
            BY <3>1, <3>2 DEF Setup
        <3>4. Required(settings)' = Required(settings)
            BY <1>1 DEF Required
        <3>5. /\ setup.pc = "balance" /\ UNCHANGED <<settings, wallet>>
            BY <1>5 DEF ReadBalance
        <3> QED
            BY <1>1, <3>2, <3>3, <3>4, <3>5 DEF SetupInv
    <2> QED
        BY <2>1, <2>2
<1>6. CASE WalletChanges
    BY <1>1, <1>6 DEF SetupInv, WalletChanges, Required
<1>7. CASE UNCHANGED setupVars
    BY <1>1, <1>7 DEF setupVars, SetupInv, Required
<1> QED
    BY <1>2, <1>3, <1>4, <1>5, <1>6, <1>7 DEF SetupNext

\* validateRealModeSetup beside configValidator.ts: the limits of three files fit, for
\* every environment and whatever happens to the wallet meanwhile.
THEOREM ReadinessPays == SetupSpec => []ReadyMeansSwapsPay
<1>1. ASSUME SetupInv, setup.pc = "valid"
      PROVE  Loads(settings.key) /\ "SOLANA_PRIVATE_KEY" \notin SolanaErrors(settings)
    <2>1. KeyLength[settings.key] \in 50 .. 200
        BY <1>1 DEF SetupInv, KeyAccepted
    <2>2. ~(KeyLength[settings.key] < 32)
        BY <2>1
    <2> QED
        BY <1>1, <2>2, KeyTest DEF SetupInv
<1>2. ASSUME SetupInv, setup.pc = "valid", "lowBalance" \notin setup.warnings,
             "MIN_SOL_BALANCE" \notin TradingWarnings(settings)
      PROVE  setup.seen >= SwapNeeds
    <2>1. ~Below(settings.minSol, 10) /\ settings.minSol \in Parse
        BY <1>2, BalanceTest DEF SetupInv, SettingsOK
    <2>2. /\ setup.seen \in Nat
          /\ ~Above(Required(settings), setup.seen)
        BY <1>2, SetupAssumption DEF SetupInv
    <2>3. Required(settings) \in Int /\ Required(settings) >= 10
        <3>1. CASE settings.minSol = Text \/ settings.minSol = 0
            BY <3>1 DEF Required, Falsy
        <3>2. CASE settings.minSol \in Int /\ settings.minSol # 0
            <4>1. ~Falsy(settings.minSol) /\ settings.minSol # Text
                BY <3>2, TextIsNoNumber DEF Falsy, Parse
            <4>2. settings.minSol >= 10
                BY <2>1, <3>2, Comparisons
            <4> QED
                BY <3>2, <4>1, <4>2 DEF Required
        <3> QED
            BY <2>1, <3>1, <3>2 DEF Parse
    <2> QED
        BY <2>2, <2>3, Comparisons DEF Parse, SwapNeeds
<1>3. SetupInv => ReadyMeansSwapsPay
    BY <1>1, <1>2 DEF ReadyMeansSwapsPay
<1> QED
    BY SetupInit_Inv, SetupNext_Inv, <1>3, PTL DEF SetupSpec

-----------------------------------------------------------------------------
(***************************************************************************)
(* The health probes.                                                      *)
(***************************************************************************)

Figures == [JobSet \ {"none"} -> Nat]

Codes == {0, 200, 500, 503}

ProbeState ==
    [pc : {"idle", "checking", "metrics", "answered"}, of : {"health", "metrics"},
     database : Verdict,
     redis : {"idle", "ping", "info", "healthy", "unhealthy"},
     queue : {"idle", "counting", "healthy", "degraded", "unhealthy"},
     solana : {"idle", "slot", "version", "healthy", "unhealthy"},
     next : 1 .. 6, counts : Figures, code : Codes]

\* The states a probe can be in, whatever the queue is doing.
ProbeOK(q) ==
    /\ q \in ProbeState
    /\ q.pc = "idle" => q.next = 1 /\ q.of = "health"
    /\ q.pc \in {"idle", "checking"} => q.code = 0 /\ q.of = "health"
    /\ q.pc = "idle" \/ q.of = "metrics"
          => q.redis = "idle" /\ q.queue = "idle" /\ q.solana = "idle"
    /\ q.of = "health" /\ q.pc \in {"metrics", "answered"}
          => {q.redis, q.queue, q.solana} \subseteq Verdict
    /\ q.queue = "counting" => q.next <= 5
    /\ q.queue \in {"healthy", "degraded"} => q.next = 6
    /\ q.of = "health" /\ q.code = 200
          => /\ q.pc = "answered"
             /\ "unhealthy" \notin {q.database, q.redis, q.queue, q.solana}

\* The sets of unfinished jobs, and their places in Counts.
Place == [waiting |-> 1, active |-> 2, delayed |-> 5]

\* The jobs of the set s that have not moved since p began.
Still(s, p) == {j \in QueueJobs : jobAt[j] = s} \ moved[p]

Ever(s) == IF s = "waiting" THEN backlog ELSE 0

\* A count n of s that p has taken is wrong by no more than the jobs that have moved.
CountFits(n, s, p) ==
    /\ Cardinality(Still(s, p)) + Ever(s) <= n
    /\ n <= Cardinality(Still(s, p)) + Cardinality(moved[p]) + Ever(s)

Unended == {"waiting", "active", "delayed"}

HealthInv ==
    /\ realMode \in BOOLEAN /\ backlog \in Nat
    /\ redis \in {"up", "loading", "down"}
    /\ jobAt \in [QueueJobs -> JobSet]
    /\ moved \in [Probes -> SUBSET QueueJobs]
    /\ probe \in [Probes -> ProbeState]
    /\ \A p \in Probes : ProbeOK(probe[p])
    /\ \A p \in Probes : \A s \in Unended :
          Place[s] < probe[p].next => CountFits(probe[p].counts[s], s, p)

\* What a step of one probe has to keep.
ProbeFits(q, p) ==
    /\ ProbeOK(q)
    /\ \A s \in Unended : Place[s] < q.next => CountFits(q.counts[s], s, p)

LEMMA Verdicts ==
    /\ \A r \in 0 .. 3 : DatabaseVerdict(r) \in Verdict
    /\ \A n \in Figures : QueueVerdict(n) \in Verdict
    /\ \A V : StatusCode(Overall(V)) = 200 => "unhealthy" \notin V
    /\ \A V : StatusCode(Overall(V)) \in {200, 503}
<1>1. \A r \in 0 .. 3 : DatabaseVerdict(r) \in Verdict
    BY DEF DatabaseVerdict, Verdict
<1>2. ASSUME NEW n \in Figures PROVE QueueVerdict(n) \in Verdict
    BY DEF QueueVerdict, Verdict
<1>3. ASSUME NEW V
      PROVE  /\ StatusCode(Overall(V)) = 200 => "unhealthy" \notin V
             /\ StatusCode(Overall(V)) \in {200, 503}
    <2>1. CASE "unhealthy" \in V
        <3>1. Overall(V) = "unhealthy"
            BY <2>1 DEF Overall
        <3> QED
            BY <3>1 DEF StatusCode
    <2>2. CASE "unhealthy" \notin V
        BY <2>2 DEF StatusCode
    <2> QED
        BY <2>1, <2>2
<1> QED
    BY <1>1, <1>2, <1>3

\* A set and a set of what has moved, when j moves.
LEMMA OneMoves ==
    ASSUME NEW S, NEW M, NEW j, IsFiniteSet(S), IsFiniteSet(M), S \cap M = {}
    PROVE  /\ Cardinality(S) \in Nat /\ Cardinality(M) \in Nat
           /\ Cardinality(S \ {j}) \in Nat /\ Cardinality(M \cup {j}) \in Nat
           /\ Cardinality(S \ {j}) <= Cardinality(S)
           /\ Cardinality(S) + Cardinality(M) <= Cardinality(S \ {j}) + Cardinality(M \cup {j})
<1>1. /\ Cardinality(S) \in Nat /\ Cardinality(M) \in Nat
      /\ IsFiniteSet(S \ {j})
      /\ Cardinality(S \ {j}) = IF j \in S THEN Cardinality(S) - 1 ELSE Cardinality(S)
    BY FS_CardinalityType, FS_RemoveElement
<1>2. /\ IsFiniteSet(M \cup {j})
      /\ Cardinality(M \cup {j}) = IF j \in M THEN Cardinality(M) ELSE Cardinality(M) + 1
    BY FS_AddElement
<1>3. Cardinality(S \ {j}) \in Nat /\ Cardinality(M \cup {j}) \in Nat
    BY <1>1, <1>2, FS_CardinalityType
<1> QED
    BY <1>1, <1>2, <1>3

LEMMA FreshCount ==
    ASSUME HealthInv, NEW p \in Probes, NEW s \in Unended
    PROVE  CountFits(In(s), s, p)
<1> DEFINE A == {j \in QueueJobs : jobAt[j] = s}
<1>1. /\ IsFiniteSet(A) /\ IsFiniteSet(moved[p])
      /\ A \in SUBSET QueueJobs /\ moved[p] \in SUBSET QueueJobs
    BY FS_Subset, HealthAssumption DEF HealthInv
<1>2. /\ Cardinality(A) = Cardinality(A \cap moved[p]) + Cardinality(A \ moved[p])
      /\ Cardinality(A \cap moved[p]) <= Cardinality(moved[p])
      /\ Cardinality(A \cap moved[p]) \in Nat /\ Cardinality(A \ moved[p]) \in Nat
      /\ Cardinality(moved[p]) \in Nat
    <2>1. /\ Cardinality(A \ moved[p]) = Cardinality(A) - Cardinality(A \cap moved[p])
          /\ IsFiniteSet(A \ moved[p])
        BY <1>1, FS_Difference
    <2>2. /\ Cardinality(A \cap moved[p]) <= Cardinality(moved[p])
          /\ IsFiniteSet(A \cap moved[p])
        BY <1>1, FS_Intersection
    <2>3. /\ Cardinality(A \cap moved[p]) \in Nat /\ Cardinality(A \ moved[p]) \in Nat
          /\ Cardinality(moved[p]) \in Nat /\ Cardinality(A) \in Nat
        BY <1>1, <2>1, <2>2, FS_CardinalityType
    <2> HIDE DEF A
    <2> QED
        BY <2>1, <2>2, <2>3
<1>3. In(s) = Cardinality(A) + Ever(s) /\ Still(s, p) = A \ moved[p] /\ Ever(s) \in Nat
    BY DEF In, Ever, Still, HealthInv
<1> QED
    BY <1>2, <1>3 DEF CountFits

LEMMA CountsOf ==
    /\ Len(Counts) = 5
    /\ \A i \in 1 .. 5 : Counts[i] \in JobSet \ {"none"}
    /\ \A i \in 1 .. 5, s \in Unended : Counts[i] = s <=> Place[s] = i
    /\ \A s \in Unended : s \in JobSet \ {"none"} /\ Place[s] \in 1 .. 5
<1>1. Len(Counts) = 5
    BY DEF Counts
<1>2. /\ Counts[1] = "waiting" /\ Counts[2] = "active" /\ Counts[3] = "completed"
      /\ Counts[4] = "failed" /\ Counts[5] = "delayed"
    BY DEF Counts
<1>3. Place["waiting"] = 1 /\ Place["active"] = 2 /\ Place["delayed"] = 5
    BY DEF Place
<1>4. \A i \in 1 .. 5 : i = 1 \/ i = 2 \/ i = 3 \/ i = 4 \/ i = 5
    OBVIOUS
<1>5. \A i \in 1 .. 5 : Counts[i] \in JobSet \ {"none"}
    BY <1>2, <1>4 DEF JobSet
<1>6. \A i \in 1 .. 5, s \in Unended : Counts[i] = s <=> Place[s] = i
    BY <1>2, <1>3, <1>4 DEF Unended
<1>7. \A s \in Unended : s \in JobSet \ {"none"} /\ Place[s] \in 1 .. 5
    BY <1>3 DEF Unended, JobSet
<1> QED
    BY <1>1, <1>5, <1>6, <1>7

\* A step of one probe, which leaves the jobs where they are.
LEMMA ProbeMoves ==
    ASSUME HealthInv, NEW p \in Probes, NEW q, ProbeFits(q, p),
           probe' = [probe EXCEPT ![p] = q],
           UNCHANGED <<realMode, backlog, redis, jobAt, moved>>
    PROVE  HealthInv'
<1>1. probe' \in [Probes -> ProbeState]
    BY DEF HealthInv, ProbeFits, ProbeOK
<1>2. \A r \in Probes : probe'[r] = IF r = p THEN q ELSE probe[r]
    BY DEF HealthInv
<1>3. \A n, s, r : CountFits(n, s, r)' <=> CountFits(n, s, r)
    BY DEF CountFits, Still, Ever
<1>4. \A r \in Probes : ProbeOK(probe'[r])
    BY <1>2 DEF HealthInv, ProbeFits
<1>5. \A r \in Probes, s \in Unended : Place[s] < probe'[r].next => CountFits(probe'[r].counts[s], s, r)
    BY <1>2 DEF HealthInv, ProbeFits
<1>6. (\A r \in Probes : ProbeOK(probe[r]))'
    BY <1>4
<1>7. (\A r \in Probes : \A s \in Unended :
          Place[s] < probe[r].next => CountFits(probe[r].counts[s], s, r))'
    BY <1>3, <1>5
<1> QED
    BY <1>1, <1>6, <1>7 DEF HealthInv

LEMMA HealthInit_Inv == HealthInit => HealthInv
<1> SUFFICES ASSUME HealthInit PROVE HealthInv
    OBVIOUS
<1>1. NoCounts \in Figures
    BY DEF NoCounts, Figures
<1>2. Idle \in ProbeState
    BY <1>1 DEF Idle, ProbeState, Verdict, Codes
<1>3. ProbeOK(Idle)
    BY <1>2 DEF ProbeOK, Idle
<1>4. \A p \in Probes : probe[p] = Idle
    BY DEF HealthInit
<1>5. \A p \in Probes, s \in Unended : ~(Place[s] < probe[p].next)
    BY <1>4, CountsOf DEF Idle
<1>6. jobAt \in [QueueJobs -> JobSet] /\ moved \in [Probes -> SUBSET QueueJobs]
    BY DEF HealthInit, JobSet
<1> QED
    BY <1>2, <1>3, <1>4, <1>5, <1>6, HealthAssumption DEF HealthInit, HealthInv

\* Lemmas: a field is replaced by a value of its type.
LEMMA WithPc ==
    ASSUME NEW q \in ProbeState, NEW x \in {"idle", "checking", "metrics", "answered"}
    PROVE  [q EXCEPT !.pc = x] \in ProbeState
BY DEF ProbeState

LEMMA WithOf ==
    ASSUME NEW q \in ProbeState, NEW x \in {"health", "metrics"}
    PROVE  [q EXCEPT !.of = x] \in ProbeState
BY DEF ProbeState

LEMMA WithDatabase ==
    ASSUME NEW q \in ProbeState, NEW x \in Verdict
    PROVE  [q EXCEPT !.database = x] \in ProbeState
BY DEF ProbeState

LEMMA WithRedis ==
    ASSUME NEW q \in ProbeState, NEW x \in {"idle", "ping", "info", "healthy", "unhealthy"}
    PROVE  [q EXCEPT !.redis = x] \in ProbeState
BY DEF ProbeState

LEMMA WithQueue ==
    ASSUME NEW q \in ProbeState, NEW x \in {"idle", "counting", "healthy", "degraded", "unhealthy"}
    PROVE  [q EXCEPT !.queue = x] \in ProbeState
BY DEF ProbeState

LEMMA WithSolana ==
    ASSUME NEW q \in ProbeState, NEW x \in {"idle", "slot", "version", "healthy", "unhealthy"}
    PROVE  [q EXCEPT !.solana = x] \in ProbeState
BY DEF ProbeState

LEMMA WithNext ==
    ASSUME NEW q \in ProbeState, NEW x \in 1 .. 6
    PROVE  [q EXCEPT !.next = x] \in ProbeState
BY DEF ProbeState

LEMMA WithCounts ==
    ASSUME NEW q \in ProbeState, NEW x \in Figures
    PROVE  [q EXCEPT !.counts = x] \in ProbeState
BY DEF ProbeState

LEMMA WithCode ==
    ASSUME NEW q \in ProbeState, NEW x \in Codes
    PROVE  [q EXCEPT !.code = x] \in ProbeState
BY DEF ProbeState

LEMMA WithAnswer ==
    ASSUME NEW q \in ProbeState, NEW code \in Codes
    PROVE  LET r == [q EXCEPT !.pc = "answered", !.code = code]
           IN  /\ r \in ProbeState /\ r.pc = "answered" /\ r.of = q.of /\ r.code = code
               /\ r.queue = q.queue /\ r.redis = q.redis /\ r.solana = q.solana
               /\ r.database = q.database /\ r.next = q.next /\ r.counts = q.counts
<1>1. [q EXCEPT !.pc = "answered"] \in ProbeState
    BY WithPc
<1>2. [q EXCEPT !.pc = "answered", !.code = code] \in ProbeState
    BY <1>1, WithCode
<1> QED
    BY <1>2 DEF ProbeState

\* A step that changes no count keeps them fitting.
LEMMA SameCounts ==
    ASSUME HealthInv, NEW p \in Probes, NEW q, ProbeOK(q),
           q.next = probe[p].next, q.counts = probe[p].counts
    PROVE  ProbeFits(q, p)
BY DEF ProbeFits, HealthInv

LEMMA StartProbe_Inv ==
    ASSUME HealthInv, NEW p \in Probes, StartProbe(p)
    PROVE  HealthInv'
<1>1. PICK readyState \in 0 .. 3 :
          probe' = [probe EXCEPT ![p] =
              [@ EXCEPT !.pc = "checking", !.database = DatabaseVerdict(readyState),
                        !.redis = "ping", !.queue = "counting",
                        !.solana = IF realMode THEN "slot" ELSE "healthy"]]
    BY DEF StartProbe
<1> DEFINE q == [probe[p] EXCEPT !.pc = "checking", !.database = DatabaseVerdict(readyState),
                        !.redis = "ping", !.queue = "counting",
                        !.solana = IF realMode THEN "slot" ELSE "healthy"]
<1>2. probe' = [probe EXCEPT ![p] = q]
    BY <1>1 DEF HealthInv
<1>3. ProbeOK(probe[p]) /\ probe[p].pc = "idle" /\ DatabaseVerdict(readyState) \in Verdict
    BY Verdicts DEF HealthInv, StartProbe
<1>4. ProbeOK(q) /\ q.next = probe[p].next /\ q.counts = probe[p].counts
    <2> DEFINE solana == IF realMode THEN "slot" ELSE "healthy"
    <2>1. solana \in {"slot", "healthy"}
        OBVIOUS
    <2>2. q = [probe[p] EXCEPT !.pc = "checking", !.database = DatabaseVerdict(readyState),
                        !.redis = "ping", !.queue = "counting", !.solana = solana]
        OBVIOUS
    <2> HIDE DEF solana, q
    <2>a. probe[p] \in ProbeState
        BY <1>3 DEF ProbeOK
    <2>b. q \in ProbeState
        <3>1. [probe[p] EXCEPT !.pc = "checking"] \in ProbeState
            BY <2>a, WithPc
        <3>2. [probe[p] EXCEPT !.pc = "checking", !.database = DatabaseVerdict(readyState)]
                  \in ProbeState
            BY <1>3, <3>1, WithDatabase
        <3>3. [probe[p] EXCEPT !.pc = "checking", !.database = DatabaseVerdict(readyState),
                               !.redis = "ping"] \in ProbeState
            BY <3>2, WithRedis
        <3>4. [probe[p] EXCEPT !.pc = "checking", !.database = DatabaseVerdict(readyState),
                               !.redis = "ping", !.queue = "counting"] \in ProbeState
            BY <3>3, WithQueue
        <3> QED
            BY <2>1, <2>2, <3>4, WithSolana
    <2>3. /\ q.pc = "checking" /\ q.of = probe[p].of /\ q.code = probe[p].code
          /\ q.queue = "counting" /\ q.next = probe[p].next /\ q.counts = probe[p].counts
        BY <2>2, <2>a DEF ProbeState
    <2>4. probe[p].next = 1 /\ probe[p].of = "health" /\ probe[p].code = 0
        BY <1>3 DEF ProbeOK
    <2> QED
        BY <2>b, <2>3, <2>4 DEF ProbeOK
<1> HIDE DEF q
<1>5. ProbeFits(q, p)
    BY <1>4, SameCounts
<1> QED
    BY <1>2, <1>5, ProbeMoves DEF StartProbe

LEMMA StartMetrics_Inv ==
    ASSUME HealthInv, NEW p \in Probes, StartMetrics(p)
    PROVE  HealthInv'
<1> DEFINE q == [probe[p] EXCEPT !.pc = "metrics", !.of = "metrics"]
<1>1. probe' = [probe EXCEPT ![p] = q]
    BY DEF StartMetrics, HealthInv
<1>2. ProbeOK(probe[p]) /\ probe[p].pc = "idle"
    BY DEF HealthInv, StartMetrics
<1>3. ProbeOK(q) /\ q.next = probe[p].next /\ q.counts = probe[p].counts
    <2>1. probe[p] \in ProbeState
        BY <1>2 DEF ProbeOK
    <2>3. [probe[p] EXCEPT !.pc = "metrics"] \in ProbeState
        BY <2>1, WithPc
    <2>4. q \in ProbeState
        BY <2>3, WithOf
    <2>2. /\ q.pc = "metrics" /\ q.of = "metrics"
          /\ q.queue = probe[p].queue /\ q.redis = probe[p].redis /\ q.solana = probe[p].solana
          /\ q.next = probe[p].next /\ q.counts = probe[p].counts
        BY <2>1 DEF ProbeState
    <2> HIDE DEF q
    <2> QED
        BY <1>2, <2>2, <2>4 DEF ProbeOK
<1> HIDE DEF q
<1>4. ProbeFits(q, p)
    BY <1>3, SameCounts
<1> QED
    BY <1>1, <1>4, ProbeMoves DEF StartMetrics

LEMMA RedisReply_Inv ==
    ASSUME HealthInv, NEW p \in Probes, RedisReply(p)
    PROVE  HealthInv'
<1>1. PICK r \in {"info", "healthy", "unhealthy"} : probe' = [probe EXCEPT ![p].redis = r]
    <2>1. CASE probe' = [probe EXCEPT ![p].redis = IF @ = "ping" THEN "info" ELSE "healthy"]
        <3> DEFINE r == IF probe[p].redis = "ping" THEN "info" ELSE "healthy"
        <3>1. r \in {"info", "healthy", "unhealthy"} /\ probe' = [probe EXCEPT ![p].redis = r]
            BY <2>1 DEF HealthInv
        <3> QED
            BY <3>1
    <2>2. CASE probe' = [probe EXCEPT ![p].redis = "unhealthy"]
        BY <2>2
    <2> QED
        BY <2>1, <2>2 DEF RedisReply
<1> DEFINE q == [probe[p] EXCEPT !.redis = r]
<1>2. probe' = [probe EXCEPT ![p] = q]
    BY <1>1 DEF HealthInv
<1>3. ProbeOK(probe[p]) /\ probe[p].redis \in {"ping", "info"}
    BY DEF HealthInv, RedisReply
<1>4. probe[p].pc = "checking" /\ probe[p].of = "health"
    BY <1>3 DEF ProbeOK, ProbeState, Verdict
<1>5. ProbeOK(q) /\ q.next = probe[p].next /\ q.counts = probe[p].counts
    BY <1>3, <1>4 DEF ProbeOK, ProbeState
<1> HIDE DEF q
<1>6. ProbeFits(q, p)
    BY <1>5, SameCounts
<1> QED
    BY <1>2, <1>6, ProbeMoves DEF RedisReply

LEMMA SolanaReply_Inv ==
    ASSUME HealthInv, NEW p \in Probes, SolanaReply(p)
    PROVE  HealthInv'
<1>1. PICK v \in {"version", "healthy", "unhealthy"} : probe' = [probe EXCEPT ![p].solana = v]
    <2>1. PICK answer \in {"good", "bad"} :
              probe' = [probe EXCEPT ![p].solana =
                          IF answer = "bad" THEN "unhealthy"
                          ELSE IF @ = "slot" THEN "version" ELSE "healthy"]
        BY DEF SolanaReply
    <2> DEFINE v == IF answer = "bad" THEN "unhealthy"
                    ELSE IF probe[p].solana = "slot" THEN "version" ELSE "healthy"
    <2>2. v \in {"version", "healthy", "unhealthy"} /\ probe' = [probe EXCEPT ![p].solana = v]
        BY <2>1 DEF HealthInv
    <2> QED
        BY <2>2
<1> DEFINE q == [probe[p] EXCEPT !.solana = v]
<1>2. probe' = [probe EXCEPT ![p] = q]
    BY <1>1 DEF HealthInv
<1>3. ProbeOK(probe[p]) /\ probe[p].solana \in {"slot", "version"}
    BY DEF HealthInv, SolanaReply
<1>4. probe[p].pc = "checking" /\ probe[p].of = "health"
    BY <1>3 DEF ProbeOK, ProbeState, Verdict
<1>5. ProbeOK(q) /\ q.next = probe[p].next /\ q.counts = probe[p].counts
    BY <1>3, <1>4 DEF ProbeOK, ProbeState
<1> HIDE DEF q
<1>6. ProbeFits(q, p)
    BY <1>5, SameCounts
<1> QED
    BY <1>2, <1>6, ProbeMoves DEF SolanaReply

LEMMA ChecksDone_Inv ==
    ASSUME HealthInv, NEW p \in Probes, ChecksDone(p)
    PROVE  HealthInv'
<1> DEFINE q == [probe[p] EXCEPT !.pc = "metrics"]
<1>1. probe' = [probe EXCEPT ![p] = q]
    BY DEF ChecksDone, HealthInv
<1>2. /\ ProbeOK(probe[p]) /\ probe[p].pc = "checking"
      /\ {probe[p].redis, probe[p].queue, probe[p].solana} \subseteq Verdict
    BY DEF HealthInv, ChecksDone
<1>3. ProbeOK(q) /\ q.next = probe[p].next /\ q.counts = probe[p].counts
    BY <1>2 DEF ProbeOK, ProbeState
<1> HIDE DEF q
<1>4. ProbeFits(q, p)
    BY <1>3, SameCounts
<1> QED
    BY <1>1, <1>4, ProbeMoves DEF ChecksDone

LEMMA MetricsReply_Inv ==
    ASSUME HealthInv, NEW p \in Probes, MetricsReply(p)
    PROVE  HealthInv'
<1>0. /\ SuccessCode(p) \in Codes /\ 500 \in Codes
      /\ probe[p].of = "health" /\ SuccessCode(p) = 200 =>
            "unhealthy" \notin {probe[p].database, probe[p].redis, probe[p].queue, probe[p].solana}
    BY Verdicts DEF SuccessCode, Codes
<1>1. \E code \in Codes :
          /\ probe' = [probe EXCEPT ![p] = [@ EXCEPT !.pc = "answered", !.code = code]]
          /\ probe[p].of = "health" /\ code = 200 =>
                "unhealthy" \notin {probe[p].database, probe[p].redis, probe[p].queue, probe[p].solana}
    <2>1. CASE probe' = [probe EXCEPT ![p] = [@ EXCEPT !.pc = "answered", !.code = SuccessCode(p)]]
        <3> DEFINE code == SuccessCode(p)
        <3>1. /\ code \in Codes
              /\ probe' = [probe EXCEPT ![p] = [@ EXCEPT !.pc = "answered", !.code = code]]
              /\ probe[p].of = "health" /\ code = 200 =>
                    "unhealthy" \notin {probe[p].database, probe[p].redis, probe[p].queue, probe[p].solana}
            BY <1>0, <2>1
        <3> HIDE DEF code
        <3> QED
            BY <3>1
    <2>2. CASE probe' = [probe EXCEPT ![p] = [@ EXCEPT !.pc = "answered", !.code = 500]]
        <3> DEFINE code == 500
        <3>1. /\ code \in Codes /\ code # 200
              /\ probe' = [probe EXCEPT ![p] = [@ EXCEPT !.pc = "answered", !.code = code]]
            BY <1>0, <2>2
        <3> HIDE DEF code
        <3> QED
            BY <3>1
    <2> QED
        BY <2>1, <2>2 DEF MetricsReply
<1>p. PICK code \in Codes :
          /\ probe' = [probe EXCEPT ![p] = [@ EXCEPT !.pc = "answered", !.code = code]]
          /\ probe[p].of = "health" /\ code = 200 =>
                "unhealthy" \notin {probe[p].database, probe[p].redis, probe[p].queue, probe[p].solana}
    BY <1>1
<1> DEFINE q == [probe[p] EXCEPT !.pc = "answered", !.code = code]
<1>2. probe' = [probe EXCEPT ![p] = q]
    BY <1>p DEF HealthInv
<1>3. ProbeOK(probe[p]) /\ probe[p].pc = "metrics"
    BY DEF HealthInv, MetricsReply
<1>5. ProbeOK(q) /\ q.next = probe[p].next /\ q.counts = probe[p].counts
    <2>1. probe[p] \in ProbeState
        BY <1>3 DEF ProbeOK
    <2>2. /\ q \in ProbeState /\ q.pc = "answered" /\ q.of = probe[p].of /\ q.code = code
          /\ q.queue = probe[p].queue /\ q.redis = probe[p].redis /\ q.solana = probe[p].solana
          /\ q.database = probe[p].database
          /\ q.next = probe[p].next /\ q.counts = probe[p].counts
        BY <2>1, WithAnswer
    <2> HIDE DEF q
    <2> QED
        BY <1>p, <1>3, <2>2 DEF ProbeOK
<1> HIDE DEF q
<1>6. ProbeFits(q, p)
    BY <1>5, SameCounts
<1> QED
    BY <1>2, <1>6, ProbeMoves DEF MetricsReply

LEMMA CountReply_Inv ==
    ASSUME HealthInv, NEW p \in Probes, CountReply(p)
    PROVE  HealthInv'
<1>0. /\ ProbeOK(probe[p]) /\ probe[p].queue = "counting"
      /\ probe[p] \in ProbeState /\ probe[p].next \in 1 .. 5
    BY DEF HealthInv, CountReply, ProbeOK, ProbeState
<1>c. probe[p].pc = "checking" /\ probe[p].of = "health"
    BY <1>0 DEF ProbeOK, ProbeState, Verdict
<1>1. CASE probe' = [probe EXCEPT ![p].queue = "unhealthy"]
    <2> DEFINE q == [probe[p] EXCEPT !.queue = "unhealthy"]
    <2>1. probe' = [probe EXCEPT ![p] = q]
        BY <1>1 DEF HealthInv
    <2>2. ProbeOK(q) /\ q.next = probe[p].next /\ q.counts = probe[p].counts
        BY <1>0, <1>c DEF ProbeOK, ProbeState
    <2> HIDE DEF q
    <2>3. ProbeFits(q, p)
        BY <2>2, SameCounts
    <2> QED
        BY <2>1, <2>3, ProbeMoves DEF CountReply
<1>2. CASE ~(probe' = [probe EXCEPT ![p].queue = "unhealthy"])
    <2> DEFINE i == probe[p].next
               n == [probe[p].counts EXCEPT ![Counts[i]] = In(Counts[i])]
               queue == IF i = Len(Counts) THEN QueueVerdict(n) ELSE "counting"
               q == [probe[p] EXCEPT !.counts = n, !.next = i + 1, !.queue = queue]
    <2>1. probe' = [probe EXCEPT ![p] =
                    [@ EXCEPT !.counts = n, !.next = i + 1,
                              !.queue = IF i = Len(Counts) THEN QueueVerdict(n) ELSE "counting"]]
        BY <1>2, Zenon DEF CountReply
    <2> HIDE DEF n, i
    <2>2. probe' = [probe EXCEPT ![p] = q]
        BY <2>1 DEF HealthInv
    <2> USE DEF n, i
    <2>3. i \in 1 .. 5 /\ Counts[i] \in JobSet \ {"none"} /\ probe[p].counts \in Figures
        BY <1>0, CountsOf DEF ProbeState
    <2>4. In(Counts[i]) \in Nat
        <3>1. IsFiniteSet({j \in QueueJobs : jobAt[j] = Counts[i]})
            BY FS_Subset, HealthAssumption
        <3>2. Cardinality({j \in QueueJobs : jobAt[j] = Counts[i]}) \in Nat
            BY <3>1, FS_CardinalityType
        <3> QED
            BY <3>2 DEF In, HealthInv
    <2>5. n \in Figures
        BY <2>3, <2>4 DEF Figures
    <2>6. queue \in Verdict \cup {"counting"} /\ (i # 5 => queue = "counting")
          /\ (i = 5 => queue \in Verdict)
        BY <1>0, <2>5, Verdicts, CountsOf
    <2>7. /\ \A s \in Unended : s = Counts[i] => n[s] = In(s)
          /\ \A s \in Unended : s # Counts[i] => n[s] = probe[p].counts[s]
        BY <2>3, CountsOf DEF Figures
    <2> HIDE DEF n, queue, i
    <2>8. /\ q \in ProbeState /\ q.next = i + 1 /\ q.counts = n /\ q.queue = queue
          /\ q.pc = "checking" /\ q.of = "health" /\ q.code = 0
        <3>1. /\ queue \in {"idle", "counting", "healthy", "degraded", "unhealthy"}
              /\ i + 1 \in 1 .. 6 /\ n \in Figures
            BY <2>3, <2>5, <2>6 DEF Verdict
        <3>2. q \in ProbeState
            <4>1. [probe[p] EXCEPT !.counts = n] \in ProbeState
                BY <1>0, <3>1, WithCounts
            <4>2. [probe[p] EXCEPT !.counts = n, !.next = i + 1] \in ProbeState
                BY <3>1, <4>1, WithNext
            <4> QED
                BY <3>1, <4>2, WithQueue
        <3>3. /\ q.next = i + 1 /\ q.counts = n /\ q.queue = queue
              /\ q.pc = probe[p].pc /\ q.of = probe[p].of /\ q.code = probe[p].code
            BY <1>0 DEF ProbeState
        <3>4. probe[p].code = 0
            BY <1>0, <1>c DEF ProbeOK
        <3> HIDE DEF q
        <3> QED
            BY <1>c, <3>2, <3>3, <3>4
    <2>9. ProbeOK(q)
        BY <2>3, <2>6, <2>8 DEF ProbeOK, Verdict
    <2>10. ASSUME NEW s \in Unended, Place[s] < q.next
           PROVE  CountFits(q.counts[s], s, p)
        <3>1. CASE s = Counts[i]
            BY <2>7, <2>8, <3>1, FreshCount
        <3>2. CASE s # Counts[i]
            <4>1. Place[s] < i
                BY <2>3, <2>8, <2>10, <3>2, CountsOf
            <4>2. CountFits(probe[p].counts[s], s, p)
                BY <4>1 DEF HealthInv, i
            <4> QED
                BY <2>7, <2>8, <3>2, <4>2
        <3> QED
            BY <3>1, <3>2
    <2> HIDE DEF q
    <2>11. ProbeFits(q, p)
        BY <2>9, <2>10 DEF ProbeFits
    <2> QED
        BY <2>2, <2>11, ProbeMoves DEF CountReply
<1> QED
    BY <1>1, <1>2

LEMMA MoveJob_Inv ==
    ASSUME HealthInv, NEW j \in QueueJobs, MoveJob(j)
    PROVE  HealthInv'
<1>1. PICK to \in JobSet : jobAt' = [jobAt EXCEPT ![j] = to]
    BY DEF MoveJob
<1>2. /\ moved' = [p \in Probes |-> IF probe[p].pc = "idle" THEN {} ELSE moved[p] \cup {j}]
      /\ UNCHANGED <<realMode, backlog, redis, probe>>
    BY DEF MoveJob
<1>3. jobAt' \in [QueueJobs -> JobSet] /\ moved' \in [Probes -> SUBSET QueueJobs]
    BY <1>1, <1>2 DEF HealthInv
<1>4. ASSUME NEW p \in Probes, NEW s \in Unended, Place[s] < probe[p].next
      PROVE  CountFits(probe[p].counts[s], s, p)'
    <2>1. probe[p].pc # "idle"
        BY <1>4, CountsOf DEF HealthInv, ProbeOK
    <2>2. moved'[p] = moved[p] \cup {j} /\ moved[p] \in SUBSET QueueJobs
        BY <1>2, <2>1 DEF HealthInv
    <2>3. Still(s, p)' = Still(s, p) \ {j}
        <3>1. \A i \in QueueJobs : i # j => jobAt'[i] = jobAt[i]
            BY <1>1 DEF HealthInv
        <3>2. \A i \in QueueJobs : i \notin moved'[p] => i # j /\ i \notin moved[p]
            BY <2>2
        <3>3. \A i : i \in Still(s, p)' <=> i \in Still(s, p) \ {j}
            BY <2>2, <3>1, <3>2 DEF Still
        <3> QED
            BY <3>3
    <2>4. IsFiniteSet(Still(s, p)) /\ IsFiniteSet(moved[p]) /\ Still(s, p) \cap moved[p] = {}
        <3>1. Still(s, p) \in SUBSET QueueJobs
            BY DEF Still
        <3> QED
            BY <2>2, <3>1, FS_Subset, HealthAssumption DEF Still
    <2>5. CountFits(probe[p].counts[s], s, p)
        BY <1>4 DEF HealthInv
    <2>6. probe[p].counts[s] \in Nat /\ Ever(s) \in Nat
        BY CountsOf DEF HealthInv, ProbeState, Figures, Ever
    <2> DEFINE S == Still(s, p)
               M == moved[p]
    <2>7. /\ Cardinality(S) \in Nat /\ Cardinality(M) \in Nat
          /\ Cardinality(S \ {j}) \in Nat /\ Cardinality(M \cup {j}) \in Nat
          /\ Cardinality(S \ {j}) <= Cardinality(S)
          /\ Cardinality(S) + Cardinality(M) <= Cardinality(S \ {j}) + Cardinality(M \cup {j})
        BY <2>4, OneMoves
    <2>8. /\ Cardinality(S \ {j}) + Ever(s) <= probe[p].counts[s]
          /\ probe[p].counts[s] <= Cardinality(S \ {j}) + Cardinality(M \cup {j}) + Ever(s)
        <3>1. /\ Cardinality(S) + Ever(s) <= probe[p].counts[s]
              /\ probe[p].counts[s] <= Cardinality(S) + Cardinality(M) + Ever(s)
            BY <2>5 DEF CountFits
        <3> HIDE DEF S, M
        <3> QED
            BY <2>6, <2>7, <3>1
    <2>9. Ever(s)' = Ever(s) /\ probe' = probe
        BY <1>2 DEF Ever
    <2> QED
        BY <2>2, <2>3, <2>8, <2>9 DEF CountFits
<1>5. (\A p \in Probes : ProbeOK(probe[p]))'
    BY <1>2 DEF HealthInv
<1>6. (\A p \in Probes : \A s \in Unended :
          Place[s] < probe[p].next => CountFits(probe[p].counts[s], s, p))'
    BY <1>2, <1>4
<1> QED
    BY <1>2, <1>3, <1>5, <1>6 DEF HealthInv

LEMMA HealthNext_Inv == HealthInv /\ [HealthNext]_healthVars => HealthInv'
<1> SUFFICES ASSUME HealthInv, [HealthNext]_healthVars PROVE HealthInv'
    OBVIOUS
<1>1. ASSUME NEW p \in Probes, StartProbe(p) PROVE HealthInv'
    BY <1>1, StartProbe_Inv
<1>2. ASSUME NEW p \in Probes, StartMetrics(p) PROVE HealthInv'
    BY <1>2, StartMetrics_Inv
<1>3. ASSUME NEW p \in Probes, ProbeStep(p) PROVE HealthInv'
    BY <1>3, RedisReply_Inv, CountReply_Inv, SolanaReply_Inv, ChecksDone_Inv, MetricsReply_Inv
    DEF ProbeStep
<1>4. ASSUME NEW j \in QueueJobs, MoveJob(j) PROVE HealthInv'
    BY <1>4, MoveJob_Inv
<1>n. \A n, s, p : UNCHANGED <<backlog, jobAt, moved>> => (CountFits(n, s, p)' <=> CountFits(n, s, p))
    BY DEF CountFits, Still, Ever
<1>5. CASE RedisChanges
    BY <1>5, <1>n DEF RedisChanges, HealthInv
<1>6. CASE UNCHANGED healthVars
    BY <1>6, <1>n DEF healthVars, HealthInv
<1> QED
    BY <1>1, <1>2, <1>3, <1>4, <1>5, <1>6 DEF HealthNext

\* GET /health of app.ts: however the checks overlap with each other and with the queue,
\* 200 is answered only if each part was found fit.
THEOREM TrafficNeedsAll == HealthSpec => []TrafficNeedsAllParts
<1>1. ASSUME HealthInv, NEW p \in Probes, probe[p].of = "health", probe[p].code = 200
      PROVE  /\ probe[p].database # "unhealthy"
             /\ probe[p].redis = "healthy" /\ Counted(p)
             /\ probe[p].queue # "unhealthy"
             /\ probe[p].solana = "healthy"
    <2>1. /\ probe[p] \in ProbeState /\ probe[p].pc = "answered"
          /\ "unhealthy" \notin {probe[p].database, probe[p].redis, probe[p].queue, probe[p].solana}
          /\ {probe[p].redis, probe[p].queue, probe[p].solana} \subseteq Verdict
          /\ probe[p].queue \in {"healthy", "degraded"} => probe[p].next = 6
        BY <1>1 DEF HealthInv, ProbeOK
    <2>2. /\ probe[p].redis = "healthy" /\ probe[p].solana = "healthy"
          /\ probe[p].queue \in {"healthy", "degraded"}
        BY <2>1 DEF ProbeState, Verdict
    <2> QED
        BY <2>1, <2>2, CountsOf DEF Counted
<1>2. HealthInv => TrafficNeedsAllParts
    BY <1>1 DEF TrafficNeedsAllParts
<1> QED
    BY HealthInit_Inv, HealthNext_Inv, <1>2, PTL DEF HealthSpec

\* getQueueMetrics: for any number of jobs that move while the five counts are taken, the
\* total is that of the jobs that kept their place, and at most three more for each other.
THEOREM TotalsAreClose == HealthSpec => []StillJobsCountOnce
<1>1. ASSUME HealthInv, NEW p \in Probes, Counted(p)
      PROVE  LET still == Cardinality(UnfinishedNow \ moved[p]) + backlog
                 total == Unfinished(probe[p].counts)
             IN  still <= total /\ total <= still + 3 * Cardinality(moved[p])
    <2> DEFINE W == Still("waiting", p)
               A == Still("active", p)
               D == Still("delayed", p)
               n == probe[p].counts
    <2>1. IsFiniteSet(W) /\ IsFiniteSet(A) /\ IsFiniteSet(D) /\ IsFiniteSet(moved[p])
        <3>1. W \in SUBSET QueueJobs /\ A \in SUBSET QueueJobs /\ D \in SUBSET QueueJobs
              /\ moved[p] \in SUBSET QueueJobs
            BY <1>1 DEF Still, HealthInv
        <3> QED
            BY <3>1, FS_Subset, HealthAssumption
    <2>2. /\ UnfinishedNow \ moved[p] = (W \cup A) \cup D
          /\ W \cap A = {} /\ (W \cup A) \cap D = {}
        BY DEF UnfinishedNow, Still
    <2>3. Cardinality((W \cup A) \cup D) = Cardinality(W) + Cardinality(A) + Cardinality(D)
        <3>1. /\ IsFiniteSet(W \cup A)
              /\ Cardinality(W \cup A) = Cardinality(W) + Cardinality(A) - Cardinality(W \cap A)
            BY <2>1, FS_Union
        <3>2. Cardinality((W \cup A) \cup D)
                = Cardinality(W \cup A) + Cardinality(D) - Cardinality((W \cup A) \cap D)
            BY <2>1, <3>1, FS_Union
        <3>3. Cardinality(W \cap A) = 0 /\ Cardinality((W \cup A) \cap D) = 0
            BY <2>2, FS_EmptySet
        <3>4. Cardinality(W) \in Nat /\ Cardinality(A) \in Nat /\ Cardinality(D) \in Nat
            BY <2>1, FS_CardinalityType
        <3> HIDE DEF W, A, D
        <3>5. Cardinality(W \cup A) = Cardinality(W) + Cardinality(A)
            BY <3>1, <3>3, <3>4
        <3> QED
            BY <3>2, <3>3, <3>4, <3>5
    <2>4. Place["waiting"] = 1 /\ Place["active"] = 2 /\ Place["delayed"] = 5
        BY DEF Place
    <2>5. probe[p].next > 5 /\ probe[p].next \in Nat
        BY <1>1, CountsOf DEF Counted, HealthInv, ProbeState
    <2>6. /\ CountFits(n["waiting"], "waiting", p) /\ CountFits(n["active"], "active", p)
          /\ CountFits(n["delayed"], "delayed", p)
        BY <1>1, <2>4, <2>5 DEF HealthInv, Unended
    <2>7. Ever("waiting") = backlog /\ Ever("active") = 0 /\ Ever("delayed") = 0 /\ backlog \in Nat
        BY <1>1 DEF Ever, HealthInv
    <2>8. /\ n["waiting"] \in Nat /\ n["active"] \in Nat /\ n["delayed"] \in Nat
          /\ Cardinality(W) \in Nat /\ Cardinality(A) \in Nat /\ Cardinality(D) \in Nat
          /\ Cardinality(moved[p]) \in Nat
        BY <1>1, <2>1, FS_CardinalityType DEF HealthInv, ProbeState, Figures, JobSet
    <2>9. /\ Cardinality(W) + backlog <= n["waiting"]
          /\ n["waiting"] <= Cardinality(W) + Cardinality(moved[p]) + backlog
          /\ Cardinality(A) <= n["active"] /\ n["active"] <= Cardinality(A) + Cardinality(moved[p])
          /\ Cardinality(D) <= n["delayed"] /\ n["delayed"] <= Cardinality(D) + Cardinality(moved[p])
        BY <2>6, <2>7, <2>8 DEF CountFits
    <2>10. /\ Cardinality(UnfinishedNow \ moved[p]) = Cardinality(W) + Cardinality(A) + Cardinality(D)
           /\ Unfinished(probe[p].counts) = n["waiting"] + n["active"] + n["delayed"]
        BY <2>2, <2>3 DEF Unfinished
    <2> HIDE DEF W, A, D, n
    <2> QED
        BY <2>7, <2>8, <2>9, <2>10
<1>2. HealthInv => StillJobsCountOnce
    BY <1>1 DEF StillJobsCountOnce
<1> QED
    BY HealthInit_Inv, HealthNext_Inv, <1>2, PTL DEF HealthSpec

-----------------------------------------------------------------------------
(***************************************************************************)
(* The requests that create orders: what is taken and what is answered.    *)
(***************************************************************************)

\* createOrder gets an order of b into the collection.
Creates(b) == b.pair = "supported" /\ SchemaTakes(OrderOf(b))

\* An order the worker and the monitor can take.
Sound(d) ==
    /\ d.type \in OrderType
    /\ d.amount \in Int /\ d.amount > 0
    /\ d.slippage \in 0 .. 100
    /\ d.type = "limit" =>
          d.limitPrice \in Int /\ d.limitPrice > 0 /\ d.expiresAt \in 1 .. 30
    /\ d.type = "market" => d.limitPrice = Absent /\ d.expiresAt = Absent

LEMMA ValuesDiffer ==
    /\ Absent \notin Int /\ Null \notin Int /\ Text \notin Int
    /\ Absent # Null /\ Null # Text /\ Text # Absent
    /\ ~IsNumber(Absent) /\ ~IsNumber(Null) /\ ~IsNumber(Text)
BY JsAssumption DEF IsNumber

\* What the numbers are, whichever way they come.
LEMMA Numbers ==
    ASSUME NEW v \in JsValue
    PROVE  /\ IsNumber(v) \/ v \in {Absent, Null, Text}
           /\ IsNumber(v) => Number(v) \in Int /\ Cast(v) = Number(v)
           /\ v \in Int => Number(v) = v /\ v \notin Numerals
           /\ ~IsNumber(v) => Cast(v) = v
BY JsAssumption DEF IsNumber, Number, Cast, JsValue

LEMMA JsComparisons ==
    ASSUME NEW v \in JsValue, NEW n \in Int
    PROVE  /\ Below(v, n) <=> (IsNumber(v) /\ Number(v) < n) \/ (v = Null /\ 0 < n)
           /\ AtMost(v, n) <=> (IsNumber(v) /\ Number(v) <= n) \/ (v = Null /\ 0 <= n)
           /\ Above(v, n) <=> (IsNumber(v) /\ Number(v) > n) \/ (v = Null /\ 0 > n)
<1>1. Number(Null) = 0
    BY JsAssumption DEF Number
<1>2. Numeric(v) <=> IsNumber(v) \/ v = Null
    BY DEF Numeric, IsNumber
<1> QED
    BY <1>1, <1>2, ValuesDiffer DEF Below, AtMost, Above

LEMMA OrderFields ==
    ASSUME NEW b
    PROVE  /\ OrderOf(b).type = b.type /\ OrderOf(b).amount = b.amount
           /\ OrderOf(b).slippage = IF Falsy(b.slippage) THEN DefaultSlippage ELSE b.slippage
           /\ OrderOf(b).limitPrice = b.limitPrice
           /\ Given(b.expiresAt) => OrderOf(b).expiresAt = b.expiresAt
           /\ ~Given(b.expiresAt) /\ b.type = "limit" => OrderOf(b).expiresAt = 1
           /\ ~Given(b.expiresAt) /\ b.type # "limit" => OrderOf(b).expiresAt = Absent
           /\ OrderOf(b).status = IF b.type = "limit" THEN "WAITING_FOR_PRICE" ELSE "PENDING"
BY DEF OrderOf

LEMMA StoredFields ==
    ASSUME NEW b
    PROVE  LET d == OrderOf(b)
               s == CastOrder(d)
           IN  /\ s.type = d.type /\ s.amount = Cast(d.amount) /\ s.slippage = Cast(d.slippage)
               /\ s.limitPrice = Cast(d.limitPrice) /\ s.expiresAt = d.expiresAt
BY DEF OrderOf, CastOrder

\* What is left of the fields when nothing refuses them.
LEMMA TakenFields ==
    ASSUME NEW b \in RequestBody, ~Refused(b)
    PROVE  /\ b.type \in OrderType /\ b.pair \in {"supported", "unsupported"}
           /\ b.amount = Text \/ (IsNumber(b.amount) /\ Number(b.amount) > 0)
           /\ \/ b.slippage \in {Absent, Null, Text}
              \/ IsNumber(b.slippage) /\ Number(b.slippage) \in 0 .. 100
           /\ b.type = "limit" =>
                 /\ b.limitPrice = Text \/ (IsNumber(b.limitPrice) /\ Number(b.limitPrice) > 0)
                 /\ b.expiresAt \in {Absent, Null} \/ b.expiresAt \in 1 .. 30
           /\ b.type = "market" => b.limitPrice = Absent /\ b.expiresAt = Absent
<1>1. /\ b.amount \in JsValue /\ b.slippage \in JsValue /\ b.limitPrice \in JsValue
      /\ b.expiresAt \in JsValue \ Numerals /\ b.pair \in {"supported", "unsupported", "absent"}
    BY DEF RequestBody
<1>2. /\ b.type # "absent" /\ b.pair # "absent" /\ ~Falsy(b.amount) /\ b.type \in OrderType
      /\ ~AtMost(b.amount, 0) /\ ~Below(b.slippage, 0) /\ ~Above(b.slippage, 100)
      /\ ~BadLimit(b) /\ ~BadMarket(b)
    BY DEF Refused
<1>3. b.amount = Text \/ (IsNumber(b.amount) /\ Number(b.amount) > 0)
    BY <1>1, <1>2, JsComparisons, Numbers DEF Falsy
<1>4. \/ b.slippage \in {Absent, Null, Text}
      \/ IsNumber(b.slippage) /\ Number(b.slippage) \in 0 .. 100
    <2>1. CASE IsNumber(b.slippage)
        <3>1. Number(b.slippage) \in Int
            BY <1>1, <2>1, Numbers
        <3>2. ~(Number(b.slippage) < 0) /\ ~(Number(b.slippage) > 100)
            <4>1. /\ Below(b.slippage, 0) <=> (IsNumber(b.slippage) /\ Number(b.slippage) < 0)
                                                \/ (b.slippage = Null /\ 0 < 0)
                  /\ Above(b.slippage, 100) <=> (IsNumber(b.slippage) /\ Number(b.slippage) > 100)
                                                  \/ (b.slippage = Null /\ 0 > 100)
                BY <1>1, JsComparisons
            <4>2. QED
                BY <1>2, <2>1, <4>1
        <3>3. QED
            BY <2>1, <3>1, <3>2
    <2>2. CASE ~IsNumber(b.slippage)
        BY <1>1, <2>2, Numbers
    <2>3. QED
        BY <2>1, <2>2
<1>5. ASSUME b.type = "limit"
      PROVE  /\ b.limitPrice = Text \/ (IsNumber(b.limitPrice) /\ Number(b.limitPrice) > 0)
             /\ b.expiresAt \in {Absent, Null} \/ b.expiresAt \in 1 .. 30
    <2>1. ~Falsy(b.limitPrice) /\ ~AtMost(b.limitPrice, 0)
        BY <1>2, <1>5 DEF BadLimit
    <2>2. Given(b.expiresAt) =>
              b.expiresAt # Text /\ ~AtMost(b.expiresAt, 0) /\ ~Above(b.expiresAt, 30)
        BY <1>2, <1>5 DEF BadLimit
    <2>3. b.limitPrice = Text \/ (IsNumber(b.limitPrice) /\ Number(b.limitPrice) > 0)
        BY <1>1, <2>1, JsComparisons, Numbers DEF Falsy
    <2>4. b.expiresAt \in {Absent, Null} \/ b.expiresAt \in 1 .. 30
        <3>1. b.expiresAt \in {Absent, Null, Text} \/ b.expiresAt \in Int
            BY <1>1 DEF JsValue
        <3>2. b.expiresAt \in Int => IsNumber(b.expiresAt) /\ Number(b.expiresAt) = b.expiresAt
            BY <1>1, Numbers DEF IsNumber
        <3> QED
            BY <1>1, <2>2, <3>1, <3>2, JsComparisons DEF Given
    <2> QED
        BY <2>3, <2>4
<1>6. b.type = "market" => b.limitPrice = Absent /\ b.expiresAt = Absent
    BY <1>2 DEF BadMarket
<1> QED
    BY <1>1, <1>2, <1>3, <1>4, <1>5, <1>6

\* The slippage of the order: the default or the one asked for, which is 0 as text only.
LEMMA TakenSlippage ==
    ASSUME NEW b \in RequestBody, ~Refused(b), OrderOf(b).slippage # Text
    PROVE  /\ Cast(OrderOf(b).slippage) \in 0 .. 100
           /\ Cast(OrderOf(b).slippage) = 0 => b.slippage \in Numerals
<1>1. b.slippage \in JsValue
    BY DEF RequestBody
<1>2. CASE Falsy(b.slippage)
    <2>1. OrderOf(b).slippage = DefaultSlippage /\ DefaultSlippage \in 1 .. 100
        BY <1>2, OrderFields, RequestsAssumption
    <2>2. DefaultSlippage \in JsValue /\ DefaultSlippage \in Int /\ IsNumber(DefaultSlippage)
        BY <2>1 DEF JsValue, IsNumber
    <2>3. Cast(DefaultSlippage) = DefaultSlippage
        BY <2>2, Numbers
    <2> QED
        BY <2>1, <2>3
<1>3. CASE ~Falsy(b.slippage)
    <2>1. OrderOf(b).slippage = b.slippage /\ b.slippage \notin {Absent, Null, Text}
        BY <1>3, OrderFields DEF Falsy
    <2>2. /\ IsNumber(b.slippage) /\ Number(b.slippage) \in 0 .. 100
          /\ Cast(b.slippage) = Number(b.slippage)
        BY <1>1, <2>1, TakenFields, Numbers
    <2>3. b.slippage \in Int => Number(b.slippage) = b.slippage /\ b.slippage # 0
        BY <1>1, <1>3, Numbers DEF Falsy
    <2> QED
        BY <2>1, <2>2, <2>3 DEF IsNumber
<1> QED
    BY <1>2, <1>3

LEMMA TakenOrdersAreSound ==
    ASSUME NEW b \in RequestBody, ~Refused(b), Creates(b)
    PROVE  /\ Sound(CastOrder(OrderOf(b)))
           /\ CastOrder(OrderOf(b)).slippage = 0 => b.slippage \in Numerals
<1> DEFINE d == OrderOf(b)
           s == CastOrder(d)
<1>0. /\ b.amount \in JsValue /\ b.limitPrice \in JsValue
    BY DEF RequestBody
<1>1. Text \notin {d.amount, d.slippage, d.limitPrice, d.expiresAt}
    BY DEF Creates, SchemaTakes
<1>2. Cast(b.amount) \in Int /\ Cast(b.amount) > 0
    BY <1>0, <1>1, TakenFields, OrderFields, Numbers
<1>3. Cast(d.slippage) \in 0 .. 100 /\ (Cast(d.slippage) = 0 => b.slippage \in Numerals)
    BY <1>1, TakenSlippage
<1>4. ASSUME b.type = "limit"
      PROVE  Cast(b.limitPrice) \in Int /\ Cast(b.limitPrice) > 0 /\ d.expiresAt \in 1 .. 30
    <2>1. Cast(b.limitPrice) \in Int /\ Cast(b.limitPrice) > 0
        BY <1>0, <1>1, <1>4, TakenFields, OrderFields, Numbers
    <2>2. CASE Given(b.expiresAt)
        BY <1>4, <2>1, <2>2, TakenFields, OrderFields DEF Given
    <2>3. CASE ~Given(b.expiresAt)
        BY <1>4, <2>1, <2>3, OrderFields
    <2> QED
        BY <2>2, <2>3
<1>5. ASSUME b.type = "market"
      PROVE  Cast(b.limitPrice) = Absent /\ d.expiresAt = Absent
    BY <1>0, <1>5, TakenFields, OrderFields, Numbers, ValuesDiffer DEF Given
<1>6. /\ s.type = b.type /\ s.amount = Cast(b.amount) /\ s.limitPrice = Cast(b.limitPrice)
      /\ s.slippage = Cast(d.slippage) /\ s.expiresAt = d.expiresAt /\ b.type \in OrderType
    BY OrderFields, StoredFields, TakenFields
<1> HIDE DEF d, s
<1>7. Sound(s)
    BY <1>2, <1>3, <1>4, <1>5, <1>6 DEF Sound
<1> QED
    BY <1>3, <1>6, <1>7 DEF d, s

\* A slippage that the handler lets pass is no reason for the schema to refuse the order.
LEMMA SlippagePasses ==
    ASSUME NEW b, b.slippage # Text, ~Below(b.slippage, 0), ~Above(b.slippage, 100)
    PROVE  LET v == OrderOf(b).slippage IN v # Text /\ ~Below(v, 0) /\ ~Above(v, 100)
<1>1. CASE Falsy(b.slippage)
    <2>1. OrderOf(b).slippage = DefaultSlippage /\ DefaultSlippage \in 1 .. 100
        BY <1>1, OrderFields, RequestsAssumption
    <2>2. DefaultSlippage \in JsValue /\ DefaultSlippage \in Int /\ DefaultSlippage # Null
        BY <2>1, ValuesDiffer DEF JsValue
    <2>3. Number(DefaultSlippage) = DefaultSlippage /\ DefaultSlippage # Text
        BY <2>2, Numbers, ValuesDiffer
    <2>4. ~Below(DefaultSlippage, 0) /\ ~Above(DefaultSlippage, 100)
        BY <2>1, <2>3 DEF Below, Above
    <2> QED
        BY <2>1, <2>3, <2>4
<1>2. CASE ~Falsy(b.slippage)
    BY <1>2, OrderFields
<1> QED
    BY <1>1, <1>2

LEMMA WellFormedIsTaken ==
    ASSUME NEW b \in RequestBody, WellFormed(b)
    PROVE  ~Refused(b) /\ Creates(b)
<1>1. /\ b.amount \in JsValue /\ b.slippage \in JsValue /\ b.limitPrice \in JsValue
      /\ b.expiresAt \in JsValue
    BY DEF RequestBody
<1>2. /\ ~Falsy(b.amount) /\ ~AtMost(b.amount, 0) /\ ~Below(b.amount, 0) /\ b.amount # Text
    BY <1>1, ValuesDiffer, JsComparisons, Numbers DEF WellFormed, Falsy
<1>3. ~Below(b.slippage, 0) /\ ~Above(b.slippage, 100) /\ b.slippage # Text
    BY <1>1, ValuesDiffer, JsComparisons, Numbers DEF WellFormed
<1>4. ASSUME b.type = "limit"
      PROVE  /\ ~Falsy(b.limitPrice) /\ ~AtMost(b.limitPrice, 0) /\ ~Below(b.limitPrice, 0)
             /\ b.limitPrice # Text /\ b.expiresAt # Text
             /\ Given(b.expiresAt) => ~AtMost(b.expiresAt, 0) /\ ~Above(b.expiresAt, 30)
    <2>1. IsNumber(b.limitPrice) /\ Number(b.limitPrice) > 0
        BY <1>4 DEF WellFormed
    <2>2. b.expiresAt \in {Absent, Null} \/ b.expiresAt \in 1 .. 30
        BY <1>4 DEF WellFormed
    <2>3. /\ ~Falsy(b.limitPrice) /\ ~AtMost(b.limitPrice, 0) /\ ~Below(b.limitPrice, 0)
          /\ b.limitPrice # Text
        BY <1>1, <2>1, ValuesDiffer, JsComparisons, Numbers DEF Falsy
    <2>4. /\ b.expiresAt # Text
          /\ Given(b.expiresAt) => ~AtMost(b.expiresAt, 0) /\ ~Above(b.expiresAt, 30)
        BY <1>1, <2>2, ValuesDiffer, JsComparisons, Numbers DEF Given
    <2> QED
        BY <2>3, <2>4
<1>5. ASSUME b.type = "market"
      PROVE  /\ b.limitPrice = Absent /\ b.expiresAt = Absent
             /\ ~Below(b.limitPrice, 0) /\ b.limitPrice # Text
    BY <1>1, <1>5, ValuesDiffer, JsComparisons DEF WellFormed
<1>6. b.type \in {"market", "limit"} /\ b.pair = "supported"
    BY DEF WellFormed
<1>7. ~BadLimit(b) /\ ~BadMarket(b)
    BY <1>4, <1>5 DEF BadLimit, BadMarket
<1>8. ~Refused(b)
    BY <1>2, <1>3, <1>6, <1>7 DEF Refused, OrderType
<1> DEFINE d == OrderOf(b)
<1>9. d.amount = b.amount /\ d.limitPrice = b.limitPrice
    BY OrderFields
<1>10. d.slippage # Text /\ ~Below(d.slippage, 0) /\ ~Above(d.slippage, 100)
    BY <1>3, SlippagePasses
<1>11. d.expiresAt # Text
    BY <1>4, <1>5, <1>6, OrderFields, ValuesDiffer
<1>12. b.limitPrice # Text /\ ~Below(b.limitPrice, 0)
    BY <1>4, <1>5, <1>6
<1> HIDE DEF d
<1>13. SchemaTakes(d)
    BY <1>2, <1>9, <1>10, <1>11, <1>12 DEF SchemaTakes
<1> QED
    BY <1>6, <1>8, <1>13 DEF Creates, d

LEMMA TakenIsWellFormed ==
    ASSUME NEW b \in RequestBody, ~Refused(b), Creates(b)
    PROVE  WellFormed(b) \/ b.type = "sniper"
<1> SUFFICES ASSUME b.type # "sniper" PROVE WellFormed(b)
    OBVIOUS
<1> DEFINE d == OrderOf(b)
<1>1. Text \notin {d.amount, d.slippage, d.limitPrice, d.expiresAt} /\ b.pair = "supported"
    BY DEF Creates, SchemaTakes
<1>2. d.amount = b.amount /\ d.limitPrice = b.limitPrice
      /\ (b.slippage = Text => d.slippage = Text)
    BY OrderFields, ValuesDiffer DEF Falsy
<1>3. b.type \in {"market", "limit"}
    BY TakenFields DEF OrderType
<1> HIDE DEF d
<1>4. IsNumber(b.amount) /\ Number(b.amount) > 0
    BY <1>1, <1>2, TakenFields
<1>5. b.slippage \in {Absent, Null} \/ (IsNumber(b.slippage) /\ Number(b.slippage) \in 0 .. 100)
    BY <1>1, <1>2, TakenFields
<1>6. b.type = "limit" =>
          /\ IsNumber(b.limitPrice) /\ Number(b.limitPrice) > 0
          /\ b.expiresAt \in {Absent, Null} \cup 1 .. 30
    BY <1>1, <1>2, TakenFields
<1>7. b.type = "market" => b.limitPrice = Absent /\ b.expiresAt = Absent
    BY TakenFields
<1> QED
    BY <1>1, <1>3, <1>4, <1>5, <1>6, <1>7 DEF WellFormed

LEMMA FailedIsUnseen ==
    ASSUME NEW b \in RequestBody, ~Refused(b), ~Creates(b)
    PROVE  Unseen(b)
<1> SUFFICES ASSUME ~Unseen(b) PROVE Creates(b)
    OBVIOUS
<1> DEFINE d == OrderOf(b)
<1>1. /\ b.pair = "supported"
      /\ b.amount # Text /\ b.slippage # Text /\ b.limitPrice # Text /\ b.expiresAt # Text
      /\ b.type = "sniper" => ~Below(b.limitPrice, 0)
    BY TakenFields DEF Unseen
<1>2. /\ b.amount \in JsValue /\ b.limitPrice \in JsValue /\ b.slippage \in JsValue
    BY DEF RequestBody
<1>3. ~Below(b.amount, 0)
    BY <1>1, <1>2, TakenFields, ValuesDiffer, JsComparisons, Numbers
<1>4. ~Below(b.limitPrice, 0)
    <2>1. CASE b.type = "limit"
        BY <1>1, <1>2, <2>1, TakenFields, ValuesDiffer, JsComparisons, Numbers
    <2>2. CASE b.type = "market"
        BY <1>2, <2>2, TakenFields, ValuesDiffer, JsComparisons, Numbers
    <2> QED
        BY <1>1, <2>1, <2>2, TakenFields DEF OrderType
<1>5. d.slippage # Text /\ ~Below(d.slippage, 0) /\ ~Above(d.slippage, 100)
    <2>1. ~Below(b.slippage, 0) /\ ~Above(b.slippage, 100)
        BY DEF Refused
    <2> QED
        BY <1>1, <2>1, SlippagePasses
<1>6. d.expiresAt # Text
    BY <1>1, OrderFields, ValuesDiffer
<1>7. d.amount = b.amount /\ d.limitPrice = b.limitPrice
    BY OrderFields
<1> HIDE DEF d
<1>8. SchemaTakes(d)
    BY <1>1, <1>3, <1>4, <1>5, <1>6, <1>7 DEF SchemaTakes
<1> QED
    BY <1>1, <1>8 DEF Creates, d

Answers == {0, 201, 400, 500}

Handler == [pc : {"idle", "counting", "creating", "queueing", "answered"},
            body : RequestBody \cup {NoBody}, code : Answers, broken : BOOLEAN]

\* A body that nothing refuses.
Passes(b) == b \in RequestBody /\ ~Refused(b)

\* How far a handler has got with its body, and what it may answer.
HandlerOK(h) ==
    /\ h \in Handler
    /\ h.pc \in {"counting", "creating", "queueing"} => Passes(h.body)
    /\ h.pc = "counting" => h.body.type = "limit"
    /\ h.pc = "queueing" => Creates(h.body)
    /\ h.pc = "answered" /\ ~h.broken =>
          \/ h.code = 400 /\ h.body \in RequestBody /\ (Refused(h.body) \/ h.body.type = "limit")
          \/ h.code = 500 /\ (h.body = NoBody \/ (Passes(h.body) /\ ~Creates(h.body)))
          \/ h.code = 201 /\ Passes(h.body) /\ Creates(h.body)

\* The orders that may be stored: one of a body that was taken to its end.
Takes(b) == Passes(b) /\ Creates(b)
DocumentOK(D, h) ==
    D # {} => D = {CastOrder(OrderOf(h.body))} /\ Takes(h.body) /\ h.pc \in {"queueing", "answered"}

HandlersInv ==
    /\ execute \in [Requesters -> Handler]
    /\ DOMAIN document = Requesters
    /\ \A r \in Requesters : HandlerOK(execute[r]) /\ DocumentOK(document[r], execute[r])

LEMMA CodesOfErrors ==
    /\ CodeFor("ValidationError") = 400 /\ CodeFor("Error") = 500
    /\ CodeFor("MongoError") = 500 /\ CodeFor("QueueError") = 500
    /\ CodeFor("TypeError") = 500
BY DEF CodeFor, IsAppError, StatusOf

LEMMA Arrivals == \A r \in Requesters : MayArrive(r) \subseteq RequestBody \cup {NoBody}
BY RequestsAssumption DEF MayArrive

LEMMA HandlersInit == RequestsInit => HandlersInv
<1>2. NewHandler \in Handler /\ NewHandler.pc = "idle"
    BY DEF NewHandler, Handler, Answers
<1>3. HandlerOK(NewHandler)
    BY <1>2 DEF HandlerOK
<1> QED
    BY <1>2, <1>3 DEF RequestsInit, HandlersInv, DocumentOK

\* A step of one handler.
LEMMA HandlerMoves ==
    ASSUME HandlersInv, NEW r \in Requesters, NEW h, HandlerOK(h),
           execute' = [execute EXCEPT ![r] = h],
           DOMAIN document' = Requesters,
           \A q \in Requesters \ {r} : document'[q] = document[q],
           DocumentOK(document'[r], h)
    PROVE  HandlersInv'
<1>1. execute' \in [Requesters -> Handler]
    BY DEF HandlersInv, HandlerOK
<1>2. \A q \in Requesters : execute'[q] = IF q = r THEN h ELSE execute[q]
    BY DEF HandlersInv
<1>3. \A q \in Requesters : HandlerOK(execute'[q]) /\ DocumentOK(document'[q], execute'[q])
    BY <1>2 DEF HandlersInv
<1>4. (\A q \in Requesters : HandlerOK(execute[q]) /\ DocumentOK(document[q], execute[q]))'
    BY <1>3
<1> QED
    BY <1>1, <1>4 DEF HandlersInv

LEMMA Answered ==
    ASSUME NEW h \in Handler, NEW c \in Answers
    PROVE  LET g == [h EXCEPT !.pc = "answered", !.code = c]
           IN  g \in Handler /\ g.pc = "answered" /\ g.body = h.body /\ g.code = c
BY DEF Handler

\* What the handlers' ways of ending make of them.
LEMMA Endings ==
    ASSUME HandlersInv, NEW r \in Requesters
    PROVE  /\ \A pc \in {"creating", "queueing"} : GoOn(r, pc) =>
                 \E h \in Handler : /\ execute' = [execute EXCEPT ![r] = h]
                                    /\ h.pc = pc /\ h.body = execute[r].body
           /\ Succeed(r) =>
                 \E h \in Handler : /\ execute' = [execute EXCEPT ![r] = h]
                                    /\ h.pc = "answered" /\ h.body = execute[r].body /\ h.code = 201
           /\ Fail(r, "ValidationError") =>
                 \E h \in Handler : /\ execute' = [execute EXCEPT ![r] = h]
                                    /\ h.pc = "answered" /\ h.body = execute[r].body /\ h.code = 400
           /\ Fail(r, "Error") =>
                 \E h \in Handler : /\ execute' = [execute EXCEPT ![r] = h]
                                    /\ h.pc = "answered" /\ h.body = execute[r].body /\ h.code = 500
           /\ Break(r, "MongoError") \/ Break(r, "QueueError") =>
                 \E h \in Handler : /\ execute' = [execute EXCEPT ![r] = h]
                                    /\ h.pc = "answered" /\ h.body = execute[r].body /\ h.broken
<1>0. execute[r] \in Handler /\ DOMAIN execute = Requesters
    BY DEF HandlersInv
<1>1. ASSUME NEW pc \in {"creating", "queueing"}, GoOn(r, pc)
      PROVE  \E h \in Handler : /\ execute' = [execute EXCEPT ![r] = h]
                                /\ h.pc = pc /\ h.body = execute[r].body
    <2> DEFINE h == [execute[r] EXCEPT !.pc = pc]
    <2>1. h \in Handler /\ h.pc = pc /\ h.body = execute[r].body
        BY <1>0 DEF Handler
    <2>2. execute' = [execute EXCEPT ![r] = h]
        BY <1>0, <1>1 DEF GoOn
    <2> QED
        BY <2>1, <2>2
<1>2. ASSUME Succeed(r)
      PROVE  \E h \in Handler : /\ execute' = [execute EXCEPT ![r] = h]
                                /\ h.pc = "answered" /\ h.body = execute[r].body /\ h.code = 201
    <2> DEFINE c == 201
               h == [execute[r] EXCEPT !.pc = "answered", !.code = c]
    <2>1. execute' = [execute EXCEPT ![r] = h] /\ c \in Answers
        BY <1>0, <1>2 DEF Succeed, Answers
    <2> HIDE DEF c
    <2>2. h \in Handler /\ h.pc = "answered" /\ h.body = execute[r].body /\ h.code = c
        BY <1>0, <2>1, Answered
    <2> QED
        BY <2>1, <2>2 DEF c
<1>3. ASSUME NEW e, Fail(r, e), CodeFor(e) \in {400, 500}
      PROVE  \E h \in Handler : /\ execute' = [execute EXCEPT ![r] = h]
                                /\ h.pc = "answered" /\ h.body = execute[r].body
                                /\ h.code = CodeFor(e)
    <2> DEFINE c == CodeFor(e)
               h == [execute[r] EXCEPT !.pc = "answered", !.code = c]
    <2>1. execute' = [execute EXCEPT ![r] = h]
        BY <1>0, <1>3 DEF Fail
    <2>2. c \in Answers
        BY <1>3 DEF Answers
    <2> HIDE DEF c
    <2>3. h \in Handler /\ h.pc = "answered" /\ h.body = execute[r].body /\ h.code = c
        BY <1>0, <2>2, Answered
    <2> QED
        BY <2>1, <2>3 DEF c
<1>4. ASSUME NEW e, Break(r, e), CodeFor(e) = 500
      PROVE  \E h \in Handler : /\ execute' = [execute EXCEPT ![r] = h]
                                /\ h.pc = "answered" /\ h.body = execute[r].body /\ h.broken
    <2> DEFINE c == 500
               g == [execute[r] EXCEPT !.pc = "answered", !.code = c]
               h == [g EXCEPT !.broken = TRUE]
    <2>1. execute' = [execute EXCEPT ![r] = h] /\ c \in Answers
        BY <1>0, <1>4 DEF Break, Answers
    <2> HIDE DEF c
    <2>2. g \in Handler /\ g.pc = "answered" /\ g.body = execute[r].body
        BY <1>0, <2>1, Answered
    <2> HIDE DEF g
    <2>3. h \in Handler /\ h.pc = "answered" /\ h.body = execute[r].body /\ h.broken
        BY <2>2 DEF Handler
    <2> HIDE DEF h
    <2> QED
        BY <2>1, <2>3
<1> QED
    BY <1>1, <1>2, <1>3, <1>4, CodesOfErrors

LEMMA Arrive_Handlers ==
    ASSUME HandlersInv, NEW r \in Requesters, Arrive(r)
    PROVE  HandlersInv'
<1>1. PICK b \in MayArrive(r) :
          execute' = [execute EXCEPT ![r] =
                IF b = NoBody \/ Refused(b)
                THEN [@ EXCEPT !.pc = "answered", !.body = b,
                          !.code = CodeFor(IF b = NoBody THEN "TypeError" ELSE "ValidationError")]
                ELSE [@ EXCEPT !.pc = IF b.type = "limit" THEN "counting" ELSE "creating",
                               !.body = b]]
    BY DEF Arrive
<1>2. /\ execute[r] \in Handler /\ HandlerOK(execute[r]) /\ DOMAIN execute = Requesters
      /\ execute[r].pc = "idle" /\ b \in RequestBody \cup {NoBody}
    BY Arrivals DEF HandlersInv, Arrive
<1>3. document[r] = {} /\ document' = document /\ DOMAIN document = Requesters
    BY <1>2 DEF HandlersInv, DocumentOK, Arrive
<1>4. CASE b = NoBody \/ Refused(b)
    <2> DEFINE c == IF b = NoBody THEN 500 ELSE 400
               g == [execute[r] EXCEPT !.pc = "answered", !.body = b]
               h == [g EXCEPT !.code = c]
    <2>1. execute' = [execute EXCEPT ![r] = h] /\ c \in Answers
        <3> DEFINE k == CodeFor(IF b = NoBody THEN "TypeError" ELSE "ValidationError")
        <3>1. k = c
            BY CodesOfErrors
        <3>2. execute' = [execute EXCEPT ![r] =
                             [execute[r] EXCEPT !.pc = "answered", !.body = b, !.code = k]]
            BY <1>1, <1>2, <1>4
        <3>3. c \in Answers
            BY DEF Answers
        <3> HIDE DEF k, c
        <3> QED
            BY <3>1, <3>2, <3>3
    <2> HIDE DEF c
    <2>2. g \in Handler /\ g.pc = "answered" /\ g.body = b
        BY <1>2 DEF Handler
    <2> HIDE DEF g
    <2>3. h \in Handler /\ h.pc = "answered" /\ h.body = b /\ h.code = c
        BY <2>1, <2>2 DEF Handler
    <2> HIDE DEF h
    <2>4. HandlerOK(h) /\ DocumentOK({}, h)
        BY <1>2, <1>4, <2>3 DEF HandlerOK, DocumentOK, c
    <2> QED
        BY <1>3, <2>1, <2>4, HandlerMoves
<1>5. CASE ~(b = NoBody \/ Refused(b))
    <2> DEFINE pc == IF b.type = "limit" THEN "counting" ELSE "creating"
               h == [execute[r] EXCEPT !.pc = pc, !.body = b]
    <2>1. execute' = [execute EXCEPT ![r] = h]
        BY <1>1, <1>2, <1>5
    <2>2. pc \in {"counting", "creating"} /\ (pc = "counting" => b.type = "limit")
        OBVIOUS
    <2> HIDE DEF pc
    <2>3. h \in Handler /\ h.pc = pc /\ h.body = b
        BY <1>2, <2>2 DEF Handler
    <2> HIDE DEF h
    <2>4. HandlerOK(h) /\ DocumentOK({}, h)
        BY <1>2, <1>5, <2>2, <2>3 DEF HandlerOK, DocumentOK, Passes
    <2> QED
        BY <1>3, <2>1, <2>4, HandlerMoves
<1> QED
    BY <1>4, <1>5

LEMMA CountOrders_Handlers ==
    ASSUME HandlersInv, NEW r \in Requesters, CountOrders(r)
    PROVE  HandlersInv'
<1>1. /\ HandlerOK(execute[r]) /\ execute[r].pc = "counting"
      /\ document[r] = {} /\ document' = document /\ DOMAIN document = Requesters
    BY DEF HandlersInv, DocumentOK, CountOrders
<1>2. Passes(execute[r].body) /\ execute[r].body.type = "limit"
    BY <1>1 DEF HandlerOK
<1>3. ASSUME NEW h \in Handler, execute' = [execute EXCEPT ![r] = h], HandlerOK(h)
      PROVE  HandlersInv'
    BY <1>1, <1>3, HandlerMoves DEF DocumentOK
<1>4. CASE Fail(r, "ValidationError")
    <2>1. PICK h \in Handler : /\ execute' = [execute EXCEPT ![r] = h]
                               /\ h.pc = "answered" /\ h.body = execute[r].body /\ h.code = 400
        BY <1>4, Endings
    <2>2. HandlerOK(h)
        BY <1>2, <2>1 DEF HandlerOK, Passes
    <2> QED
        BY <1>3, <2>1, <2>2
<1>5. CASE GoOn(r, "creating")
    <2>1. PICK h \in Handler : /\ execute' = [execute EXCEPT ![r] = h]
                               /\ h.pc = "creating" /\ h.body = execute[r].body
        BY <1>5, Endings
    <2>2. HandlerOK(h)
        BY <1>2, <2>1 DEF HandlerOK
    <2> QED
        BY <1>3, <2>1, <2>2
<1>6. CASE Break(r, "MongoError")
    <2>1. PICK h \in Handler : /\ execute' = [execute EXCEPT ![r] = h]
                               /\ h.pc = "answered" /\ h.body = execute[r].body /\ h.broken
        BY <1>6, Endings
    <2>2. HandlerOK(h)
        BY <1>2, <2>1 DEF HandlerOK
    <2> QED
        BY <1>3, <2>1, <2>2
<1> QED
    BY <1>4, <1>5, <1>6 DEF CountOrders

LEMMA StoreOrder_Handlers ==
    ASSUME HandlersInv, NEW r \in Requesters, StoreOrder(r)
    PROVE  HandlersInv'
<1> DEFINE b == execute[r].body
<1>1. /\ HandlerOK(execute[r]) /\ execute[r].pc = "creating" /\ DocumentOK(document[r], execute[r])
      /\ document[r] = {} /\ DOMAIN document = Requesters
    BY DEF HandlersInv, DocumentOK, StoreOrder
<1>2. Passes(b)
    BY <1>1 DEF HandlerOK
<1>3. ASSUME NEW h \in Handler, execute' = [execute EXCEPT ![r] = h], HandlerOK(h),
             h.body = b, h.pc \in {"queueing", "answered"},
             document' = document \/ (KeepOrder(r) /\ Creates(b))
      PROVE  HandlersInv'
    <2>1. CASE document' = document
        BY <1>1, <1>3, <2>1, HandlerMoves DEF DocumentOK
    <2>2. CASE KeepOrder(r) /\ Creates(b)
        <3>1. document' = [document EXCEPT ![r] = {CastOrder(OrderOf(b))}]
            BY <2>2 DEF KeepOrder
        <3>2. DocumentOK(document'[r], h)
            BY <1>1, <1>2, <1>3, <2>2, <3>1 DEF DocumentOK, Takes
        <3>3. DOMAIN document' = Requesters
              /\ \A q \in Requesters \ {r} : document'[q] = document[q]
            BY <1>1, <3>1
        <3> QED
            BY <1>3, <3>2, <3>3, HandlerMoves
    <2> QED
        BY <1>3, <2>1, <2>2
<1>4. \/ Creates(b) /\ KeepOrder(r) /\ GoOn(r, "queueing")
      \/ Creates(b) /\ KeepOrder(r) /\ Break(r, "MongoError")
      \/ Break(r, "MongoError") /\ document' = document
      \/ ~Creates(b) /\ Fail(r, "Error") /\ document' = document
    BY Zenon DEF StoreOrder, Creates
<1> HIDE DEF b
<1>5. CASE Creates(b) /\ KeepOrder(r) /\ GoOn(r, "queueing")
    <2>1. PICK h \in Handler : /\ execute' = [execute EXCEPT ![r] = h]
                               /\ h.pc = "queueing" /\ h.body = b
        BY <1>5, Endings DEF b
    <2>2. HandlerOK(h)
        BY <1>2, <1>5, <2>1 DEF HandlerOK
    <2> QED
        BY <1>3, <1>5, <2>1, <2>2
<1>6. CASE /\ Break(r, "MongoError")
           /\ document' = document \/ (KeepOrder(r) /\ Creates(b))
    <2>1. PICK h \in Handler : /\ execute' = [execute EXCEPT ![r] = h]
                               /\ h.pc = "answered" /\ h.body = b /\ h.broken
        BY <1>6, Endings DEF b
    <2>2. HandlerOK(h)
        BY <2>1 DEF HandlerOK
    <2> QED
        BY <1>3, <1>6, <2>1, <2>2
<1>7. CASE ~Creates(b) /\ Fail(r, "Error") /\ document' = document
    <2>1. PICK h \in Handler : /\ execute' = [execute EXCEPT ![r] = h]
                               /\ h.pc = "answered" /\ h.body = b /\ h.code = 500
        BY <1>7, Endings DEF b
    <2>2. HandlerOK(h)
        BY <1>2, <1>7, <2>1 DEF HandlerOK
    <2> QED
        BY <1>3, <1>7, <2>1, <2>2
<1> QED
    BY <1>4, <1>5, <1>6, <1>7

LEMMA QueueOrder_Handlers ==
    ASSUME HandlersInv, NEW r \in Requesters, QueueOrder(r)
    PROVE  HandlersInv'
<1>1. /\ HandlerOK(execute[r]) /\ execute[r].pc = "queueing" /\ DocumentOK(document[r], execute[r])
      /\ document' = document /\ DOMAIN document = Requesters
    BY DEF HandlersInv, QueueOrder
<1>2. Passes(execute[r].body) /\ Creates(execute[r].body)
    BY <1>1 DEF HandlerOK
<1>3. ASSUME NEW h \in Handler, execute' = [execute EXCEPT ![r] = h], HandlerOK(h),
             h.body = execute[r].body, h.pc = "answered"
      PROVE  HandlersInv'
    <2>1. DocumentOK(document'[r], h)
        BY <1>1, <1>3 DEF DocumentOK
    <2> QED
        BY <1>1, <1>3, <2>1, HandlerMoves
<1>4. CASE Succeed(r)
    <2>1. PICK h \in Handler : /\ execute' = [execute EXCEPT ![r] = h]
                               /\ h.pc = "answered" /\ h.body = execute[r].body /\ h.code = 201
        BY <1>4, Endings
    <2> QED
        BY <1>2, <1>3, <2>1 DEF HandlerOK
<1>5. CASE Break(r, "QueueError")
    <2>1. PICK h \in Handler : /\ execute' = [execute EXCEPT ![r] = h]
                               /\ h.pc = "answered" /\ h.body = execute[r].body /\ h.broken
        BY <1>5, Endings
    <2> QED
        BY <1>2, <1>3, <2>1 DEF HandlerOK
<1> QED
    BY <1>4, <1>5 DEF QueueOrder

LEMMA HandlersNext == HandlersInv /\ [RequestsNext]_requestVars => HandlersInv'
<1> SUFFICES ASSUME HandlersInv, [RequestsNext]_requestVars PROVE HandlersInv'
    OBVIOUS
<1>1. ASSUME NEW r \in Requesters, LeaveActive(r) PROVE HandlersInv'
    BY <1>1 DEF LeaveActive, HandlersInv
<1>2. CASE UNCHANGED requestVars
    BY <1>2 DEF requestVars, HandlersInv
<1> QED
    BY <1>1, <1>2, Arrive_Handlers, CountOrders_Handlers, StoreOrder_Handlers, QueueOrder_Handlers
    DEF RequestsNext

\* executeOrder, createOrder and the schema together: whatever fields a body has, no order
\* gets into the collection that the worker or the monitor cannot take, and none without
\* slippage unless it was asked for in text.
THEOREM StoredAreSound == RequestsSpec => []StoredOrdersAreSound
<1>1. ASSUME HandlersInv, NEW r \in Requesters, NEW d \in document[r]
      PROVE  Sound(d) /\ (d.slippage = 0 => execute[r].body.slippage \in Numerals)
    <2>1. d = CastOrder(OrderOf(execute[r].body)) /\ Takes(execute[r].body)
        BY <1>1 DEF HandlersInv, DocumentOK
    <2> QED
        BY <2>1, TakenOrdersAreSound DEF Takes, Passes
<1>2. HandlersInv => StoredOrdersAreSound
    BY <1>1 DEF StoredOrdersAreSound, Sound
<1> QED
    BY HandlersInit, HandlersNext, <1>2, PTL DEF RequestsSpec

\* The answers of executeOrder, for every body and whatever else goes on: a well-formed one
\* is taken unless there are too many, and a 500 without a fault of the server is for a body
\* that is not there or for a mistake that the handler does not see.
THEOREM MistakesAreAnswered == RequestsSpec => []AnsweredByTheMistake
<1>1. ASSUME HandlersInv, NEW r \in Requesters,
             execute[r].pc = "answered", ~execute[r].broken
      PROVE  /\ WellFormed(execute[r].body) =>
                    execute[r].code = 201 \/ (execute[r].body.type = "limit" /\ execute[r].code = 400)
             /\ execute[r].code = 201 => WellFormed(execute[r].body) \/ execute[r].body.type = "sniper"
             /\ execute[r].code = 500 => Unseen(execute[r].body)
    <2> DEFINE b == execute[r].body
               c == execute[r].code
    <2>1. \/ c = 400 /\ b \in RequestBody /\ (Refused(b) \/ b.type = "limit")
          \/ c = 500 /\ (b = NoBody \/ (Passes(b) /\ ~Creates(b)))
          \/ c = 201 /\ Passes(b) /\ Creates(b)
        BY <1>1 DEF HandlersInv, HandlerOK
    <2> HIDE DEF b, c
    <2>2. WellFormed(b) => c = 201 \/ (b.type = "limit" /\ c = 400)
        <3>1. WellFormed(b) => b # NoBody
            <4>1. NoBody.type = "no body"
                BY DEF NoBody
            <4> QED
                BY <4>1 DEF WellFormed
        <3> QED
            BY <2>1, <3>1, WellFormedIsTaken DEF Passes
    <2>3. c = 201 => WellFormed(b) \/ b.type = "sniper"
        BY <2>1, TakenIsWellFormed DEF Passes
    <2>4. c = 500 => Unseen(b)
        <3>1. b = NoBody => Unseen(b)
            BY DEF Unseen
        <3> QED
            BY <2>1, <3>1, FailedIsUnseen DEF Passes
    <2> QED
        BY <2>2, <2>3, <2>4 DEF b, c
<1>2. HandlersInv => AnsweredByTheMistake
    BY <1>1 DEF AnsweredByTheMistake
<1> QED
    BY HandlersInit, HandlersNext, <1>2, PTL DEF RequestsSpec

-----------------------------------------------------------------------------
\* The cap.  Of any orders that wait for their price, one was in a rush with all others but
\* at most Cap; and so will be each limit order that has been counted and is not yet there.

AllButCap(S, n) == Cardinality(S) <= n

RushTypeOK ==
    /\ active \subseteq Requesters
    /\ rush \in [Requesters -> SUBSET Requesters]

SomeoneRushed(A, rsh) ==
    \A S \in SUBSET A : S # {} => \E r \in S : AllButCap(S \ rsh[r], Cap)

RoomIfCounted(A, r, h, rsh) ==
    h.pc = "creating" /\ h.body.type = "limit" => AllButCap(A \ rsh[r], Cap - 1)

RushInv ==
    /\ RushTypeOK
    /\ SomeoneRushed(active, rush)
    /\ \A r \in Requesters : RoomIfCounted(active, r, execute[r], rush)

LEMMA SubsetsCost ==
    ASSUME NEW S \in SUBSET Requesters, NEW T \in SUBSET S, NEW n \in Int, AllButCap(S, n)
    PROVE  AllButCap(T, n)
<1>1. IsFiniteSet(S)
    BY RequestsAssumption, FS_Subset
<1>2. Cardinality(T) <= Cardinality(S) /\ Cardinality(S) \in Nat /\ Cardinality(T) \in Nat
    BY <1>1, FS_Subset, FS_CardinalityType
<1> QED
    BY <1>2 DEF AllButCap

LEMMA OneMoreCosts ==
    ASSUME NEW S \in SUBSET Requesters, NEW r \in Requesters, NEW n \in Int, AllButCap(S, n - 1)
    PROVE  AllButCap(S \cup {r}, n)
<1>1. IsFiniteSet(S)
    BY RequestsAssumption, FS_Subset
<1>2. /\ Cardinality(S) \in Nat
      /\ Cardinality(S \cup {r}) = Cardinality(S) \/ Cardinality(S \cup {r}) = Cardinality(S) + 1
    BY <1>1, FS_CardinalityType, FS_AddElement
<1> QED
    BY <1>2 DEF AllButCap

LEMMA RushInit == RequestsInit => RushInv
<1> SUFFICES ASSUME RequestsInit PROVE RushInv
    OBVIOUS
<1>1. RushTypeOK
    BY DEF RequestsInit, RushTypeOK
<1>2. SomeoneRushed(active, rush)
    BY DEF RequestsInit, SomeoneRushed
<1>3. \A r \in Requesters : RoomIfCounted(active, r, execute[r], rush)
    BY DEF RequestsInit, RoomIfCounted, NewHandler
<1> QED
    BY <1>1, <1>2, <1>3 DEF RushInv

\* A step that leaves the active orders alone, and its handler with room if it was counted.
LEMMA RushStays ==
    ASSUME HandlersInv, RushInv, NEW r \in Requesters, NEW h,
           execute' = [execute EXCEPT ![r] = h], UNCHANGED <<active, rush>>,
           RoomIfCounted(active, r, h, rush)
    PROVE  RushInv'
<1>1. RushTypeOK'
    BY DEF RushInv, RushTypeOK
<1>2. SomeoneRushed(active, rush)'
    BY DEF RushInv, SomeoneRushed
<1>3. \A q \in Requesters : execute'[q] = IF q = r THEN h ELSE execute[q]
    BY DEF HandlersInv
<1>4. \A q \in Requesters : RoomIfCounted(active', q, execute'[q], rush')
    BY <1>3 DEF RushInv, RoomIfCounted
<1> QED
    BY <1>1, <1>2, <1>4 DEF RushInv

LEMMA LeaveActive_Rush ==
    ASSUME HandlersInv, RushInv, NEW r \in Requesters, LeaveActive(r)
    PROVE  RushInv'
<1>1. /\ active' \subseteq active /\ active \subseteq Requesters
      /\ execute' = execute /\ rush' = rush
    BY DEF LeaveActive, RushInv, RushTypeOK
<1>2. RushTypeOK'
    BY <1>1 DEF RushInv, RushTypeOK
<1>3. SomeoneRushed(active, rush)'
    BY <1>1 DEF RushInv, SomeoneRushed
<1>4. ASSUME NEW q \in Requesters PROVE RoomIfCounted(active', q, execute'[q], rush')
    <2>1. active' \ rush'[q] \subseteq active \ rush[q] /\ active \ rush[q] \subseteq Requesters
        BY <1>1
    <2>2. AllButCap(active \ rush[q], Cap - 1) => AllButCap(active' \ rush'[q], Cap - 1)
        BY <2>1, SubsetsCost, RequestsAssumption
    <2> QED
        BY <1>1, <2>2 DEF RushInv, RoomIfCounted
<1>5. (\A q \in Requesters : RoomIfCounted(active, q, execute[q], rush))'
    BY <1>4
<1> QED
    BY <1>2, <1>3, <1>5 DEF RushInv

\* A counted order is inserted: it was in a rush with all but Cap - 1 of those that wait,
\* and all that are counted and not yet there are in a rush with it.
LEMMA KeepOrder_Rush ==
    ASSUME HandlersInv, RushInv, NEW r \in Requesters, execute[r].pc = "creating", KeepOrder(r),
           NEW h, h.pc # "creating", execute' = [execute EXCEPT ![r] = h]
    PROVE  RushInv'
<1> DEFINE waits == OrderOf(execute[r].body).status = "WAITING_FOR_PRICE"
<1>1. /\ active' = IF waits THEN active \cup {r} ELSE active
      /\ rush' = [q \in Requesters |-> IF waits /\ q # r /\ execute[q].pc = "creating"
                                       THEN rush[q] \cup {r} ELSE rush[q]]
    BY DEF KeepOrder
<1>2. waits <=> execute[r].body.type = "limit"
    BY DEF OrderOf
<1> HIDE DEF waits
<1>3. active \subseteq Requesters /\ rush \in [Requesters -> SUBSET Requesters]
    BY DEF RushInv, RushTypeOK
<1>4. CASE ~waits
    <2>1. rush' = rush /\ active' = active
        BY <1>1, <1>3, <1>4
    <2>2. RoomIfCounted(active, r, h, rush)
        BY DEF RoomIfCounted
    <2> QED
        BY <2>1, <2>2, RushStays
<1>5. CASE waits
    <2>1. active' = active \cup {r}
        BY <1>1, <1>5
    <2>2. \A q \in Requesters : /\ rush'[q] \in SUBSET Requesters /\ rush[q] \subseteq rush'[q]
                                /\ q # r /\ execute[q].pc = "creating" => r \in rush'[q]
        BY <1>1, <1>3, <1>5
    <2>3. rush'[r] = rush[r] /\ DOMAIN rush' = Requesters
        BY <1>1
    <2>4. RushTypeOK'
        BY <1>1, <1>3, <1>5, <2>1 DEF RushTypeOK
    <2>5. AllButCap(active \ rush[r], Cap - 1)
        BY <1>2, <1>5 DEF RushInv, RoomIfCounted
    <2>6. ASSUME NEW S \in SUBSET active', S # {}
          PROVE  \E q \in S : AllButCap(S \ rush'[q], Cap)
        <3>1. CASE r \in S
            <4>1. AllButCap((active \ rush[r]) \cup {r}, Cap)
                BY <1>3, <2>5, OneMoreCosts, RequestsAssumption
            <4>2. AllButCap(S \ rush'[r], Cap)
                BY <1>3, <2>1, <2>3, <4>1, SubsetsCost, RequestsAssumption
            <4> QED
                BY <3>1, <4>2
        <3>2. CASE r \notin S
            <4>1. S \in SUBSET active
                BY <2>1, <3>2
            <4>2. PICK q \in S : AllButCap(S \ rush[q], Cap)
                BY <2>6, <4>1 DEF RushInv, SomeoneRushed
            <4>3. AllButCap(S \ rush'[q], Cap)
                BY <1>3, <2>2, <4>1, <4>2, SubsetsCost, RequestsAssumption
            <4> QED
                BY <4>3
        <3> QED
            BY <3>1, <3>2
    <2>7. SomeoneRushed(active, rush)'
        BY <2>6 DEF SomeoneRushed
    <2>8. ASSUME NEW q \in Requesters PROVE RoomIfCounted(active', q, execute'[q], rush')
        <3>1. CASE q = r
            BY <3>1 DEF HandlersInv, RoomIfCounted
        <3>2. CASE q # r /\ execute[q].pc = "creating"
            <4>1. active' \ rush'[q] \subseteq active \ rush[q] /\ active \ rush[q] \subseteq Requesters
                BY <1>3, <2>1, <2>2, <3>2
            <4>2. AllButCap(active \ rush[q], Cap - 1) => AllButCap(active' \ rush'[q], Cap - 1)
                BY <4>1, SubsetsCost, RequestsAssumption
            <4>3. execute'[q] = execute[q]
                BY <3>2 DEF HandlersInv
            <4> QED
                BY <4>2, <4>3 DEF RushInv, RoomIfCounted
        <3>3. CASE q # r /\ execute[q].pc # "creating"
            BY <3>3 DEF HandlersInv, RoomIfCounted
        <3> QED
            BY <3>1, <3>2, <3>3
    <2>9. (\A q \in Requesters : RoomIfCounted(active, q, execute[q], rush))'
        BY <2>8
    <2> QED
        BY <2>4, <2>7, <2>9 DEF RushInv
<1> QED
    BY <1>4, <1>5

LEMMA Arrive_Rush ==
    ASSUME HandlersInv, RushInv, NEW r \in Requesters, Arrive(r)
    PROVE  RushInv'
<1>1. PICK b \in RequestBody \cup {NoBody} :
          execute' = [execute EXCEPT ![r] =
                IF b = NoBody \/ Refused(b)
                THEN [@ EXCEPT !.pc = "answered", !.body = b,
                          !.code = CodeFor(IF b = NoBody THEN "TypeError" ELSE "ValidationError")]
                ELSE [@ EXCEPT !.pc = IF b.type = "limit" THEN "counting" ELSE "creating",
                               !.body = b]]
    BY Arrivals DEF Arrive
<1> DEFINE h == IF b = NoBody \/ Refused(b)
                THEN [execute[r] EXCEPT !.pc = "answered", !.body = b,
                          !.code = CodeFor(IF b = NoBody THEN "TypeError" ELSE "ValidationError")]
                ELSE [execute[r] EXCEPT !.pc = IF b.type = "limit" THEN "counting" ELSE "creating",
                               !.body = b]
<1>2. execute' = [execute EXCEPT ![r] = h]
    BY <1>1 DEF HandlersInv
<1>3. execute[r] \in Handler
    BY DEF HandlersInv
<1>4. h.pc = "creating" => h.body.type # "limit"
    <2>1. CASE b = NoBody \/ Refused(b)
        BY <1>3, <2>1 DEF Handler
    <2>2. CASE ~(b = NoBody \/ Refused(b))
        BY <1>3, <2>2 DEF Handler
    <2> QED
        BY <2>1, <2>2
<1> HIDE DEF h
<1>5. RoomIfCounted(active, r, h, rush) /\ UNCHANGED <<active, rush>>
    BY <1>4 DEF RoomIfCounted, Arrive
<1> QED
    BY <1>2, <1>5, RushStays

LEMMA CountOrders_Rush ==
    ASSUME HandlersInv, RushInv, NEW r \in Requesters, CountOrders(r)
    PROVE  RushInv'
<1>1. ASSUME NEW h, execute' = [execute EXCEPT ![r] = h], RoomIfCounted(active, r, h, rush)
      PROVE  RushInv'
    BY <1>1, RushStays DEF CountOrders
<1>2. CASE Fail(r, "ValidationError")
    BY <1>1, <1>2, Endings DEF RoomIfCounted
<1>3. CASE Break(r, "MongoError")
    BY <1>1, <1>3, Endings DEF RoomIfCounted
<1>4. CASE ~CapReached /\ GoOn(r, "creating")
    <2>1. active \subseteq Requesters /\ IsFiniteSet(active)
        BY RequestsAssumption, FS_Subset DEF RushInv, RushTypeOK
    <2>2. AllButCap(active, Cap - 1)
        BY <1>4, <2>1, FS_CardinalityType, RequestsAssumption DEF CapReached, AllButCap
    <2>3. AllButCap(active \ rush[r], Cap - 1)
        BY <2>1, <2>2, SubsetsCost, RequestsAssumption
    <2>4. PICK h \in Handler : execute' = [execute EXCEPT ![r] = h]
        BY <1>4, Endings
    <2> QED
        BY <1>1, <2>3, <2>4 DEF RoomIfCounted
<1> QED
    BY <1>2, <1>3, <1>4 DEF CountOrders

LEMMA StoreOrder_Rush ==
    ASSUME HandlersInv, RushInv, NEW r \in Requesters, StoreOrder(r)
    PROVE  RushInv'
<1>1. execute[r].pc = "creating"
    BY DEF StoreOrder
<1>2. \/ KeepOrder(r) /\ GoOn(r, "queueing")
      \/ KeepOrder(r) /\ Break(r, "MongoError")
      \/ Break(r, "MongoError") /\ UNCHANGED <<active, rush>>
      \/ Fail(r, "Error") /\ UNCHANGED <<active, rush>>
    BY Zenon DEF StoreOrder
<1>3. PICK h \in Handler : execute' = [execute EXCEPT ![r] = h] /\ h.pc # "creating"
    BY <1>2, Endings
<1>4. CASE KeepOrder(r)
    BY <1>1, <1>3, <1>4, KeepOrder_Rush
<1>5. CASE UNCHANGED <<active, rush>>
    BY <1>3, <1>5, RushStays DEF RoomIfCounted
<1> QED
    BY <1>2, <1>4, <1>5

LEMMA QueueOrder_Rush ==
    ASSUME HandlersInv, RushInv, NEW r \in Requesters, QueueOrder(r)
    PROVE  RushInv'
<1>1. PICK h \in Handler : execute' = [execute EXCEPT ![r] = h] /\ h.pc # "creating"
    BY Endings DEF QueueOrder
<1> QED
    BY <1>1, RushStays DEF RoomIfCounted, QueueOrder

LEMMA RushNext == HandlersInv /\ RushInv /\ [RequestsNext]_requestVars => RushInv'
<1> SUFFICES ASSUME HandlersInv, RushInv, [RequestsNext]_requestVars PROVE RushInv'
    OBVIOUS
<1>1. CASE UNCHANGED requestVars
    BY <1>1 DEF requestVars, RushInv, RushTypeOK, SomeoneRushed
<1> QED
    BY <1>1, Arrive_Rush, CountOrders_Rush, StoreOrder_Rush, QueueOrder_Rush, LeaveActive_Rush
    DEF RequestsNext

\* executeOrder counts the active limit orders in one call and inserts in a later one: as
\* many requests as arrive together, the cap is exceeded only by what was stored in between.
THEOREM CapIsExceededByRush == RequestsSpec => []CapExceededByRushOnly
<1>1. ASSUME RushInv, Cardinality(active) > Cap
      PROVE  \E r \in active : Cardinality(rush[r]) >= Cardinality(active) - Cap
    <2>1. active \subseteq Requesters /\ rush \in [Requesters -> SUBSET Requesters]
        BY <1>1 DEF RushInv, RushTypeOK
    <2>2. IsFiniteSet(active)
        BY <2>1, RequestsAssumption, FS_Subset
    <2>3. active # {}
        BY <1>1, FS_EmptySet, RequestsAssumption
    <2>4. PICK r \in active : AllButCap(active \ rush[r], Cap)
        BY <1>1, <2>3 DEF RushInv, SomeoneRushed
    <2>5. IsFiniteSet(rush[r])
        BY <2>1, RequestsAssumption, FS_Subset
    <2>6. /\ Cardinality(active \ rush[r]) = Cardinality(active) - Cardinality(active \cap rush[r])
          /\ Cardinality(active \cap rush[r]) <= Cardinality(rush[r])
        BY <2>2, <2>5, FS_Difference, FS_Intersection
    <2>7. /\ Cardinality(active) \in Nat /\ Cardinality(rush[r]) \in Nat
          /\ Cardinality(active \cap rush[r]) \in Nat
        BY <2>2, <2>5, FS_CardinalityType, FS_Intersection
    <2>8. Cardinality(rush[r]) >= Cardinality(active) - Cap
        BY <2>4, <2>6, <2>7, RequestsAssumption DEF AllButCap
    <2> QED
        BY <2>4, <2>8
<1>2. RushInv => CapExceededByRushOnly
    BY <1>1 DEF CapExceededByRushOnly
<1>3. RequestsInit => HandlersInv /\ RushInv
    BY HandlersInit, RushInit
<1>4. HandlersInv /\ RushInv /\ [RequestsNext]_requestVars => HandlersInv' /\ RushInv'
    BY HandlersNext, RushNext
<1> QED
    BY <1>2, <1>3, <1>4, PTL DEF RequestsSpec

-----------------------------------------------------------------------------
(***************************************************************************)
(* The collection: its documents, and the pages of a list that is read     *)
(* while orders come and change.                                           *)
(***************************************************************************)

Document == [status : Store!OrderStatus \cup {Store!NoDoc}, history : Seq(Store!OrderStatus),
             createdAt : Nat, updatedAt : Nat]

\* What an updater holds between its read and its save.
CopyOK(c) ==
    c.pc = "save" => /\ c.order \in Stored
                     /\ c.copy \in Store!OrderStatus /\ c.target \in Store!OrderStatus

DocsInv ==
    /\ clock \in Nat
    /\ doc \in [Docs -> Document]
    /\ DOMAIN updater = Updaters
    /\ \A u \in Updaters : CopyOK(updater[u])

\* The orders that come before o in every list, and those that have no peer.
Newer(o) == {p \in Stored : doc[p].createdAt > doc[o].createdAt}
Untied(o) == \A p \in Stored \ {o} : doc[p].createdAt # doc[o].createdAt

Reader == [pc : {"idle", "paging", "done"}, size : Nat, skip : Nat,
           expected : SUBSET Docs, seen : SUBSET Docs]

\* An expected order that was not seen is still ahead: what comes before it can only grow.
PagingInv ==
    /\ client \in Reader
    /\ client.expected \subseteq Stored
    /\ \A o \in client.expected \ client.seen :
          Untied(o) => client.pc = "paging" /\ Cardinality(Newer(o)) >= client.skip

LEMMA CreatedDocument ==
    ASSUME DocsInv, NEW o \in Docs, CreateDoc(o)
    PROVE  LET s == Store!InitialStatus(o) IN
           /\ s \in Store!OrderStatus
           /\ doc' = [doc EXCEPT ![o] = [status |-> s, history |-> <<s, s>>,
                                         createdAt |-> clock, updatedAt |-> clock]]
           /\ [status |-> s, history |-> <<s, s>>, createdAt |-> clock, updatedAt |-> clock]
                 \in Document
           /\ ToSet(<<s, s>>) = {s}
<1> DEFINE s == Store!InitialStatus(o)
<1>1. s \in Store!OrderStatus
    BY DEF Store!InitialStatus, Store!OrderStatus
<1>2. doc' = [doc EXCEPT ![o] = [status |-> s, history |-> <<s, s>>,
                                 createdAt |-> clock, updatedAt |-> clock]]
    BY DEF CreateDoc
<1> HIDE DEF s
<1>3. [status |-> s, history |-> <<s, s>>, createdAt |-> clock, updatedAt |-> clock] \in Document
    BY <1>1 DEF DocsInv, Document
<1>4. ToSet(<<s, s>>) = {s}
    BY DEF ToSet
<1> QED
    BY <1>1, <1>2, <1>3, <1>4 DEF s

LEMMA AppendedEntries ==
    ASSUME NEW S, NEW s \in Seq(S), NEW t \in Seq(S)
    PROVE  s \o t \in Seq(S) /\ ToSet(s \o t) = ToSet(s) \cup ToSet(t)
<1>1. /\ s \o t \in Seq(S) /\ Len(s \o t) = Len(s) + Len(t)
      /\ \A i \in 1 .. Len(s) + Len(t) : (s \o t)[i] = IF i <= Len(s) THEN s[i] ELSE t[i - Len(s)]
      /\ Len(s) \in Nat /\ Len(t) \in Nat
    OBVIOUS
<1>2. \A x \in ToSet(s) : x \in ToSet(s \o t)
    BY <1>1 DEF ToSet
<1>3. ASSUME NEW x \in ToSet(t) PROVE x \in ToSet(s \o t)
    <2>1. PICK i \in 1 .. Len(t) : t[i] = x
        BY <1>3 DEF ToSet
    <2>2. i + Len(s) \in 1 .. Len(s) + Len(t) /\ (s \o t)[i + Len(s)] = x
        BY <1>1, <2>1
    <2> QED
        BY <1>1, <2>2 DEF ToSet
<1>4. ASSUME NEW x \in ToSet(s \o t) PROVE x \in ToSet(s) \cup ToSet(t)
    <2>1. PICK i \in 1 .. Len(s) + Len(t) : (s \o t)[i] = x
        BY <1>1, <1>4 DEF ToSet
    <2>2. CASE i <= Len(s)
        BY <1>1, <2>1, <2>2 DEF ToSet
    <2>3. CASE i > Len(s)
        <3>1. i - Len(s) \in 1 .. Len(t) /\ t[i - Len(s)] = x
            BY <1>1, <2>1, <2>3
        <3> QED
            BY <3>1 DEF ToSet
    <2> QED
        BY <1>1, <2>2, <2>3
<1> QED
    BY <1>1, <1>2, <1>3, <1>4

LEMMA PushedEntries ==
    ASSUME NEW copy \in Store!OrderStatus, NEW target \in Store!OrderStatus
    PROVE  /\ Pushed(copy, target) \in Seq(Store!OrderStatus)
           /\ ToSet(Pushed(copy, target)) =
                 {s \in {target} : copy # target \/ s \in Store!MessagedStatus}
<1> DEFINE m == Messaged(target)
           k == Hooked(copy, target)
<1>1. m \in Seq(Store!OrderStatus) /\ ToSet(m) = {s \in {target} : s \in Store!MessagedStatus}
    BY DEF Messaged, ToSet
<1>2. k \in Seq(Store!OrderStatus) /\ ToSet(k) = {s \in {target} : copy # target}
    BY DEF Hooked, ToSet
<1>3. Pushed(copy, target) = m \o k
    BY DEF Pushed
<1> HIDE DEF m, k
<1>4. m \o k \in Seq(Store!OrderStatus) /\ ToSet(m \o k) = ToSet(m) \cup ToSet(k)
    BY <1>1, <1>2, AppendedEntries
<1> QED
    BY <1>1, <1>2, <1>3, <1>4

\* A save, as the document that it leaves.
LEMMA SavedDocument ==
    ASSUME DocsInv, NEW u \in Updaters, SaveDoc(u)
    PROVE  \E d \in Document :
              LET c == updater[u] IN
              /\ c.order \in Stored /\ c.copy \in Store!OrderStatus /\ c.target \in Store!OrderStatus
              /\ doc' = [doc EXCEPT ![c.order] = d]
              /\ d.status = IF c.copy = c.target THEN doc[c.order].status ELSE c.target
              /\ d.createdAt = doc[c.order].createdAt
              /\ d.updatedAt \in {doc[c.order].updatedAt, clock}
              /\ ToSet(d.history) = ToSet(doc[c.order].history) \cup
                    {s \in {c.target} : c.copy # c.target \/ s \in Store!MessagedStatus}
<1> DEFINE o == updater[u].order
           copy == updater[u].copy
           target == updater[u].target
           old == doc[o]
           P == Pushed(copy, target)
           st == IF copy = target THEN old.status ELSE target
           hi == old.history \o P
           up == IF P = <<>> THEN old.updatedAt ELSE clock
           f == [old EXCEPT !.status = st]
           g == [f EXCEPT !.history = hi]
           d == [old EXCEPT !.status = st, !.history = hi, !.updatedAt = up]
<1>1. o \in Stored /\ o \in Docs /\ copy \in Store!OrderStatus /\ target \in Store!OrderStatus
    BY DEF SaveDoc, DocsInv, CopyOK, Stored
<1>2. old \in Document /\ clock \in Nat
    BY <1>1 DEF DocsInv
<1>3. doc' = [doc EXCEPT ![o] = d]
    BY DEF SaveDoc
<1>4. /\ P \in Seq(Store!OrderStatus)
      /\ ToSet(P) = {s \in {target} : copy # target \/ s \in Store!MessagedStatus}
    BY <1>1, PushedEntries
<1>5. hi \in Seq(Store!OrderStatus) /\ ToSet(hi) = ToSet(old.history) \cup ToSet(P)
    BY <1>2, <1>4, AppendedEntries DEF Document
<1>6. /\ st \in Store!OrderStatus \cup {Store!NoDoc}
      /\ up \in Nat /\ up \in {old.updatedAt, clock}
    BY <1>1, <1>2 DEF Document
<1> HIDE DEF st, hi, up, P
<1> HIDE DEF old
<1>7. d = [g EXCEPT !.updatedAt = up]
    OBVIOUS
<1>8. /\ d \in Document
      /\ d.status = st /\ d.history = hi /\ d.createdAt = old.createdAt /\ d.updatedAt = up
    <2>1. f \in Document /\ f.status = st /\ f.createdAt = old.createdAt
        BY <1>2, <1>6 DEF Document
    <2> HIDE DEF f
    <2>2. g \in Document /\ g.status = st /\ g.history = hi /\ g.createdAt = old.createdAt
        BY <1>5, <2>1 DEF Document
    <2> HIDE DEF g, d
    <2> QED
        BY <1>6, <1>7, <2>2 DEF Document
<1> HIDE DEF d
<1>9. /\ doc' = [doc EXCEPT ![o] = d]
      /\ d.status = IF copy = target THEN doc[o].status ELSE target
      /\ d.createdAt = doc[o].createdAt
      /\ d.updatedAt \in {doc[o].updatedAt, clock}
      /\ ToSet(d.history) = ToSet(doc[o].history) \cup
            {s \in {target} : copy # target \/ s \in Store!MessagedStatus}
    BY <1>3, <1>4, <1>5, <1>6, <1>8 DEF st, hi, old
<1> QED
    BY <1>1, <1>8, <1>9

\* An order stays stored, at its time; a step stores one order or none.
LEMMA OrdersStay ==
    ASSUME DocsInv, CollectionNext \/ UNCHANGED collectionVars
    PROVE  /\ doc' \in [Docs -> Document]
           /\ Stored \subseteq Stored'
           /\ \A o \in Stored : doc'[o].createdAt = doc[o].createdAt
<1>1. CASE doc' = doc
    BY <1>1 DEF DocsInv, Stored
<1>2. ASSUME NEW o \in Docs, NEW d \in Document, doc' = [doc EXCEPT ![o] = d],
             d.status # Store!NoDoc, o \in Stored => d.createdAt = doc[o].createdAt
      PROVE  /\ doc' \in [Docs -> Document]
             /\ Stored \subseteq Stored'
             /\ \A p \in Stored : doc'[p].createdAt = doc[p].createdAt
    <2>1. \A p \in Docs : doc'[p] = IF p = o THEN d ELSE doc[p]
        BY <1>2 DEF DocsInv
    <2>2. \A p \in Stored : p \in Docs /\ doc'[p].status # Store!NoDoc
        BY <1>2, <2>1 DEF Stored
    <2>3. Stored' = {p \in Docs : doc'[p].status # Store!NoDoc}
        BY DEF Stored
    <2>4. doc' \in [Docs -> Document]
        BY <1>2 DEF DocsInv
    <2> QED
        BY <1>2, <2>1, <2>2, <2>3, <2>4
<1>3. ASSUME NEW o \in Docs, CreateDoc(o)
      PROVE  \E d \in Document : /\ doc' = [doc EXCEPT ![o] = d]
                                 /\ d.status # Store!NoDoc /\ o \notin Stored
    <2> DEFINE s == Store!InitialStatus(o)
               d == [status |-> s, history |-> <<s, s>>, createdAt |-> clock, updatedAt |-> clock]
    <2>1. s \in Store!OrderStatus /\ d \in Document /\ doc' = [doc EXCEPT ![o] = d]
        BY <1>3, CreatedDocument
    <2>2. d.status # Store!NoDoc /\ o \notin Stored
        BY <1>3, <2>1 DEF CreateDoc, Store!OrderStatus, Store!NoDoc
    <2> HIDE DEF d
    <2> QED
        BY <2>1, <2>2
<1>4. ASSUME NEW u \in Updaters, SaveDoc(u)
      PROVE  \E o \in Stored, d \in Document :
                /\ doc' = [doc EXCEPT ![o] = d]
                /\ d.status # Store!NoDoc /\ d.createdAt = doc[o].createdAt
    BY <1>4, SavedDocument DEF Stored, Store!OrderStatus, Store!NoDoc
<1>5. \A o \in Stored : o \in Docs
    BY DEF Stored
<1>6. \/ doc' = doc
      \/ \E o \in Docs : CreateDoc(o)
      \/ \E u \in Updaters : SaveDoc(u)
    BY DEF CollectionNext, collectionVars, Tick, ReadDoc, AskOrders, NextPage
<1> QED
    BY <1>1, <1>2, <1>3, <1>4, <1>5, <1>6

LEMMA DocsInit == CollectionInit => DocsInv
<1> SUFFICES ASSUME CollectionInit PROVE DocsInv
    OBVIOUS
<1>1. [status |-> Store!NoDoc, history |-> <<>>, createdAt |-> 0, updatedAt |-> 0] \in Document
    BY DEF Document
<1>2. doc \in [Docs -> Document] /\ clock \in Nat
    BY <1>1 DEF CollectionInit
<1>3. \A u \in Updaters : CopyOK(updater[u])
    BY DEF CollectionInit, CopyOK, NoCopy
<1> QED
    BY <1>2, <1>3 DEF DocsInv, CollectionInit

LEMMA DocsNext == DocsInv /\ [CollectionNext]_collectionVars => DocsInv'
<1> SUFFICES ASSUME DocsInv, CollectionNext \/ UNCHANGED collectionVars PROVE DocsInv'
    OBVIOUS
<1>1. doc' \in [Docs -> Document] /\ Stored \subseteq Stored'
    BY OrdersStay
<1>2. clock' = clock \/ clock' = clock + 1
    BY DEF CollectionNext, collectionVars, Tick, CreateDoc, SaveDoc, ReadDoc, AskOrders, NextPage
<1>3. ASSUME NEW u \in Updaters PROVE CopyOK(updater[u])'
    <2>1. updater'[u] = updater[u] \/ updater'[u] = NoCopy("done")
          \/ \E o \in Stored, t \in UpdateTargets : updater'[u] =
                [pc |-> "save", order |-> o, copy |-> doc[o].status, target |-> t]
        BY DEF DocsInv, CollectionNext, collectionVars, Tick, CreateDoc, SaveDoc, ReadDoc, AskOrders, NextPage
    <2>2. CASE updater'[u] = updater[u]
        BY <1>1, <2>2 DEF DocsInv, CopyOK
    <2>3. CASE updater'[u] = NoCopy("done")
        BY <2>3 DEF CopyOK, NoCopy
    <2>4. CASE \E o \in Stored, t \in UpdateTargets : updater'[u] =
                  [pc |-> "save", order |-> o, copy |-> doc[o].status, target |-> t]
        BY <1>1, <2>4, CollectionAssumption DEF DocsInv, CopyOK, Stored, Document
    <2> QED
        BY <2>1, <2>2, <2>3, <2>4
<1>4. DOMAIN updater' = Updaters
    BY DEF DocsInv, CollectionNext, collectionVars, Tick, CreateDoc, SaveDoc, ReadDoc, AskOrders, NextPage
<1>5. clock' \in Nat
    BY <1>2 DEF DocsInv
<1> QED
    BY <1>1, <1>3, <1>4, <1>5 DEF DocsInv

-----------------------------------------------------------------------------
\* What OrderStore sees of the documents.
Statuses == [o \in Docs |-> doc[o].status]
Recorded == [o \in Docs |-> ToSet(doc[o].history)]
StoreStep ==
    \/ \E o \in Docs : Store!InsertDoc(o)
    \/ \E u \in Updaters : Store!Save(updater[u].order, updater[u].copy, updater[u].target, 0)

LEMMA CreateIsInsert ==
    ASSUME DocsInv, NEW o \in Docs, CreateDoc(o)
    PROVE  Store!InsertDoc(o)
<1> DEFINE s == Store!InitialStatus(o)
           d == [status |-> s, history |-> <<s, s>>, createdAt |-> clock, updatedAt |-> clock]
<1>1. doc' = [doc EXCEPT ![o] = d] /\ ToSet(<<s, s>>) = {s}
    BY CreatedDocument
<1>2. d.status = s /\ ToSet(d.history) = {s}
    BY <1>1
<1> HIDE DEF d
<1>3. \A p \in Docs : doc'[p] = IF p = o THEN d ELSE doc[p]
    BY <1>1 DEF DocsInv
<1>4. [p \in Docs |-> doc'[p].status] = [[p \in Docs |-> doc[p].status] EXCEPT ![o] = s]
    BY <1>2, <1>3
<1>5. [p \in Docs |-> ToSet(doc'[p].history)]
         = [[p \in Docs |-> ToSet(doc[p].history)] EXCEPT ![o] = {s}]
    BY <1>2, <1>3
<1> QED
    BY <1>4, <1>5 DEF Store!InsertDoc

LEMMA SaveIsSave ==
    ASSUME DocsInv, NEW u \in Updaters, SaveDoc(u)
    PROVE  Store!Save(updater[u].order, updater[u].copy, updater[u].target, 0)
<1> DEFINE o == updater[u].order
           copy == updater[u].copy
           target == updater[u].target
           more == {s \in {target} : copy # target \/ s \in Store!MessagedStatus}
<1>1. PICK d \in Document :
          /\ o \in Stored
          /\ doc' = [doc EXCEPT ![o] = d]
          /\ d.status = IF copy = target THEN doc[o].status ELSE target
          /\ ToSet(d.history) = ToSet(doc[o].history) \cup more
    BY SavedDocument
<1>2. o \in Docs
    BY <1>1 DEF Stored
<1> HIDE DEF o, copy, target, more
<1>3. \A p \in Docs : doc'[p] = IF p = o THEN d ELSE doc[p]
    BY <1>1 DEF DocsInv
<1>4. [p \in Docs |-> doc'[p].status]
         = [[p \in Docs |-> doc[p].status] EXCEPT
               ![o] = IF copy = target THEN [p \in Docs |-> doc[p].status][o] ELSE target]
    <2> DEFINE st == IF copy = target THEN [p \in Docs |-> doc[p].status][o] ELSE target
    <2>1. d.status = st
        BY <1>1, <1>2
    <2> HIDE DEF st
    <2>2. [p \in Docs |-> doc'[p].status] = [[p \in Docs |-> doc[p].status] EXCEPT ![o] = st]
        BY <1>3, <2>1
    <2> QED
        BY <2>2 DEF st
<1>5. [p \in Docs |-> ToSet(doc'[p].history)]
         = [[p \in Docs |-> ToSet(doc[p].history)] EXCEPT
               ![o] = [p \in Docs |-> ToSet(doc[p].history)][o] \cup more]
    <2> DEFINE hi == [p \in Docs |-> ToSet(doc[p].history)][o] \cup more
    <2>1. ToSet(d.history) = hi
        BY <1>1, <1>2
    <2> HIDE DEF hi
    <2>2. [p \in Docs |-> ToSet(doc'[p].history)]
             = [[p \in Docs |-> ToSet(doc[p].history)] EXCEPT ![o] = hi]
        BY <1>3, <2>1
    <2> QED
        BY <2>2 DEF hi
<1>6. [p \in Docs |-> 0] = [[p \in Docs |-> 0] EXCEPT
         ![o] = IF 0 = Store!NoTx THEN [p \in Docs |-> 0][o] ELSE 0]
    BY <1>2 DEF Store!NoTx
<1> QED
    BY <1>4, <1>5, <1>6 DEF Store!Save, o, copy, target, more

\* The list of entries and the copies of models/Order.model.ts and OrderRepository: each
\* step is an insert or a save of OrderStore, on which the order engine is built.
THEOREM HistoryIsRecorded == CollectionSpec => RecordedIsHistory
<1>1. CollectionInit => Store!StoreInit
    <2> SUFFICES ASSUME CollectionInit PROVE Store!StoreInit
        OBVIOUS
    <2>1. \A o \in Docs : doc[o].status = Store!NoDoc /\ ToSet(doc[o].history) = {}
        BY DEF CollectionInit, ToSet
    <2> QED
        BY <2>1 DEF Store!StoreInit, Store!Orders, Store!NoTx, Docs
<1>2. DocsInv /\ [CollectionNext]_collectionVars => [StoreStep]_<<Statuses, Recorded>>
    <2> SUFFICES ASSUME DocsInv, CollectionNext \/ UNCHANGED collectionVars
                 PROVE  StoreStep \/ UNCHANGED <<Statuses, Recorded>>
        OBVIOUS
    <2>1. \/ doc' = doc
          \/ \E o \in Docs : CreateDoc(o)
          \/ \E u \in Updaters : SaveDoc(u)
        BY DEF CollectionNext, collectionVars, Tick, ReadDoc, AskOrders, NextPage
    <2>2. CASE doc' = doc
        BY <2>2 DEF Statuses, Recorded
    <2> QED
        BY <2>1, <2>2, CreateIsInsert, SaveIsSave DEF StoreStep
<1>3. CollectionSpec => [][StoreStep]_<<Statuses, Recorded>>
    <2>1. DocsInv /\ [CollectionNext]_collectionVars => DocsInv'
        BY DocsNext
    <2> QED
        BY DocsInit, <1>2, <2>1, PTL DEF CollectionSpec
<1>4. CollectionSpec => Store!StoreInit
    BY <1>1 DEF CollectionSpec
<1> QED
    BY <1>3, <1>4, PTL DEF RecordedIsHistory, StoreStep, Statuses, Recorded

-----------------------------------------------------------------------------
\* The pages.

LEMMA StoredIsFinite == IsFiniteSet(Stored) /\ Stored \subseteq Docs
<1>1. Stored \subseteq Docs
    BY DEF Stored
<1> QED
    BY <1>1, CollectionAssumption, FS_Subset

LEMMA CountOfPositions ==
    ASSUME NEW n \in Nat, NEW T, NEW f \in [1 .. n -> T],
           \A i, j \in 1 .. n : i # j => f[i] # f[j],
           \A t \in T : \E i \in 1 .. n : f[i] = t
    PROVE  Cardinality(T) = n
<1>1. f \in Bijection(1 .. n, T)
    BY DEF Bijection, Injection, Surjection, IsInjective
<1>2. IsFiniteSet(1 .. n) /\ Cardinality(1 .. n) = n
    BY FS_Interval
<1> QED
    BY <1>1, <1>2, FS_Bijection DEF ExistsBijection

\* A listing has each order at one position.
LEMMA ListingPositions ==
    ASSUME NEW l \in Listings
    PROVE  /\ l \in [1 .. Cardinality(Stored) -> Stored]
           /\ Cardinality(Stored) \in Nat
           /\ Len(l) = Cardinality(Stored)
           /\ \A i, j \in 1 .. Len(l) : i # j => l[i] # l[j]
           /\ \A i, j \in 1 .. Len(l) : i < j => SortKey(l[i]) >= SortKey(l[j])
           /\ \A o \in Stored : \E i \in 1 .. Len(l) : l[i] = o
<1> DEFINE n == Cardinality(Stored)
<1>1. n \in Nat
    BY StoredIsFinite, FS_CardinalityType
<1>2. /\ l \in [1 .. n -> Stored]
      /\ \A i, j \in 1 .. n : i # j => l[i] # l[j]
    BY DEF Listings, SetToSeqs
<1>3. \A i, j \in 1 .. Len(l) : i < j => SortKey(l[i]) >= SortKey(l[j])
    BY DEF Listings
<1>4. l \in Seq(Stored)
    BY <1>1, <1>2, SeqDef
<1>5. Len(l) = n
    BY <1>1, <1>2, <1>4
<1>6. IsFiniteSet(1 .. n) /\ Cardinality(1 .. n) = n
    BY <1>1, FS_Interval
<1>7. l \in Injection(1 .. n, Stored)
    BY <1>2 DEF Injection, IsInjective
<1>8. l \in Surjection(1 .. n, Stored)
    BY <1>6, <1>7, StoredIsFinite, FS_Injection
<1> QED
    BY <1>1, <1>2, <1>3, <1>5, <1>8 DEF Surjection

\* An order without a peer is at the same position in all of them.
LEMMA PositionOfUntied ==
    ASSUME NEW l \in Listings, DocsInv, NEW i \in 1 .. Len(l), Untied(l[i])
    PROVE  Cardinality(Newer(l[i])) = i - 1
<1> DEFINE o == l[i]
           f == [j \in 1 .. i - 1 |-> l[j]]
<1>1. /\ l \in [1 .. Len(l) -> Stored] /\ Len(l) \in Nat /\ i \in 1 .. Len(l) /\ o \in Stored
      /\ \A j, k \in 1 .. Len(l) : j # k => l[j] # l[k]
      /\ \A j, k \in 1 .. Len(l) : j < k => SortKey(l[j]) >= SortKey(l[k])
      /\ \A p \in Stored : \E j \in 1 .. Len(l) : l[j] = p
    BY ListingPositions
<1>2. \A p \in Stored : doc[p].createdAt \in Nat /\ SortKey(p) = doc[p].createdAt
    BY StoredIsFinite DEF DocsInv, Document, SortKey
<1>3. ASSUME NEW j \in 1 .. i - 1 PROVE l[j] \in Newer(o)
    <2>1. /\ j \in 1 .. Len(l) /\ j < i /\ l[j] \in Stored /\ l[j] # o
          /\ SortKey(l[j]) >= SortKey(o)
        BY <1>1
    <2> QED
        BY <1>1, <1>2, <2>1 DEF Newer, Untied
<1>4. ASSUME NEW p \in Newer(o) PROVE \E j \in 1 .. i - 1 : l[j] = p
    <2>1. p \in Stored /\ SortKey(p) > SortKey(o) /\ SortKey(p) \in Nat /\ SortKey(o) \in Nat
        BY <1>1, <1>2, <1>4 DEF Newer
    <2>2. PICK j \in 1 .. Len(l) : l[j] = p
        BY <1>1, <2>1
    <2>3. j # i /\ ~(i < j)
        BY <1>1, <2>1, <2>2
    <2> QED
        BY <2>2, <2>3
<1>5. /\ i - 1 \in Nat /\ f \in [1 .. i - 1 -> Newer(o)]
      /\ \A j, k \in 1 .. i - 1 : j # k => f[j] # f[k]
      /\ \A p \in Newer(o) : \E j \in 1 .. i - 1 : f[j] = p
    BY <1>1, <1>3, <1>4
<1> HIDE DEF f, o
<1>6. Cardinality(Newer(o)) = i - 1
    BY <1>5, CountOfPositions
<1> QED
    BY <1>6 DEF o

\* What a page shows of a listing, and when it is full.
LEMMA PageOfListing ==
    ASSUME NEW l \in Listings, NEW skip \in Nat, NEW size \in Nat
    PROVE  LET P == Page(l, skip, size) IN
           /\ P \subseteq Stored
           /\ \A i \in 1 .. Len(l) :
                 i > skip /\ (size = 0 \/ i <= skip + size) => l[i] \in P
           /\ size > 0 /\ skip + size <= Len(l) => Cardinality(P) = size
<1> DEFINE last == IF size = 0 \/ skip + size > Len(l) THEN Len(l) ELSE skip + size
           s == SubSeq(l, skip + 1, last)
           P == Page(l, skip, size)
<1>1. /\ l \in [1 .. Len(l) -> Stored] /\ Len(l) \in Nat
      /\ \A i, j \in 1 .. Len(l) : i # j => l[i] # l[j]
    BY ListingPositions
<1>2. P = ToSet(s)
    BY DEF Page
<1>3. last \in Nat /\ last <= Len(l)
    BY <1>1
<1>4. size > 0 /\ skip + size <= Len(l) => last = skip + size
    OBVIOUS
<1>5. \A i \in 1 .. Len(l) : i > skip /\ (size = 0 \/ i <= skip + size) => i <= last
    BY <1>1
<1> HIDE DEF last
<1>6. /\ s \in Seq(Stored)
      /\ Len(s) = IF skip + 1 <= last THEN last - (skip + 1) + 1 ELSE 0
      /\ \A i \in 1 .. last - (skip + 1) + 1 : s[i] = l[skip + 1 + i - 1]
    <2>1. \A i \in skip + 1 .. last : l[i] \in Stored
        BY <1>1, <1>3
    <2> QED
        BY <1>3, <2>1, SubSeqProperties
<1> HIDE DEF s, P
<1>7. DOMAIN s = 1 .. Len(s) /\ Len(s) \in Nat /\ \A i \in 1 .. Len(s) : s[i] \in Stored
    BY <1>6
<1>8. P \subseteq Stored
    BY <1>2, <1>7 DEF ToSet
<1>9. ASSUME NEW i \in 1 .. Len(l), i > skip, size = 0 \/ i <= skip + size
      PROVE  l[i] \in P
    <2>1. i <= last
        BY <1>5, <1>9
    <2>2. i - skip \in 1 .. Len(s) /\ s[i - skip] = l[i]
        BY <1>1, <1>3, <1>6, <1>9, <2>1
    <2> QED
        BY <1>2, <1>7, <2>2 DEF ToSet
<1>10. ASSUME size > 0, skip + size <= Len(l) PROVE Cardinality(P) = size
    <2>1. last = skip + size /\ Len(s) = size
        BY <1>4, <1>6, <1>10
    <2>2. s \in [1 .. size -> Stored]
        BY <1>6, <2>1
    <2>3. \A i, j \in 1 .. size : i # j => s[i] # s[j]
        <3>1. \A i \in 1 .. size : s[i] = l[skip + i] /\ skip + i \in 1 .. Len(l)
            BY <1>1, <1>3, <1>6, <2>1
        <3> QED
            BY <1>1, <3>1
    <2>4. s \in [1 .. size -> P] /\ \A p \in P : \E i \in 1 .. size : s[i] = p
        BY <1>2, <1>7, <2>1, <2>2 DEF ToSet
    <2> QED
        BY <2>3, <2>4, CountOfPositions
<1> QED
    BY <1>8, <1>9, <1>10 DEF P

LEMMA PagingInit == CollectionInit => PagingInv
BY DEF CollectionInit, PagingInv, Reader

\* Orders come and change: what is still ahead stays ahead.
LEMMA PagingWaits ==
    ASSUME DocsInv, PagingInv, CollectionNext \/ UNCHANGED collectionVars, client' = client
    PROVE  PagingInv'
<1>1. Stored \subseteq Stored' /\ \A o \in Stored : doc'[o].createdAt = doc[o].createdAt
    BY OrdersStay
<1>2. client' \in Reader /\ client'.expected \subseteq Stored'
    BY <1>1 DEF PagingInv
<1>3. Stored' \subseteq Docs
    BY DEF Stored
<1>4. IsFiniteSet(Stored')
    BY <1>3, CollectionAssumption, FS_Subset
<1>5. ASSUME NEW o \in client.expected \ client.seen, Untied(o)'
      PROVE  client.pc = "paging" /\ Cardinality(Newer(o)') >= client.skip
    <2>1. o \in Stored
        BY <1>5 DEF PagingInv
    <2>2. Untied(o)
        BY <1>1, <1>5, <2>1 DEF Untied
    <2>3. Newer(o) \subseteq Newer(o)' /\ Newer(o)' \subseteq Stored'
        BY <1>1, <2>1 DEF Newer
    <2>4. /\ Cardinality(Newer(o)) <= Cardinality(Newer(o)')
          /\ Cardinality(Newer(o)) \in Nat /\ Cardinality(Newer(o)') \in Nat
        BY <1>4, <2>3, FS_Subset, FS_CardinalityType
    <2> QED
        BY <1>5, <2>2, <2>4 DEF PagingInv, Reader
<1>6. (\A o \in client.expected \ client.seen :
          Untied(o) => client.pc = "paging" /\ Cardinality(Newer(o)) >= client.skip)'
    BY <1>5
<1> QED
    BY <1>2, <1>6 DEF PagingInv

LEMMA AskOrders_Paging ==
    ASSUME DocsInv, PagingInv, NEW size \in PageSizes, AskOrders(size)
    PROVE  PagingInv'
<1>1. doc' = doc /\ Stored' = Stored
    BY DEF AskOrders, Stored
<1>2. client' = [pc |-> "paging", size |-> size, skip |-> 0, expected |-> Stored, seen |-> {}]
    BY DEF AskOrders
<1>3. client' \in Reader
    BY <1>2, StoredIsFinite, CollectionAssumption DEF Reader
<1>4. ASSUME NEW o \in Stored PROVE Cardinality(Newer(o)') >= 0
    <2>1. Newer(o)' = Newer(o) /\ Newer(o) \subseteq Stored
        BY <1>1 DEF Newer
    <2>2. Cardinality(Newer(o)) \in Nat
        BY <2>1, StoredIsFinite, FS_Subset, FS_CardinalityType
    <2> QED
        BY <2>1, <2>2
<1>5. (\A o \in client.expected \ client.seen :
          Untied(o) => client.pc = "paging" /\ Cardinality(Newer(o)) >= client.skip)'
    BY <1>2, <1>4
<1> QED
    BY <1>1, <1>2, <1>3, <1>5 DEF PagingInv

LEMMA NextPage_Paging ==
    ASSUME DocsInv, PagingInv, NextPage
    PROVE  PagingInv'
<1>1. PICK l \in Listings :
          LET page == Page(l, client.skip, client.size)
              more == client.size > 0 /\ Cardinality(page) = client.size
          IN  client' = [client EXCEPT
                 !.pc = IF more THEN "paging" ELSE "done",
                 !.skip = @ + client.size,
                 !.seen = @ \cup page]
    BY DEF NextPage
<1> DEFINE size == client.size
           skip == client.skip
           page == Page(l, skip, size)
           more == size > 0 /\ Cardinality(page) = size
           pc == IF more THEN "paging" ELSE "done"
<1>2. client \in Reader /\ size \in Nat /\ skip \in Nat
    BY DEF PagingInv, Reader
<1>3. /\ page \subseteq Stored
      /\ \A i \in 1 .. Len(l) :
            i > skip /\ (size = 0 \/ i <= skip + size) => l[i] \in page
      /\ size > 0 /\ skip + size <= Len(l) => Cardinality(page) = size
    BY <1>2, PageOfListing
<1>4. doc' = doc /\ Stored' = Stored
    BY DEF NextPage, Stored
<1>5. pc \in {"paging", "done"} /\ (pc = "done" => ~more)
    OBVIOUS
<1>6. client' = [client EXCEPT !.pc = pc, !.skip = skip + size, !.seen = client.seen \cup page]
    BY <1>1
<1> HIDE DEF pc, page
<1>7. /\ client' \in Reader
      /\ client'.pc = pc /\ client'.skip = skip + size /\ client'.seen = client.seen \cup page
      /\ client'.expected = client.expected
    <2> DEFINE c == [client EXCEPT !.pc = pc]
               d == [c EXCEPT !.skip = skip + size]
    <2>1. c \in Reader /\ c.pc = pc /\ c.seen = client.seen /\ c.expected = client.expected
        BY <1>2, <1>5 DEF Reader
    <2>2. client' = [d EXCEPT !.seen = client.seen \cup page]
        BY <1>6
    <2> HIDE DEF c
    <2>3. /\ d \in Reader /\ d.pc = pc /\ d.skip = skip + size
          /\ d.seen = client.seen /\ d.expected = client.expected
        BY <1>2, <2>1 DEF Reader
    <2> HIDE DEF d
    <2>4. client.seen \cup page \in SUBSET Docs
        BY <1>2, <1>3, StoredIsFinite DEF Reader
    <2> QED
        BY <2>2, <2>3, <2>4 DEF Reader
<1>8. ASSUME NEW o \in client.expected \ client.seen, o \notin page, Untied(o)
      PROVE  pc = "paging" /\ Cardinality(Newer(o)) >= skip + size
    <2>1. o \in Stored /\ Cardinality(Newer(o)) >= skip
        BY <1>8 DEF PagingInv
    <2>2. PICK i \in 1 .. Len(l) : l[i] = o
        BY <2>1, ListingPositions
    <2>3. Cardinality(Newer(o)) = i - 1 /\ Len(l) \in Nat
        BY <1>8, <2>2, PositionOfUntied, ListingPositions
    <2>4. i > skip
        BY <1>2, <2>1, <2>3
    <2>5. size > 0 /\ i > skip + size
        BY <1>2, <1>3, <1>8, <2>2, <2>4
    <2>6. more
        BY <1>2, <1>3, <2>3, <2>5
    <2> QED
        BY <1>2, <1>5, <2>3, <2>5, <2>6
<1>9. \A o \in Stored : Newer(o)' = Newer(o) /\ (Untied(o)' <=> Untied(o))
    BY <1>4 DEF Newer, Untied
<1>10. (\A o \in client.expected \ client.seen :
          Untied(o) => client.pc = "paging" /\ Cardinality(Newer(o)) >= client.skip)'
    BY <1>7, <1>8, <1>9 DEF PagingInv
<1> QED
    BY <1>4, <1>7, <1>10 DEF PagingInv

LEMMA PagingNext == DocsInv /\ PagingInv /\ [CollectionNext]_collectionVars => PagingInv'
<1> SUFFICES ASSUME DocsInv, PagingInv, CollectionNext \/ UNCHANGED collectionVars
             PROVE  PagingInv'
    OBVIOUS
<1>1. \/ client' = client
      \/ \E size \in PageSizes : AskOrders(size)
      \/ NextPage
    BY DEF CollectionNext, collectionVars, Tick, CreateDoc, SaveDoc, ReadDoc
<1> QED
    BY <1>1, PagingWaits, AskOrders_Paging, NextPage_Paging

\* The list queries of OrderRepository, page after page while orders are created and
\* updated: only orders of the same millisecond can hide one from the reader.
THEOREM PagesMissTiesOnly == CollectionSpec => []PagingMissesTiesOnly
<1>1. PagingInv => PagingMissesTiesOnly
    BY DEF PagingInv, PagingMissesTiesOnly, Untied
<1>2. CollectionInit => DocsInv /\ PagingInv
    BY DocsInit, PagingInit
<1>3. DocsInv /\ PagingInv /\ [CollectionNext]_collectionVars => DocsInv' /\ PagingInv'
    BY DocsNext, PagingNext
<1> QED
    BY <1>1, <1>2, <1>3, PTL DEF CollectionSpec

-----------------------------------------------------------------------------
(***************************************************************************)
(* The fees.  A sum is a recursive function of how far it has got, so what *)
(* it is between needs induction.                                          *)
(***************************************************************************)

\* Induction up to n, for a set instead of a formula: a least number outside of it would
\* follow one inside.
LEMMA CountingUp ==
    ASSUME NEW n \in Nat, NEW G, 0 \in G, \A m \in 0 .. n - 1 : m \in G => m + 1 \in G
    PROVE  n \in G
<1> DEFINE R == OpToRel(<, Nat)
           Bad == (0 .. n) \ G
<1>1. IsWellFoundedOn(R, Nat)
    BY NatLessThanWellFounded
<1>2. \A x, y \in Nat : x < y => <<x, y>> \in R
    BY DEF OpToRel
<1>3. Bad \subseteq Nat
    OBVIOUS
<1> HIDE DEF R
<1>4. ASSUME Bad # {} PROVE FALSE
    <2>1. \E x \in Bad : \A y \in Bad : ~(<<y, x>> \in R)
        <3> HIDE DEF Bad
        <3> QED
            BY <1>1, <1>3, <1>4, WFMin
    <2>2. PICK x \in 0 .. n : x \notin G /\ \A y \in Bad : ~(<<y, x>> \in R)
        BY <2>1
    <2>3. x # 0
        BY <2>2
    <2>4. x - 1 \in 0 .. n - 1 /\ x - 1 \in Nat /\ x \in Nat /\ x - 1 < x
        BY <2>2, <2>3
    <2>5. x - 1 \notin Bad
        BY <1>2, <2>2, <2>4
    <2>6. x - 1 \in G
        BY <2>4, <2>5
    <2> QED
        BY <2>2, <2>4, <2>6
<1> QED
    BY <1>4

LEMMA SumsExist ==
    ASSUME NEW s \in Seq(Nat)
    PROVE  \E t : t = [i \in 0 .. Len(s) |-> IF i = 0 THEN 0 ELSE t[i - 1] + s[i]]
<1> DEFINE UpTo(n, t) == /\ t \in [0 .. n -> Nat] /\ t[0] = 0
                         /\ \A i \in 1 .. n : t[i] = t[i - 1] + s[i]
           G == {n \in Nat : \E t : UpTo(n, t)}
<1>0. Len(s) \in Nat /\ \A i \in 1 .. Len(s) : s[i] \in Nat
    OBVIOUS
<1>1. 0 \in G
    <2>1. UpTo(0, [i \in 0 .. 0 |-> 0])
        OBVIOUS
    <2> QED
        BY <2>1
<1>2. ASSUME NEW m \in 0 .. Len(s) - 1, NEW t, UpTo(m, t)
      PROVE  \E u : UpTo(m + 1, u)
    <2> DEFINE x == t[m] + s[m + 1]
               u == [i \in 0 .. m + 1 |-> IF i = m + 1 THEN x ELSE t[i]]
    <2>1. m \in Nat /\ m + 1 \in 1 .. Len(s) /\ s[m + 1] \in Nat /\ m \in 0 .. m
        BY <1>0
    <2>2. t \in [0 .. m -> Nat] /\ t[0] = 0 /\ \A i \in 1 .. m : t[i] = t[i - 1] + s[i]
        BY <1>2
    <2>3. x \in Nat
        BY <2>1, <2>2
    <2>4. \A i \in 0 .. m + 1 : i = m + 1 \/ i \in 0 .. m
        BY <2>1
    <2> HIDE DEF x
    <2>5. u \in [0 .. m + 1 -> Nat]
        BY <2>2, <2>3, <2>4
    <2>6. 0 \in 0 .. m + 1 /\ 0 # m + 1 /\ m + 1 \in 0 .. m + 1 /\ m \in 0 .. m + 1 /\ m # m + 1
        BY <2>1
    <2>7. u[0] = 0 /\ u[m + 1] = t[m] + s[m + 1] /\ u[m] = t[m]
        BY <2>2, <2>6 DEF x
    <2>8. ASSUME NEW i \in 1 .. m + 1 PROVE u[i] = u[i - 1] + s[i]
        <3>1. CASE i = m + 1
            <4>1. i - 1 = m
                BY <2>1, <3>1
            <4> HIDE DEF u
            <4> QED
                BY <2>7, <3>1, <4>1
        <3>2. CASE i # m + 1
            <4>1. /\ i \in 1 .. m /\ i \in 0 .. m + 1 /\ i - 1 \in 0 .. m + 1
                  /\ i # m + 1 /\ i - 1 # m + 1
                BY <2>1, <3>2
            <4>2. u[i] = t[i] /\ u[i - 1] = t[i - 1]
                BY <4>1
            <4> QED
                BY <2>2, <4>1, <4>2
        <3> QED
            BY <3>1, <3>2
    <2> HIDE DEF u
    <2> QED
        BY <2>5, <2>7, <2>8
<1>3. \A m \in 0 .. Len(s) - 1 : m \in G => m + 1 \in G
    <2> HIDE DEF UpTo
    <2> QED
        BY <1>0, <1>2
<1>4. Len(s) \in G
    <2> HIDE DEF G
    <2> QED
        BY <1>0, <1>1, <1>3, CountingUp
<1>5. PICK t : UpTo(Len(s), t)
    BY <1>4
<1>6. t = [i \in 0 .. Len(s) |-> IF i = 0 THEN 0 ELSE t[i - 1] + s[i]]
    <2>1. \A i \in 0 .. Len(s) : i = 0 \/ i \in 1 .. Len(s)
        BY <1>0
    <2> QED
        BY <1>5, <2>1
<1> QED
    BY <1>6

LEMMA SumsUnfold ==
    ASSUME NEW s \in Seq(Nat)
    PROVE  /\ Sums(s)[0] = 0
           /\ \A i \in 1 .. Len(s) : Sums(s)[i] = Sums(s)[i - 1] + s[i]
<1>1. Sums(s) = [i \in 0 .. Len(s) |-> IF i = 0 THEN 0 ELSE Sums(s)[i - 1] + s[i]]
    BY SumsExist DEF Sums
<1>2. Len(s) \in Nat
    OBVIOUS
<1> HIDE DEF Sums
<1>3. \A i \in 1 .. Len(s) : i \in 0 .. Len(s) /\ i # 0
    BY <1>2
<1>4. 0 \in 0 .. Len(s)
    BY <1>2
<1> QED
    BY <1>1, <1>3, <1>4

\* What a sum is between, for bounds of what is added up.
LEMMA SumsBetween ==
    ASSUME NEW s \in Seq(Nat), NEW lo \in Nat, NEW hi \in Nat,
           \A i \in 1 .. Len(s) : lo <= s[i] /\ s[i] <= hi
    PROVE  Total(s) \in Nat /\ Len(s) * lo <= Total(s) /\ Total(s) <= Len(s) * hi
<1> DEFINE t == Sums(s)
           G == {n \in Nat : t[n] \in Nat /\ n * lo <= t[n] /\ t[n] <= n * hi}
<1>1. Len(s) \in Nat /\ \A i \in 1 .. Len(s) : s[i] \in Nat
    OBVIOUS
<1>2. t[0] = 0 /\ \A i \in 1 .. Len(s) : t[i] = t[i - 1] + s[i]
    BY SumsUnfold
<1> HIDE DEF t
<1>3. 0 \in G
    BY <1>2
<1>4. ASSUME NEW m \in 0 .. Len(s) - 1, m \in G PROVE m + 1 \in G
    <2>1. m \in Nat /\ m + 1 \in 1 .. Len(s) /\ m + 1 - 1 = m
        BY <1>1
    <2>2. t[m + 1] = t[m] + s[m + 1] /\ s[m + 1] \in Nat /\ lo <= s[m + 1] /\ s[m + 1] <= hi
        BY <1>1, <1>2, <2>1
    <2>3. t[m] \in Nat /\ m * lo <= t[m] /\ t[m] <= m * hi
        BY <1>4
    <2>4. (m + 1) * lo = m * lo + lo /\ (m + 1) * hi = m * hi + hi
        BY <2>1
    <2>5. m * lo \in Int /\ m * hi \in Int
        BY <2>1
    <2> QED
        BY <2>1, <2>2, <2>3, <2>4, <2>5
<1>5. Len(s) \in G
    <2> HIDE DEF G
    <2> QED
        BY <1>1, <1>3, <1>4, CountingUp
<1> QED
    BY <1>5 DEF Total, t

LEMMA GreatestIsThere ==
    ASSUME NEW s \in Seq(Nat), s # <<>>
    PROVE  \E k \in 1 .. Len(s) : \A i \in 1 .. Len(s) : s[i] <= s[k]
<1> DEFINE Tops(k, n) == \A i \in 1 .. n : s[i] <= s[k]
           G == {n \in Nat : n = 0 \/ \E k \in 1 .. n : Tops(k, n)}
<1>1. Len(s) \in Nat /\ Len(s) # 0 /\ \A i \in 1 .. Len(s) : s[i] \in Nat
    OBVIOUS
<1>2. 0 \in G
    OBVIOUS
<1>3. ASSUME NEW m \in 0 .. Len(s) - 1, m \in G PROVE m + 1 \in G
    <2>1. /\ m \in Nat /\ m + 1 \in Nat /\ m + 1 \in 1 .. m + 1 /\ s[m + 1] \in Nat
          /\ \A i \in 1 .. m + 1 : i = m + 1 \/ i \in 1 .. m
          /\ \A i \in 1 .. m : i \in 1 .. m + 1 /\ s[i] \in Nat
        BY <1>1
    <2>2. CASE m = 0
        <3>1. Tops(1, m + 1)
            BY <2>1, <2>2
        <3> QED
            BY <2>1, <2>2, <3>1
    <2>3. CASE m # 0
        <3>1. PICK k \in 1 .. m : Tops(k, m)
            BY <1>3, <2>3
        <3>2. CASE s[m + 1] <= s[k]
            <4>1. Tops(k, m + 1)
                BY <2>1, <3>1, <3>2
            <4> QED
                BY <2>1, <4>1
        <3>3. CASE s[k] < s[m + 1]
            <4>1. s[k] \in Nat
                BY <2>1
            <4>2. \A i \in 1 .. m : s[i] <= s[m + 1]
                BY <2>1, <3>1, <3>3, <4>1
            <4>3. Tops(m + 1, m + 1)
                BY <2>1, <4>2
            <4> QED
                BY <2>1, <4>3
        <3>4. s[m + 1] <= s[k] \/ s[k] < s[m + 1]
            <4>1. s[k] \in Nat /\ s[m + 1] \in Nat
                BY <2>1
            <4> QED
                BY <4>1
        <3> QED
            BY <3>2, <3>3, <3>4
    <2> QED
        BY <2>2, <2>3
<1>4. Len(s) \in G
    <2> HIDE DEF G
    <2> QED
        BY <1>1, <1>2, <1>3, CountingUp
<1> QED
    BY <1>1, <1>4

LEMMA LeastIsThere ==
    ASSUME NEW s \in Seq(Nat), s # <<>>
    PROVE  \E k \in 1 .. Len(s) : \A i \in 1 .. Len(s) : s[k] <= s[i]
<1> DEFINE Ends(k, n) == \A i \in 1 .. n : s[k] <= s[i]
           G == {n \in Nat : n = 0 \/ \E k \in 1 .. n : Ends(k, n)}
<1>1. Len(s) \in Nat /\ Len(s) # 0 /\ \A i \in 1 .. Len(s) : s[i] \in Nat
    OBVIOUS
<1>2. 0 \in G
    OBVIOUS
<1>3. ASSUME NEW m \in 0 .. Len(s) - 1, m \in G PROVE m + 1 \in G
    <2>1. /\ m \in Nat /\ m + 1 \in Nat /\ m + 1 \in 1 .. m + 1 /\ s[m + 1] \in Nat
          /\ \A i \in 1 .. m + 1 : i = m + 1 \/ i \in 1 .. m
          /\ \A i \in 1 .. m : i \in 1 .. m + 1 /\ s[i] \in Nat
        BY <1>1
    <2>2. CASE m = 0
        <3>1. Ends(1, m + 1)
            BY <2>1, <2>2
        <3> QED
            BY <2>1, <2>2, <3>1
    <2>3. CASE m # 0
        <3>1. PICK k \in 1 .. m : Ends(k, m)
            BY <1>3, <2>3
        <3>2. CASE s[k] <= s[m + 1]
            <4>1. Ends(k, m + 1)
                BY <2>1, <3>1, <3>2
            <4> QED
                BY <2>1, <4>1
        <3>3. CASE s[m + 1] < s[k]
            <4>1. s[k] \in Nat
                BY <2>1
            <4>2. \A i \in 1 .. m : s[m + 1] <= s[i]
                BY <2>1, <3>1, <3>3, <4>1
            <4>3. Ends(m + 1, m + 1)
                BY <2>1, <4>2
            <4> QED
                BY <2>1, <4>3
        <3>4. s[k] <= s[m + 1] \/ s[m + 1] < s[k]
            <4>1. s[k] \in Nat /\ s[m + 1] \in Nat
                BY <2>1
            <4> QED
                BY <4>1
        <3> QED
            BY <3>2, <3>3, <3>4
    <2> QED
        BY <2>2, <2>3
<1>4. Len(s) \in G
    <2> HIDE DEF G
    <2> QED
        BY <1>1, <1>2, <1>3, CountingUp
<1> QED
    BY <1>1, <1>4

\* The average of a sample is between its least and its greatest fee.
LEMMA SampleFees ==
    ASSUME NEW s \in Seq(Nat)
    PROVE  \E a, b, t \in Nat, n \in Nat \ {0} :
              /\ NetworkFees(s) = [min |-> <<a, 1>>, avg |-> <<t, n>>, max |-> <<b, 1>>]
              /\ n * a <= t /\ t <= n * b
<1>1. CASE s = <<>>
    <2> DEFINE a == 5000
    <2>1. NetworkFees(s) = [min |-> <<a, 1>>, avg |-> <<a, 1>>, max |-> <<a, 1>>]
        BY <1>1 DEF NetworkFees
    <2>2. a \in Nat /\ 1 \in Nat \ {0}
        OBVIOUS
    <2> HIDE DEF a
    <2>3. 1 * a <= a /\ a <= 1 * a
        BY <2>2
    <2> QED
        BY <2>1, <2>2, <2>3
<1>2. CASE s # <<>>
    <2> DEFINE T == ToSet(s)
    <2>0. Len(s) \in Nat \ {0} /\ \A i \in 1 .. Len(s) : s[i] \in Nat
        BY <1>2
    <2>1. T = {s[i] : i \in 1 .. Len(s)}
        BY DEF ToSet
    <2>2. T \in SUBSET Nat /\ T # {}
        BY <2>0, <2>1
    <2>3. Least(s) \in T /\ \A y \in T : Least(s) <= y
        <3>1. PICK k \in 1 .. Len(s) : \A i \in 1 .. Len(s) : s[k] <= s[i]
            BY <1>2, LeastIsThere
        <3>2. s[k] \in T /\ \A y \in T : s[k] <= y
            BY <2>0, <2>1, <3>1
        <3> QED
            BY <3>2 DEF Least
    <2>4. Greatest(s) \in T /\ \A y \in T : Greatest(s) >= y
        <3>1. PICK k \in 1 .. Len(s) : \A i \in 1 .. Len(s) : s[i] <= s[k]
            BY <1>2, GreatestIsThere
        <3>2. s[k] \in T /\ \A y \in T : s[k] >= y
            BY <2>0, <2>1, <3>1
        <3> QED
            BY <3>2 DEF Greatest
    <2> HIDE DEF T
    <2>5. \A i \in 1 .. Len(s) : Least(s) <= s[i] /\ s[i] <= Greatest(s)
        BY <2>0, <2>1, <2>2, <2>3, <2>4
    <2>6. Least(s) \in Nat /\ Greatest(s) \in Nat
        BY <2>2, <2>3, <2>4
    <2>7. Total(s) \in Nat /\ Len(s) * Least(s) <= Total(s) /\ Total(s) <= Len(s) * Greatest(s)
        BY <2>5, <2>6, SumsBetween
    <2>8. NetworkFees(s) = [min |-> <<Least(s), 1>>, avg |-> <<Total(s), Len(s)>>,
                            max |-> <<Greatest(s), 1>>]
        BY <1>2 DEF NetworkFees
    <2> QED
        BY <2>0, <2>6, <2>7, <2>8
<1> QED
    BY <1>1, <1>2

LEMMA QuotientsInOrder ==
    ASSUME NEW x \in Nat, NEW y \in Nat \ {0}, NEW z \in Nat, NEW w \in Nat \ {0},
           x * w <= z * y
    PROVE  x \div y <= z \div w /\ x \div y \in Nat
<1> DEFINE q == x \div y
           r == z \div w
<1>1. q \in Nat /\ q * y <= x
    OBVIOUS
<1>2. r \in Nat /\ z < (r + 1) * w
    OBVIOUS
<1> HIDE DEF q, r
<1>3. ASSUME r + 1 <= q PROVE FALSE
    <2>1. (r + 1) * w <= q * w
        BY <1>1, <1>2, <1>3
    <2>2. (q * y) * w <= x * w
        BY <1>1
    <2>3. (z + 1) * y <= ((r + 1) * w) * y
        BY <1>2
    <2>4. ((r + 1) * w) * y <= (q * w) * y
        BY <1>1, <1>2, <2>1
    <2>5. (q * w) * y = (q * y) * w
        BY <1>1
    <2>6. (z + 1) * y = z * y + y
        OBVIOUS
    <2>7. /\ z * y \in Int /\ x * w \in Int /\ (z + 1) * y \in Int /\ (q * w) * y \in Int
          /\ ((r + 1) * w) * y \in Int /\ (q * y) * w \in Int
        BY <1>1, <1>2
    <2> QED
        BY <2>2, <2>3, <2>4, <2>5, <2>6, <2>7
<1>4. q <= r
    BY <1>1, <1>2, <1>3
<1> QED
    BY <1>1, <1>4 DEF q, r

\* Lamports keeps the order of the fractions.
LEMMA LamportsInOrder ==
    ASSUME NEW u \in Nat, NEW x \in Nat, NEW y \in Nat \ {0}, NEW z \in Nat, NEW w \in Nat \ {0},
           x * w <= z * y
    PROVE  Lamports(u, <<x, y>>) <= Lamports(u, <<z, w>>) /\ Lamports(u, <<x, y>>) \in Nat
<1>1. /\ u * x \in Nat /\ u * z \in Nat /\ y * 1000 \in Nat \ {0} /\ w * 1000 \in Nat \ {0}
      /\ x * w \in Nat /\ z * y \in Nat
    OBVIOUS
<1>2. u * (x * w) <= u * (z * y)
    BY <1>1
<1>3. (u * x) * (w * 1000) = 1000 * (u * (x * w)) /\ (u * z) * (y * 1000) = 1000 * (u * (z * y))
    <2>1. \A a, b, c \in Int : (a * b) * (c * 1000) = 1000 * (a * (b * c))
        OBVIOUS
    <2> QED
        BY <2>1
<1>4. (u * x) * (w * 1000) <= (u * z) * (y * 1000)
    <2>1. u * (x * w) \in Int /\ u * (z * y) \in Int
        BY <1>1
    <2> QED
        BY <1>2, <1>3, <2>1
<1>5. (u * x) \div (y * 1000) <= (u * z) \div (w * 1000) /\ (u * x) \div (y * 1000) \in Nat
    <2> DEFINE i == u * x
               j == y * 1000
               k == u * z
               l == w * 1000
    <2>1. i \in Nat /\ k \in Nat /\ j \in Nat \ {0} /\ l \in Nat \ {0} /\ i * l <= k * j
        BY <1>1, <1>4
    <2> HIDE DEF i, j, k, l
    <2>2. i \div j <= k \div l /\ i \div j \in Nat
        BY <2>1, QuotientsInOrder
    <2> QED
        BY <2>2 DEF i, j, k, l
<1> QED
    BY <1>5 DEF Lamports

LEMMA AnswersInOrder ==
    ASSUME NEW s \in Seq(Nat)
    PROVE  /\ \A k \in Question : Answer(k, s) \in Nat
           /\ Answer("low", s) <= Answer("medium", s)
           /\ Answer("medium", s) <= Answer("high", s)
           /\ Answer("economy", s) <= Answer("standard", s)
           /\ Answer("standard", s) <= Answer("fast", s)
           /\ Answer("estimate", s) = Answer("medium", s) + 5000
<1>1. PICK a \in Nat, b \in Nat, t \in Nat, n \in Nat \ {0} :
          /\ NetworkFees(s) = [min |-> <<a, 1>>, avg |-> <<t, n>>, max |-> <<b, 1>>]
          /\ n * a <= t /\ t <= n * b
    BY SampleFees
<1> DEFINE c == (b * 12) \div 10
<1>2. c \in Nat /\ b <= c
    OBVIOUS
<1>3. /\ Answer("low", s) = Lamports(ComputeUnits, <<a, 1>>)
      /\ Answer("medium", s) = Lamports(ComputeUnits, <<t, n>>)
      /\ Answer("high", s) = Lamports(ComputeUnits, <<c, 1>>)
      /\ Answer("estimate", s) = 5000 + Lamports(ComputeUnits, <<t, n>>)
      /\ Answer("economy", s) = 5000 + Lamports(200, <<t * 1, n * 2>>)
      /\ Answer("standard", s) = 5000 + Lamports(200, <<t * 1, n * 1>>)
      /\ Answer("fast", s) = 5000 + Lamports(200, <<t * 3, n * 2>>)
    BY <1>1 DEF Answer, Priority, Estimate, Recommended, Times
<1> HIDE DEF c
<1>4. ComputeUnits \in Nat /\ 200 \in Nat
    BY FeesAssumption
<1>5. /\ Lamports(ComputeUnits, <<a, 1>>) <= Lamports(ComputeUnits, <<t, n>>)
      /\ Lamports(ComputeUnits, <<a, 1>>) \in Nat
    <2> DEFINE w == 1
    <2>1. a * n <= t * w /\ w \in Nat \ {0}
        BY <1>1
    <2> HIDE DEF w
    <2>2. /\ Lamports(ComputeUnits, <<a, w>>) <= Lamports(ComputeUnits, <<t, n>>)
          /\ Lamports(ComputeUnits, <<a, w>>) \in Nat
        BY <1>1, <1>4, <2>1, LamportsInOrder
    <2> QED
        BY <2>2 DEF w
<1>6. /\ Lamports(ComputeUnits, <<t, n>>) <= Lamports(ComputeUnits, <<c, 1>>)
      /\ Lamports(ComputeUnits, <<t, n>>) \in Nat
    <2>1. n * b <= n * c /\ n * b \in Int /\ n * c \in Int
        BY <1>1, <1>2
    <2> DEFINE w == 1
    <2>2. t * w <= c * n /\ w \in Nat \ {0}
        <3>1. n * c = c * n /\ t * 1 = t
            BY <1>1, <1>2
        <3> QED
            BY <1>1, <2>1, <3>1
    <2> HIDE DEF w
    <2>3. /\ Lamports(ComputeUnits, <<t, n>>) <= Lamports(ComputeUnits, <<c, w>>)
          /\ Lamports(ComputeUnits, <<t, n>>) \in Nat
        BY <1>1, <1>2, <1>4, <2>2, LamportsInOrder
    <2> QED
        BY <2>3 DEF w
<1>7. Lamports(ComputeUnits, <<c, 1>>) \in Nat
    <2>1. c * 1 <= c * 1
        BY <1>2
    <2> QED
        BY <1>2, <1>4, <2>1, LamportsInOrder
<1>8. /\ t * 1 \in Nat /\ t * 3 \in Nat /\ n * 1 \in Nat \ {0} /\ n * 2 \in Nat \ {0}
      /\ (t * 1) * (n * 1) <= (t * 1) * (n * 2)
      /\ (t * 1) * (n * 2) <= (t * 3) * (n * 1)
      /\ (t * 3) * (n * 2) <= (t * 3) * (n * 2)
    <2>1. t * n \in Nat
        BY <1>1
    <2>2. /\ (t * 1) * (n * 1) = t * n /\ (t * 1) * (n * 2) = 2 * (t * n)
          /\ (t * 3) * (n * 1) = 3 * (t * n) /\ (t * 3) * (n * 2) = 6 * (t * n)
        BY <1>1
    <2>3. t * 1 \in Nat /\ t * 3 \in Nat /\ n * 1 \in Nat \ {0} /\ n * 2 \in Nat \ {0}
        BY <1>1
    <2> QED
        BY <2>1, <2>2, <2>3
<1> DEFINE e == Lamports(200, <<t * 1, n * 2>>)
           d == Lamports(200, <<t * 1, n * 1>>)
           f == Lamports(200, <<t * 3, n * 2>>)
<1>9. e <= d /\ e \in Nat
    BY <1>4, <1>8, LamportsInOrder
<1>10. d <= f /\ d \in Nat
    BY <1>4, <1>8, LamportsInOrder
<1>11. f \in Nat
    BY <1>4, <1>8, LamportsInOrder
<1> HIDE DEF e, d, f
<1>12. /\ Answer("economy", s) = 5000 + e /\ Answer("standard", s) = 5000 + d
       /\ Answer("fast", s) = 5000 + f
    BY <1>3 DEF e, d, f
<1> DEFINE x == Lamports(ComputeUnits, <<a, 1>>)
           y == Lamports(ComputeUnits, <<t, n>>)
           z == Lamports(ComputeUnits, <<c, 1>>)
<1>13. /\ x \in Nat /\ y \in Nat /\ z \in Nat /\ x <= y /\ y <= z
       /\ Answer("low", s) = x /\ Answer("medium", s) = y /\ Answer("high", s) = z
       /\ Answer("estimate", s) = 5000 + y
    BY <1>3, <1>5, <1>6, <1>7
<1> HIDE DEF x, y, z
<1>14. \A k \in Question : Answer(k, s) \in Nat
    BY <1>9, <1>10, <1>11, <1>12, <1>13 DEF Question
<1> QED
    BY <1>9, <1>10, <1>11, <1>12, <1>13, <1>14

\* Every quote is the answer to its question for its sample.
FeesInv ==
    /\ network \in Samples
    /\ \A q \in quotes : /\ q.of \in Question /\ q.sample \in Samples
                         /\ q.fee = Answer(q.of, q.sample)

\* The functions of utils/feeEstimation.ts: whatever the network says, and whatever is asked
\* in between, more urgency never costs less of the same sample.
THEOREM FeesAreInOrder == FeesSpec => [](FeesTypeOK /\ FeesAreOrdered)
<1>1. FeesInit => FeesInv
    BY DEF FeesInit, FeesInv
<1>2. FeesInv /\ [FeesNext]_feesVars => FeesInv'
    <2> SUFFICES ASSUME FeesInv, FeesNext \/ UNCHANGED feesVars PROVE FeesInv'
        OBVIOUS
    <2>1. CASE UNCHANGED feesVars
        BY <2>1 DEF FeesInv, feesVars
    <2>2. CASE NetworkChanges
        BY <2>2 DEF FeesInv, NetworkChanges
    <2>3. ASSUME NEW k \in Question, AskFee(k) PROVE FeesInv'
        <3> DEFINE q == [of |-> k, sample |-> network, fee |-> Answer(k, network)]
        <3>1. quotes' = quotes \cup {q} /\ network' = network
            BY <2>3 DEF AskFee
        <3>2. q.of \in Question /\ q.sample \in Samples /\ q.fee = Answer(q.of, q.sample)
            BY DEF FeesInv
        <3> HIDE DEF q
        <3> QED
            BY <3>1, <3>2 DEF FeesInv
    <2> QED
        BY <2>1, <2>2, <2>3 DEF FeesNext
<1>3. FeesInv => FeesTypeOK
    BY AnswersInOrder, FeesAssumption DEF FeesInv, FeesTypeOK
<1>4. FeesInv => FeesAreOrdered
    <2> SUFFICES ASSUME FeesInv, NEW q \in quotes, NEW r \in quotes, q.sample = r.sample
                 PROVE  /\ <<q.of, r.of>> \in {<<"low", "medium">>, <<"medium", "high">>,
                                              <<"economy", "standard">>, <<"standard", "fast">>}
                              => q.fee <= r.fee
                        /\ <<q.of, r.of>> = <<"medium", "estimate">> => r.fee = q.fee + 5000
        BY DEF FeesAreOrdered
    <2>1. /\ q.fee = Answer(q.of, q.sample) /\ r.fee = Answer(r.of, q.sample)
          /\ q.sample \in Seq(Nat)
        BY FeesAssumption DEF FeesInv
    <2> QED
        BY <2>1, AnswersInOrder
<1> QED
    BY <1>1, <1>2, <1>3, <1>4, PTL DEF FeesSpec

-----------------------------------------------------------------------------
(***************************************************************************)
(* The parts side by side: a behaviour of all of them is one of each, so   *)
(* every theorem above is about it too, and so are the types of each.      *)
(***************************************************************************)

\* What a step of the collection keeps beside DocsInv and PagingInv: no document is of the
\* future, and the reader saw what is there.
LEMMA CollectionNext_Types ==
    ASSUME DocsInv, PagingInv, CollectionTypeOK, CollectionNext \/ UNCHANGED collectionVars
    PROVE  CollectionTypeOK'
<1>1. doc' \in [Docs -> Document] /\ Stored \subseteq Stored'
    BY OrdersStay
<1>2. clock' \in 0 .. MaxTime /\ clock' \in {clock, clock + 1}
    <2>1. clock' = clock \/ (clock < MaxTime /\ clock' = clock + 1)
        BY DEF CollectionNext, collectionVars, Tick, CreateDoc, SaveDoc, ReadDoc, AskOrders, NextPage
    <2>2. clock \in 0 .. MaxTime
        BY DEF CollectionTypeOK
    <2> QED
        BY <2>1, <2>2, CollectionAssumption
<1>3. ASSUME NEW o \in Docs PROVE {doc'[o].createdAt, doc'[o].updatedAt} \subseteq 0 .. clock'
    <2>1. {doc[o].createdAt, doc[o].updatedAt, clock} \subseteq 0 .. clock'
        BY <1>2 DEF CollectionTypeOK
    <2>2. CASE doc' = doc
        BY <2>1, <2>2
    <2>3. ASSUME NEW p \in Docs, CreateDoc(p)
          PROVE  {doc'[o].createdAt, doc'[o].updatedAt} \subseteq 0 .. clock'
        <3> DEFINE s == Store!InitialStatus(p)
                   d == [status |-> s, history |-> <<s, s>>, createdAt |-> clock, updatedAt |-> clock]
        <3>1. doc' = [doc EXCEPT ![p] = d] /\ d.createdAt = clock /\ d.updatedAt = clock
            BY <2>3, CreatedDocument
        <3> HIDE DEF d
        <3> QED
            BY <2>1, <3>1 DEF DocsInv
    <2>4. ASSUME NEW u \in Updaters, SaveDoc(u)
          PROVE  {doc'[o].createdAt, doc'[o].updatedAt} \subseteq 0 .. clock'
        <3>1. PICK d \in Document :
                 LET c == updater[u] IN
                 /\ doc' = [doc EXCEPT ![c.order] = d]
                 /\ d.createdAt = doc[c.order].createdAt
                 /\ d.updatedAt \in {doc[c.order].updatedAt, clock}
            BY <2>4, SavedDocument
        <3>2. doc'[o] = doc[o] \/ (doc'[o] = d /\ o = updater[u].order)
            BY <3>1 DEF DocsInv
        <3> QED
            BY <2>1, <3>1, <3>2
    <2>5. \/ doc' = doc
          \/ \E p \in Docs : CreateDoc(p)
          \/ \E u \in Updaters : SaveDoc(u)
        BY DEF CollectionNext, collectionVars, Tick, ReadDoc, AskOrders, NextPage
    <2> QED
        BY <2>2, <2>3, <2>4, <2>5
<1>4. ASSUME NEW u \in Updaters
      PROVE  /\ updater'[u].pc \in {"idle", "save", "done"}
             /\ updater'[u].pc = "save" => updater'[u].order \in Stored'
             /\ updater'[u].copy \in Store!OrderStatus
    <2>1. updater'[u] = updater[u] \/ updater'[u] = NoCopy("done")
          \/ \E o \in Stored, t \in UpdateTargets : updater'[u] =
                [pc |-> "save", order |-> o, copy |-> doc[o].status, target |-> t]
        BY DEF DocsInv, CollectionNext, collectionVars, Tick, CreateDoc, SaveDoc, ReadDoc, AskOrders, NextPage
    <2>2. CASE updater'[u] = updater[u]
        BY <1>1, <2>2 DEF CollectionTypeOK
    <2>3. CASE updater'[u] = NoCopy("done")
        BY <2>3 DEF NoCopy, Store!OrderStatus
    <2>4. CASE \E o \in Stored, t \in UpdateTargets : updater'[u] =
                  [pc |-> "save", order |-> o, copy |-> doc[o].status, target |-> t]
        BY <1>1, <2>4 DEF DocsInv, Stored, Document
    <2> QED
        BY <2>1, <2>2, <2>3, <2>4
<1>5. client'.expected \cup client'.seen \subseteq Stored'
    <2>1. CASE client' = client
        BY <1>1, <2>1 DEF CollectionTypeOK
    <2>2. ASSUME NEW size \in PageSizes, AskOrders(size)
          PROVE  client'.expected \cup client'.seen \subseteq Stored'
        BY <1>1, <2>2 DEF AskOrders
    <2>3. CASE NextPage
        <3>1. PICK l \in Listings : \E pc : client' = [client EXCEPT
                 !.pc = pc, !.skip = @ + client.size,
                 !.seen = @ \cup Page(l, client.skip, client.size)]
            BY <2>3 DEF NextPage
        <3>2. client'.expected = client.expected
              /\ client'.seen = client.seen \cup Page(l, client.skip, client.size)
            BY <3>1 DEF PagingInv, Reader
        <3>3. Page(l, client.skip, client.size) \subseteq Stored
            BY PageOfListing DEF PagingInv, Reader
        <3> QED
            BY <1>1, <3>2, <3>3 DEF CollectionTypeOK
    <2>4. \/ client' = client
          \/ \E size \in PageSizes : AskOrders(size)
          \/ NextPage
        BY DEF CollectionNext, collectionVars, Tick, CreateDoc, SaveDoc, ReadDoc
    <2> QED
        BY <2>1, <2>2, <2>3, <2>4
<1>6. client'.pc \in {"idle", "paging", "done"}
    BY PagingNext DEF PagingInv, Reader
<1> QED
    BY <1>1, <1>2, <1>3, <1>4, <1>5, <1>6 DEF CollectionTypeOK, Document

LEMMA Sides ==
    /\ Init => /\ HubInit /\ HealthInit /\ RequestsInit /\ CollectionInit /\ ServerInit
               /\ ConfirmationInit /\ SetupInit /\ FeesInit
    /\ [Next]_allVars =>
          /\ [HubNext]_hubVars /\ [HealthNext]_healthVars /\ [RequestsNext]_requestVars
          /\ [CollectionNext]_collectionVars /\ [ServerNext]_serverVars
          /\ [ConfirmationNext]_confirmationVars /\ [SetupNext]_setupVars /\ [FeesNext]_feesVars
BY DEF Init, Next, allVars

\* What is proved of a part by itself holds where all of them are checked together.
LEMMA SideBySide ==
    Spec => /\ HubSpec /\ HealthSpec /\ RequestsSpec /\ CollectionSpec /\ ServerSpec
            /\ ConfirmationSpec /\ SetupSpec /\ FeesSpec
BY Sides, PTL DEF Spec, HubSpec, HealthSpec, RequestsSpec, CollectionSpec, ServerSpec,
                  ConfirmationSpec, SetupSpec, FeesSpec

LEMMA HealthTypes == HealthSpec => []HealthTypeOK
<1>1. HealthInit => backlog \in Backlogs
    BY DEF HealthInit
<1>2. backlog \in Backlogs /\ [HealthNext]_healthVars => (backlog \in Backlogs)'
    BY DEF HealthNext, healthVars, StartProbe, StartMetrics, ProbeStep, RedisReply, CountReply,
           SolanaReply, ChecksDone, MetricsReply, MoveJob, RedisChanges
<1>3. HealthInv /\ backlog \in Backlogs => HealthTypeOK
    <2>1. Len(Counts) + 1 = 6
        BY DEF Counts
    <2> QED
        BY <2>1 DEF HealthInv, HealthTypeOK, ProbeState, Codes, Verdict, Waiting
<1> QED
    BY HealthInit_Inv, HealthNext_Inv, <1>1, <1>2, <1>3, PTL DEF HealthSpec

LEMMA RequestsTypes == RequestsSpec => []RequestsTypeOK
<1>1. HandlersInv /\ RushInv => RequestsTypeOK
    BY DEF HandlersInv, HandlerOK, Handler, Answers, DocumentOK, Passes, RushInv, RushTypeOK, RequestsTypeOK
<1>2. RequestsInit => HandlersInv /\ RushInv
    BY HandlersInit, RushInit
<1>3. HandlersInv /\ RushInv /\ [RequestsNext]_requestVars => HandlersInv' /\ RushInv'
    BY HandlersNext, RushNext
<1> QED
    BY <1>1, <1>2, <1>3, PTL DEF RequestsSpec

LEMMA CollectionTypes == CollectionSpec => []CollectionTypeOK
<1>1. CollectionInit => DocsInv /\ PagingInv
    BY DocsInit, PagingInit
<1>2. CollectionInit => CollectionTypeOK
    <2> SUFFICES ASSUME CollectionInit PROVE CollectionTypeOK
        OBVIOUS
    <2>1. clock = 0 /\ 0 \in 0 .. MaxTime /\ 0 \in 0 .. 0
        BY CollectionAssumption DEF CollectionInit
    <2>2. \A o \in Docs : /\ doc[o].status = Store!NoDoc /\ doc[o].history = <<>>
                          /\ doc[o].createdAt = 0 /\ doc[o].updatedAt = 0
        BY DEF CollectionInit
    <2>3. \A u \in Updaters : updater[u].pc = "idle" /\ updater[u].copy \in Store!OrderStatus
        BY DEF CollectionInit, NoCopy, Store!OrderStatus
    <2>4. client.pc = "idle" /\ client.expected \cup client.seen = {}
        BY DEF CollectionInit
    <2>5. <<>> \in Seq(Store!OrderStatus)
        OBVIOUS
    <2> QED
        BY <2>1, <2>2, <2>3, <2>4, <2>5 DEF CollectionTypeOK
<1>3. DocsInv /\ PagingInv /\ CollectionTypeOK /\ [CollectionNext]_collectionVars
        => DocsInv' /\ PagingInv' /\ CollectionTypeOK'
    BY DocsNext, PagingNext, CollectionNext_Types
<1> QED
    BY <1>1, <1>2, <1>3, PTL DEF CollectionSpec

LEMMA OtherTypes ==
    /\ ServerSpec => []ServerTypeOK
    /\ ConfirmationSpec => []ConfirmationTypeOK
    /\ SetupSpec => []SetupTypeOK
    /\ HubSpec => []HubTypeOK
<1>1. ServerInv => ServerTypeOK
    BY DEF ServerInv
<1>2. ConfirmationInv => ConfirmationTypeOK
    BY DEF ConfirmationInv, ConfirmationTypeOK, Poll, Level
<1>3. SetupInv => SetupTypeOK
    BY DEF SetupInv, SetupTypeOK, Setup
<1>4. HubInv => HubTypeOK
    BY DEF HubInv
<1>5. ServerSpec => []ServerTypeOK
    BY ServerInit_Inv, ServerNext_Inv, <1>1, PTL DEF ServerSpec
<1>6. ConfirmationSpec => []ConfirmationTypeOK
    BY ConfirmationInit_Inv, ConfirmationNext_Inv, <1>2, PTL DEF ConfirmationSpec
<1>7. SetupSpec => []SetupTypeOK
    BY SetupInit_Inv, SetupNext_Inv, <1>3, PTL DEF SetupSpec
<1>8. HubSpec => []HubTypeOK
    BY HubInvariant, <1>4, PTL
<1> QED
    BY <1>5, <1>6, <1>7, <1>8

\* What each of these parts keeps in memory, in the database or on the chain has its type,
\* for any clients, orders, requests, jobs, settings and fees.
THEOREM TypesHold == Spec => []TypeOK
<1>1. Init => part \in Part
    BY DEF Init
<1>2. part \in Part /\ [Next]_allVars => (part \in Part)'
    BY DEF Next, allVars
<1>3. FeesSpec => []FeesTypeOK
    BY FeesAreInOrder, PTL
<1>4. ASSUME part \in Part, HubTypeOK, HealthTypeOK, RequestsTypeOK, CollectionTypeOK,
             ServerTypeOK, ConfirmationTypeOK, SetupTypeOK, FeesTypeOK
      PROVE  TypeOK
    BY <1>4 DEF TypeOK
<1>5. Spec => [](part \in Part)
    BY <1>1, <1>2, PTL DEF Spec
<1> QED
    BY SideBySide, HealthTypes, RequestsTypes, CollectionTypes, OtherTypes, <1>3, <1>4, <1>5, PTL
=============================================================================
