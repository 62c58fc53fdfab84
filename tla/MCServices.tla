------------------------------ MODULE MCServices ------------------------------
(***************************************************************************)
(* The parts of the server that share no variable with the order engine    *)
(* nor with each other, checked side by side: each behaviour is one of     *)
(* one part, and the others stay in their initial state.  Steps of several *)
(* parts would only be shuffled and show nothing more.                     *)
(***************************************************************************)
EXTENDS WebSocketHub, Health, Requests, OrderCollection, ServerProcess,
        Confirmation, RealModeSetup, Fees

CONSTANTS TextOfZero, TextOfOne, TextOfMinusOne

VARIABLE part   \* the part that moves

allVars == <<part, hubVars, healthVars, requestVars, collectionVars, serverVars,
             confirmationVars, setupVars, feesVars>>

Part == {"hub", "health", "requests", "collection", "server", "confirmation", "setup", "fees"}

-----------------------------------------------------------------------------
\* The constants.

\* The documented members, and the one README.md shows in the general stream.
MCTexts ==
    {[form |-> "type", verb |-> v, order |-> "o1"] : v \in {"subscribe", "unsubscribe"}}
        \cup {[form |-> "action", verb |-> "subscribe", order |-> "o1"]}

\* Only one of two clients sends messages.
MCQuota == [c \in Clients |-> IF c = "c1" THEN 2 ELSE 0]

MCNumerals == {TextOfZero, TextOfOne, TextOfMinusOne}
MCNumeralValue ==
    [t \in MCNumerals |-> CASE t = TextOfZero -> 0 [] t = TextOfOne -> 1 [] t = TextOfMinusOne -> -1]

Odd == {Absent, Null, Text}
OddNumber == Odd \cup MCNumerals

Field == [type |-> OrderType \cup {"absent", "MARKET"},
          pair |-> {"supported", "unsupported", "absent"},
          amount |-> OddNumber \cup {-1, 0, 1}, slippage |-> OddNumber \cup {-1, 0, 1, 100, 101},
          limitPrice |-> OddNumber \cup {-1, 0, 5}, expiresAt |-> Odd \cup {-1, 0, 2, 30, 31}]

Body(type) ==
    [type |-> type, pair |-> "supported", amount |-> 1, slippage |-> 1,
     limitPrice |-> IF type = "limit" THEN 5 ELSE Absent,
     expiresAt |-> IF type = "limit" THEN 2 ELSE Absent]

FieldValue == UNION {{<<f, v>> : v \in Field[f]} : f \in DOMAIN Field}

\* The bodies with at most two odd fields, and none.
MCBodies == {NoBody} \cup {[Body(t) EXCEPT ![x[1]] = x[2], ![y[1]] = y[2]] :
                t \in OrderType, x \in FieldValue, y \in FieldValue}

MCCrowd == {Body("limit"), Body("market")}

Value == [mockMode |-> {TRUE}, key |-> DOMAIN KeyLength, rpcUrl |-> {"own", "malformed"},
    backup |-> {"malformed"}, commitment |-> {"unknown"},
    confirmTimeout |-> {Text, 999, 60001}, maxRetries |-> {Text, 0, 11},
    defaultSlippage |-> {Text, -1, 0, 500, 501},
    variationMin |-> {Text, 50, 60}, variationMax |-> {Text, 20, 201},
    minSol |-> {Text, -1, 0, 5, 10}, computeUnitPrice |-> {Text, -1, 0},
    computeUnitLimit |-> {Text, 999, 1400001}, maxConcurrent |-> {Text, 0, 1, 101},
    ordersPerMinute |-> {Text, 0, 1001}, maxRetryAttempts |-> {Text, -1, 0, 11},
    mongoUri |-> {"other"}, redisPort |-> {Text, 0, 1, 65536}]

\* One setting is unusual, or the key, the least balance and another one.
OneSetting ==
    {[Environment EXCEPT ![x[1]] = x[2]] :
        x \in UNION {{<<f, v>> : v \in Value[f]} : f \in DOMAIN Value}}

MCEnvironments ==
    OneSetting \cup {[env EXCEPT !.key = k, !.minSol = m] :
        env \in OneSetting, k \in {"base64", "bs58", "garbage"}, m \in Value["minSol"]}

MCSamples == {<<>>, <<0, 0, 7>>, <<5000, 5000>>, <<1, 9999>>}

-----------------------------------------------------------------------------

Init ==
    /\ part \in Part
    /\ HubInit /\ (part # "hub" => socketGiven)
    /\ HealthInit /\ (part # "health" => ~realMode /\ backlog = 4) /\ (realMode => backlog = 4)
    /\ RequestsInit
    /\ CollectionInit
    /\ ServerInit
    /\ ConfirmationInit /\ (part # "confirmation" => ~fails)
    /\ SetupInit /\ (part # "setup" => settings = Parsed(Environment) /\ wallet = 0)
    /\ FeesInit /\ (part # "fees" => network = <<>>)

Next ==
    \/ /\ part = "hub" /\ HubNext
       /\ UNCHANGED <<part, healthVars, requestVars, collectionVars, serverVars,
                       confirmationVars, setupVars, feesVars>>
    \/ /\ part = "health" /\ HealthNext
       /\ UNCHANGED <<part, hubVars, requestVars, collectionVars, serverVars,
                       confirmationVars, setupVars, feesVars>>
    \/ /\ part = "requests" /\ RequestsNext
       /\ UNCHANGED <<part, hubVars, healthVars, collectionVars, serverVars,
                       confirmationVars, setupVars, feesVars>>
    \/ /\ part = "collection" /\ CollectionNext
       /\ UNCHANGED <<part, hubVars, healthVars, requestVars, serverVars,
                       confirmationVars, setupVars, feesVars>>
    \/ /\ part = "server" /\ ServerNext
       /\ UNCHANGED <<part, hubVars, healthVars, requestVars, collectionVars,
                       confirmationVars, setupVars, feesVars>>
    \/ /\ part = "confirmation" /\ ConfirmationNext
       /\ UNCHANGED <<part, hubVars, healthVars, requestVars, collectionVars,
                       serverVars, setupVars, feesVars>>
    \/ /\ part = "setup" /\ SetupNext
       /\ UNCHANGED <<part, hubVars, healthVars, requestVars, collectionVars,
                       serverVars, confirmationVars, feesVars>>
    \/ /\ part = "fees" /\ FeesNext
       /\ UNCHANGED <<part, hubVars, healthVars, requestVars, collectionVars,
                       serverVars, confirmationVars, setupVars>>

Spec == Init /\ [][Next]_allVars /\ HubFairness /\ HealthFairness /\ ServerFairness
-----------------------------------------------------------------------------

\* The values of all variables are of their types; what does not move is looked at once.
TypeOK ==
    /\ part \in Part
    /\ part \in {"hub", "fees"} => HubTypeOK
    /\ part \in {"health", "fees"} => HealthTypeOK
    /\ part \in {"requests", "fees"} => RequestsTypeOK
    /\ part \in {"collection", "fees"} => CollectionTypeOK
    /\ part \in {"server", "fees"} => ServerTypeOK
    /\ part \in {"confirmation", "fees"} => ConfirmationTypeOK
    /\ part \in {"setup", "fees"} => SetupTypeOK
    /\ part = "fees" => FeesTypeOK
=============================================================================
