----------------------------- MODULE MCRequests -----------------------------
(***************************************************************************)
(* What stands between a request and its answer besides the state: the     *)
(* load shedder in front of the API, and the contracts that a chain builds *)
(* into its EVM.  They share no state; each behaviour exercises the one    *)
(* that part names, the others stay in one of their initial states.        *)
(***************************************************************************)
EXTENDS Interceptor, StablecoinDex, MonadStaking, Tip20,
        FeeAmm, ChannelReserve, AccountKeychain, QuoteTokens,
        ExpiringNonces, ValidatorConfig, Retryables

CONSTANTS h1, h2, h3, h4, k1, k2, k3, a1, a2, a3, i1, i2, i3

VARIABLE part

tempoVars == <<dexVars, tipVars, ammVars, chanVars, keychainVars, quoteVars,
               nonceVars, registryVars>>
requestVars == <<part, shedVars, stakingVars, retryVars, tempoVars>>

Thresholds == <<1, 2, 3>>
MCTicks == {0, 1}
MCValidBefore == (h1 :> 2) @@ (h2 :> 2) @@ (h3 :> 3) @@ (h4 :> 4)

\* Registries to migrate: a plain one, and one with a duplicate key, an
\* inactive entry and one that is not valid.
V1(k, a, ip, active, valid) ==
    [key |-> k, addr |-> a, ingress |-> ip, active |-> active, valid |-> valid]
MCV1Lists ==
    {<<V1(k1, a1, i1, TRUE, TRUE), V1(k2, a2, i2, TRUE, TRUE)>>,
     <<V1(k2, a1, i1, TRUE, TRUE), V1(k2, a2, i1, FALSE, TRUE),
       V1(k1, a1, i2, TRUE, FALSE)>>}
Plain == CHOOSE l \in MCV1Lists : Len(l) = 2

RequestsInit ==
    /\ part \in {"shed", "dex", "staking", "tip20", "amm", "channels",
                "keychain", "quotes", "nonces", "validators", "retryables"}
    /\ ShedInit
    /\ DexInit
    /\ StakingInit
    /\ Tip20Init
    /\ FeeAmmInit
    /\ ReserveInit
    /\ KeychainInit
    /\ QuoteInit
    /\ NonceInit
    /\ ValidatorInit
    /\ RetryInit
    /\ part # "keychain" => spec = (CHOOSE s \in Specs : TRUE)
    /\ part # "nonces" => ~grown
    /\ part # "validators" => v1 = Plain
    /\ part # "retryables" => ~arbos60

\* A step of one part.
Step(p) == part = p /\ UNCHANGED part

RequestsNext ==
    \/ /\ Step("shed") /\ ShedNext
       /\ UNCHANGED <<stakingVars, retryVars, tempoVars>>
    \/ /\ Step("dex") /\ DexNext
       /\ UNCHANGED <<tipVars, ammVars, chanVars, keychainVars,
                       quoteVars, nonceVars, registryVars, shedVars, stakingVars,
                       retryVars>>
    \/ /\ Step("staking") /\ StakingNext
       /\ UNCHANGED <<shedVars, retryVars, tempoVars>>
    \/ /\ Step("tip20") /\ Tip20Next
       /\ UNCHANGED <<dexVars, ammVars, chanVars, keychainVars,
                       quoteVars, nonceVars, registryVars, shedVars, stakingVars,
                       retryVars>>
    \/ /\ Step("amm") /\ FeeAmmNext
       /\ UNCHANGED <<dexVars, tipVars, chanVars, keychainVars,
                       quoteVars, nonceVars, registryVars, shedVars, stakingVars,
                       retryVars>>
    \/ /\ Step("channels") /\ ReserveNext
       /\ UNCHANGED <<dexVars, tipVars, ammVars, keychainVars,
                       quoteVars, nonceVars, registryVars, shedVars, stakingVars,
                       retryVars>>
    \/ /\ Step("keychain") /\ KeychainNext
       /\ UNCHANGED <<dexVars, tipVars, ammVars, chanVars, quoteVars,
                       nonceVars, registryVars, shedVars, stakingVars, retryVars>>
    \/ /\ Step("quotes") /\ QuoteNext
       /\ UNCHANGED <<dexVars, tipVars, ammVars, chanVars,
                       keychainVars, nonceVars, registryVars, shedVars,
                       stakingVars, retryVars>>
    \/ /\ Step("nonces") /\ NonceNext
       /\ UNCHANGED <<dexVars, tipVars, ammVars, chanVars,
                       keychainVars, quoteVars, registryVars, shedVars,
                       stakingVars, retryVars>>
    \/ /\ Step("validators") /\ ValidatorNext
       /\ UNCHANGED <<dexVars, tipVars, ammVars, chanVars,
                       keychainVars, quoteVars, nonceVars, shedVars, stakingVars,
                       retryVars>>
    \/ /\ Step("retryables") /\ RetryNext
       /\ UNCHANGED <<shedVars, stakingVars, tempoVars>>

RequestsSpec == RequestsInit /\ [][RequestsNext]_requestVars
=============================================================================
