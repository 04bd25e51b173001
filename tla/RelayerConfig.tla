---------------------------- MODULE RelayerConfig ----------------------------
(***************************************************************************)
(* The relayer service's configuration (contracts/scripts/service/config.ts,  *)
(* networks.ts): what an environment is refused for, all problems together,   *)
(* and what the accepted one means.  A variable is Blank (unset, empty or only *)
(* spaces), Malformed (refused by its rule), or its value.                    *)
(***************************************************************************)
EXTENDS Integers

CONSTANTS Blank, Malformed, DEFAULT_CHAIN_LENGTH

DevSeed == "rushood-dev-seed"

(* An entry of the network book exists if and only if its deployment has been  *)
(* published: book is [chainId, rpcUrl, gameAddress] of the one network, or    *)
(* Blank.                                                                    *)
InBook(env, book) == env.network # Blank /\ env.network # Malformed /\ book # Blank

optionalNumber(raw, fallback) == IF raw \in {Blank, Malformed} THEN fallback ELSE raw

(* The environment wins over the systemd credential.                          *)
withCredentialSeed(env) ==
  IF env.seed # Blank THEN env.seed
  ELSE IF env.credential = Malformed THEN Blank ELSE env.credential

(* An explicit variable wins over the book.                                   *)
rpcUrl(env, book) ==
  IF env.rpcUrl = Blank /\ InBook(env, book) THEN book.rpcUrl ELSE env.rpcUrl
gameAddress(env, book) ==
  IF env.gameAddress = Blank /\ InBook(env, book) THEN book.gameAddress ELSE env.gameAddress
chainLength(env) == optionalNumber(env.chainLength, DEFAULT_CHAIN_LENGTH)
rotationMargin(env) == optionalNumber(env.rotationMargin, 4)
ethWarn(env) == optionalNumber(env.ethWarn, 10)
ethPage(env) == optionalNumber(env.ethPage, 1)

(* The seed is trimmed: padding around the dev seed does not hide it.           *)
trimmed_Not(seed) == seed
trimmed(seed) == IF seed = Blank THEN Blank ELSE [seed EXCEPT !.padded = FALSE]

problems(env, book) ==
  LET seed == trimmed(withCredentialSeed(env)) IN
  {p \in {"network", "rpcUrl", "gameAddress", "privateKey", "seed", "rotationMargin", "ethPage",
          "alertUrl", "numbers"} :
     CASE p = "network" -> env.network # Blank /\ ~InBook(env, book)
       [] p = "rpcUrl" -> rpcUrl(env, book) = Blank
       [] p = "gameAddress" -> gameAddress(env, book) \in {Blank, Malformed}
       [] p = "privateKey" -> env.privateKey \in {Blank, Malformed}
       [] p = "seed" -> seed = Blank \/ seed = [text |-> DevSeed, padded |-> FALSE]
       [] p = "rotationMargin" -> rotationMargin(env) >= chainLength(env)
       [] p = "ethPage" -> ethPage(env) > ethWarn(env)
       [] p = "alertUrl" -> env.alertUrl # Blank /\ env.alertUrl = env.healthcheckUrl
       [] p = "numbers" -> Malformed \in {env.chainLength, env.rotationMargin, env.ethWarn,
                                           env.ethPage}}

(* The accepted configuration.  Which chain is expected follows the name.       *)
config(env, book) ==
  [rpcUrl |-> rpcUrl(env, book), gameAddress |-> gameAddress(env, book),
   expectedChainId |-> IF env.network = Blank THEN Blank ELSE book.chainId,
   masterSeed |-> trimmed(withCredentialSeed(env)),
   chainLength |-> chainLength(env), rotationMargin |-> rotationMargin(env),
   pingUrl |-> env.healthcheckUrl, alertUrl |-> env.alertUrl]

assertExpectedChain(conf, actual) ==
  conf.expectedChainId = Blank \/ actual = conf.expectedChainId
==============================================================================
