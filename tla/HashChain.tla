------------------------------ MODULE HashChain ------------------------------
(***************************************************************************)
(* The relayer's reveal chains (lib/hashchain.ts, lib/relayer-core.ts) and   *)
(* the search for the chain the on-chain head belongs to (service/loop.ts).  *)
(* JavaScript arrays are functions from 0; a node is a bytes32 value.        *)
(***************************************************************************)
EXTENDS Integers, FiniteSetsExt

CONSTANTS
  chainLength,     \* RELAYER_CHAIN_LENGTH
  rotationMargin,  \* RELAYER_ROTATION_MARGIN
  MAX_EPOCH_SCAN,  \* epochs resolveEpoch looks at
  SeedNode(_),     \* keccak256(`${masterSeed}:${epoch}`, chainLength - 1)
  hash             \* keccak256 restricted to the nodes that have a preimage

(* loadRelayerConfig and buildHashChain refuse anything else.                *)
ASSUME ChainAssumption ==
  /\ chainLength \in Nat /\ chainLength >= 2
  /\ rotationMargin \in Nat /\ rotationMargin < chainLength
  /\ MAX_EPOCH_SCAN \in Nat

(* nodes[i] = keccak256(nodes[i + 1]): the last node is drawn first.         *)
buildHashChain(last, length) ==
  LET nodes[i \in 0..(length - 1)] ==
        IF i = length - 1 THEN last ELSE hash[nodes[i + 1]]
  IN nodes

epochChain(epoch) == buildHashChain(SeedNode(epoch), chainLength)

(* chain.indexOf(head) + 1: the 1-based index of the next reveal, 0 off chain. *)
roundForHead(chain, head) ==
  LET at == {i \in 0..(chainLength - 1) : chain[i] = head}
  IN IF at = {} THEN 0 ELSE Min(at) + 1

shouldRotate_PastMargin(chain, head) ==
  roundForHead(chain, head) > chainLength - rotationMargin
shouldRotate(chain, head) ==
  LET round == roundForHead(chain, head)
  IN round > 0 /\ round >= chainLength - rotationMargin

OnChain(epoch, head) == roundForHead(epochChain(epoch), head) # 0

(* The first epoch within the scan whose chain holds the head: a singleton,   *)
(* or empty where the code throws.                                           *)
resolveEpoch(head) ==
  LET on == {e \in 0..(MAX_EPOCH_SCAN - 1) : OnChain(e, head)}
  IN IF on = {} THEN {} ELSE {Min(on)}

(* The epoch a pass works in: the current one while the head is still on its  *)
(* chain, otherwise re-derived from the head.                                *)
EpochFor_Remembered(epoch, head) == IF OnChain(epoch, head) THEN {epoch} ELSE {}
EpochFor(epoch, head) ==
  IF OnChain(epoch, head) THEN {epoch} ELSE resolveEpoch(head)

(* What rotating from an epoch commits to: the next epoch's genesis node.     *)
RotationTarget_SameEpoch(epoch) == epochChain(epoch)[0]
RotationTarget(epoch) == epochChain(epoch + 1)[0]
==============================================================================
