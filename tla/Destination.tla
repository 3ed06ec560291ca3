---------------------------- MODULE Destination ----------------------------
(***************************************************************************)
(* Several operators and one destination chain.  Each operator batches     *)
(* what is ready at its own ticks and asks its sidecar to sign the root    *)
(* under the epoch its sidecar suggests (operator/src/signer); a quorum    *)
(* of operators asking for the same root under the same epoch is an        *)
(* aggregated proof.  On the destination SymbioticLayerZeroDVN checks the  *)
(* proof, caches the root and passes each leaf on to the receive library;  *)
(* SymbioticVerifier checks a message of its own when the off-ramp         *)
(* executes it.  Time matters: both accept an epoch for a while only.      *)
(***************************************************************************)
EXTENDS MerkleTree

CONSTANTS
  Operators,
  Quorum,        \* operators whose voting power is a quorum
  Messages,      \* numbered as their leaf hashes are
  Providers,     \* subset of {"layerzero", "ccv"}
  MinBatch,      \* signer.min_batch_size
  Submitters,    \* accounts the owner may authorise
  Refusals,      \* sets of leaves the receive library may revert on
  BatchLimit,    \* MAX_BATCH_SIZE
  MaxValidity,   \* MAX_EPOCH_VALIDITY, maxEpochValidity: at most the slashing window
  MaxTime,       \* bound on the clock
  MaxEpoch,      \* bound on the epochs committed
  MaxLeaves      \* sizes of tree the properties look at

ASSUME DestinationConstants ==
  /\ Messages \subseteq Nat \ {0} /\ IsFiniteSet(Messages) /\ IsFiniteSet(Operators)
  /\ Providers \subseteq {"layerzero", "ccv"}
  /\ Refusals \subseteq SUBSET Messages /\ Refusals # {}
  /\ Quorum \in Nat \ {0} /\ MinBatch \in Nat /\ BatchLimit \in Nat \ {0}
  /\ MaxValidity \in Nat \ {0}
  /\ MaxTime \in Nat /\ MaxEpoch \in Nat \ {0} /\ MaxLeaves \in Nat

VARIABLES
  provider,    \* which provider the operators run
  refused,     \* leaves the receive library reverts on
  ready,       \* messages each operator has accepted and not batched
  trees,       \* batches each operator has saved a tree for
  asked,       \* requests each operator has made, one per root
  now,         \* block.timestamp of the destination chain
  capture,     \* capture timestamp of each committed epoch
  halted,      \* the DVN is paused, or the RMN curses the source chain
  authorized,  \* authorizedSubmitters
  roots,       \* verifiedRoots
  verified,    \* verifiedLeaves
  received,    \* deliveries of each message: to the library, by the off-ramp
  validity,    \* s_epochValidity
  minEpoch     \* s_minAcceptedEpoch

fixedVars    == <<provider, refused>>
operatorVars == <<ready, trees, asked>>
clockVars    == <<now, capture>>
accessVars   == <<halted, authorized>>
leafVars     == <<verified, received>>
ownerVars    == <<validity, minEpoch>>
vars == <<fixedVars, operatorVars, clockVars, accessVars, roots, leafVars, ownerVars>>

Epochs   == 1..Len(capture)
Batches  == (SUBSET Messages) \ {{}}
Requests == [batch : Batches, epoch : Nat]
RootOf   == [b \in Batches |-> Root(b)]

(* The deployment leaves the submitters of the DVN to its owner.           *)
Init ==
  /\ provider \in Providers
  /\ refused \in IF provider = "layerzero" THEN Refusals ELSE {{}}
  /\ ready = [o \in Operators |-> {}]
  /\ trees = [o \in Operators |-> {}]
  /\ asked = [o \in Operators |-> {}]
  /\ now = 1 /\ capture = <<1>>
  /\ halted = FALSE /\ authorized = {}
  /\ roots = {} /\ verified = {}
  /\ received = [m \in Messages |-> 0]
  /\ validity \in 1..MaxValidity /\ minEpoch = 0

-----------------------------------------------------------------------------
(* The operators.                                                          *)

(* The hooks of operator o let m through (modelled in Signer).             *)
Accept(o, m) ==
  /\ m \notin ready[o] \cup UNION trees[o]
  /\ ready' = [ready EXCEPT ![o] = @ \cup {m}]
  /\ UNCHANGED <<fixedVars, trees, asked, clockVars, accessVars, roots, leafVars, ownerVars>>

(* Fault: every provider takes the whole batch.                            *)
ChunksWhole(batch) == {batch}

(* max_batch_size: the CCV verifier attests to one message at a time.      *)
Chunks(batch) == IF provider = "ccv" THEN {{m} : m \in batch} ELSE {batch}

(* A tick of the message loop.                                             *)
Batch(o) ==
  /\ ready[o] # {} /\ Cardinality(ready[o]) >= MinBatch
  /\ trees' = [trees EXCEPT ![o] = @ \cup Chunks(ready[o])]
  /\ ready' = [ready EXCEPT ![o] = {}]
  /\ UNCHANGED <<fixedVars, asked, clockVars, accessVars, roots, leafVars, ownerVars>>

(* get_committed_epoch: the last epoch committed on every chain.           *)
Suggested == {Len(capture)}

(* sign_message, once for each root: its request id is kept until the      *)
(* proof arrives.                                                          *)
Ask(o, b) ==
  /\ b \in trees[o]
  /\ \A q \in asked[o] : q.batch # b
  /\ \E e \in Suggested :
       asked' = [asked EXCEPT ![o] = @ \cup {[batch |-> b, epoch |-> e]}]
  /\ UNCHANGED <<fixedVars, ready, trees, clockVars, accessVars, roots, leafVars, ownerVars>>

(* The relay network has a proof for a root under an epoch.  The digest    *)
(* of a CCV message stands for the root of its one leaf.                   *)
Attested(root, e) ==
  Cardinality({o \in Operators :
    \E q \in asked[o] : q.epoch = e /\ RootOf[q.batch] = root}) >= Quorum

-----------------------------------------------------------------------------
(* Epochs and time.                                                        *)

Tick ==
  /\ now < MaxTime
  /\ now' = now + 1
  /\ UNCHANGED <<fixedVars, operatorVars, capture, accessVars, roots, leafVars, ownerVars>>

CommitEpoch ==
  /\ Len(capture) < MaxEpoch
  /\ capture' = Append(capture, now)
  /\ UNCHANGED <<fixedVars, operatorVars, now, accessVars, roots, leafVars, ownerVars>>

-----------------------------------------------------------------------------
(* SymbioticLayerZeroDVN.  A transaction that reverts changes nothing.     *)

Open(s) == provider = "layerzero" /\ ~halted /\ s \in authorized

(* _validateEpoch: the last second of the window is inside it.             *)
FreshEpoch(e) == e \in Epochs /\ now <= capture[e] + MaxValidity

(* Fault: the age of the epoch is not looked at.                           *)
CachesAnyAge(root, e) ==
  /\ root \in roots \/ (e \in Epochs /\ Attested(root, e))
  /\ roots' = roots \cup {root}

(* _cacheRootIfNeeded: a cached root needs no signature.                   *)
CachesRoot(root, e) ==
  /\ root \in roots \/ (FreshEpoch(e) /\ Attested(root, e))
  /\ roots' = roots \cup {root}

(* One entry of a submission: the leaf it is about, and the leaf and tree  *)
(* its siblings were generated for.                                        *)
Entry(b) == [leaf : Messages, siblingsOf : b]

(* Fault: AlreadyVerified is not looked at.                                *)
AcceptsLeafAgain(b, entry) ==
  /\ Proves(Proof(b, entry.siblingsOf).siblings, entry.leaf, RootOf[b])
  /\ entry.leaf \notin refused

(* _submitLeafProof: neither verified before, nor refused by the library.  *)
AcceptsLeaf(b, entry) ==
  /\ entry.leaf \notin verified
  /\ Proves(Proof(b, entry.siblingsOf).siblings, entry.leaf, RootOf[b])
  /\ entry.leaf \notin refused

Deliver(leaves) ==
  /\ verified' = verified \cup leaves
  /\ received' = [m \in Messages |-> IF m \in leaves THEN received[m] + 1 ELSE received[m]]

SubmitProof(s, b, e, entry) ==
  /\ Open(s)
  /\ CachesRoot(RootOf[b], e)
  /\ AcceptsLeaf(b, entry)
  /\ Deliver({entry.leaf})
  /\ UNCHANGED <<fixedVars, operatorVars, clockVars, accessVars, ownerVars>>

(* Fault: an entry that fails is left out instead of reverting the batch,  *)
(* after its leaf was marked.                                              *)
SubmitProofBatchSkips(s, b, e, entries) ==
  /\ Open(s)
  /\ entries # {} /\ Cardinality(entries) <= BatchLimit
  /\ CachesRoot(RootOf[b], e)
  /\ verified' = verified \cup {x.leaf : x \in entries}
  /\ LET good == {x.leaf : x \in {y \in entries : AcceptsLeaf(b, y)}}
     IN  received' = [m \in Messages |->
                        IF m \in good THEN received[m] + 1 ELSE received[m]]
  /\ UNCHANGED <<fixedVars, operatorVars, clockVars, accessVars, ownerVars>>

(* submitProofBatch: the entries are about different leaves, or the second *)
(* of two finds its leaf verified.                                         *)
SubmitProofBatch(s, b, e, entries) ==
  /\ Open(s)
  /\ entries # {} /\ Cardinality(entries) <= BatchLimit
  /\ CachesRoot(RootOf[b], e)
  /\ \A x \in entries : AcceptsLeaf(b, x)
  /\ \A x, y \in entries : x.leaf = y.leaf => x = y
  /\ Deliver({x.leaf : x \in entries})
  /\ UNCHANGED <<fixedVars, operatorVars, clockVars, accessVars, ownerVars>>

(* cacheMerkleRoot: the root alone.                                        *)
CacheMerkleRoot(s, b, e) ==
  /\ Open(s)
  /\ CachesRoot(RootOf[b], e)
  /\ UNCHANGED <<fixedVars, operatorVars, clockVars, accessVars, leafVars, ownerVars>>

-----------------------------------------------------------------------------
(* SymbioticVerifier, asked by the off-ramp, which executes a message once.*)

(* Fault: the proof of another message of the operator will do.            *)
ExecuteAny(m, e) ==
  /\ provider = "ccv" /\ ~halted
  /\ received[m] = 0
  /\ e \in Epochs /\ e >= minEpoch /\ now <= capture[e] + validity
  /\ \E n \in Messages : Attested(RootOf[{n}], e)
  /\ Deliver({m})
  /\ UNCHANGED <<fixedVars, operatorVars, clockVars, accessVars, roots, ownerVars>>

(* verifyMessage, with the proof an operator serves for the message.       *)
Execute(m, e) ==
  /\ provider = "ccv" /\ ~halted
  /\ received[m] = 0
  /\ e \in Epochs /\ e >= minEpoch /\ now <= capture[e] + validity
  /\ Attested(RootOf[{m}], e)
  /\ Deliver({m})
  /\ UNCHANGED <<fixedVars, operatorVars, clockVars, accessVars, roots, ownerVars>>

SetEpochValidity(v) ==
  /\ provider = "ccv"
  /\ v > 0 /\ v <= MaxValidity
  /\ validity' = v
  /\ UNCHANGED <<fixedVars, operatorVars, clockVars, accessVars, roots, leafVars, minEpoch>>

(* setMinAcceptedEpoch takes any epoch, lower ones and future ones too.    *)
SetMinAcceptedEpoch(e) ==
  /\ provider = "ccv"
  /\ minEpoch' = e
  /\ UNCHANGED <<fixedVars, operatorVars, clockVars, accessVars, roots, leafVars, validity>>

-----------------------------------------------------------------------------
(* The owner of the DVN, and the RMN.                                      *)

AddSubmitter(s) ==
  /\ provider = "layerzero" /\ s \notin authorized
  /\ authorized' = authorized \cup {s}
  /\ UNCHANGED <<fixedVars, operatorVars, clockVars, halted, roots, leafVars, ownerVars>>

RemoveSubmitter(s) ==
  /\ provider = "layerzero" /\ s \in authorized
  /\ authorized' = authorized \ {s}
  /\ UNCHANGED <<fixedVars, operatorVars, clockVars, halted, roots, leafVars, ownerVars>>

(* pause and unpause; curse and its end.                                   *)
Halt ==
  /\ halted' = ~halted
  /\ UNCHANGED <<fixedVars, operatorVars, clockVars, authorized, roots, leafVars, ownerVars>>

AllTrees == UNION {trees[o] : o \in Operators}

Contract ==
  \/ \E s \in Submitters, e \in Epochs : \E b \in AllTrees :
       \/ \E entry \in Entry(b) : SubmitProof(s, b, e, entry)
       \/ \E entries \in SUBSET Entry(b) : SubmitProofBatch(s, b, e, entries)
       \/ CacheMerkleRoot(s, b, e)
  \/ \E m \in Messages, e \in Epochs : Execute(m, e)

Owner ==
  \/ \E v \in 0..(MaxValidity + 1) : SetEpochValidity(v)
  \/ \E e \in 0..(MaxEpoch + 1) : SetMinAcceptedEpoch(e)
  \/ \E s \in Submitters : AddSubmitter(s) \/ RemoveSubmitter(s)
  \/ Halt

Next ==
  \/ \E o \in Operators :
       \/ \E m \in Messages : Accept(o, m)
       \/ Batch(o)
       \/ \E b \in Batches : Ask(o, b)
  \/ Tick \/ CommitEpoch
  \/ Contract
  \/ Owner

Spec == Init /\ [][Next]_vars

(* The message loop and the sync loop come round again, whatever failed.   *)
Fairness ==
  \A o \in Operators : WF_vars(Batch(o)) /\ \A b \in Batches : WF_vars(Ask(o, b))

FairSpec == Spec /\ Fairness

-----------------------------------------------------------------------------
(* Properties.                                                             *)

(* What the library or the application receives is a message of a batch    *)
(* that a quorum of operators asked for under one epoch, whichever way the *)
(* siblings, trees and epochs of different operators were combined in the  *)
(* submission (submitProof, submitProofBatch, verifyMessage).              *)
ReceivedIsAttested ==
  \A m \in Messages : received[m] > 0 =>
    \E b \in AllTrees, e \in Epochs : m \in b /\ Attested(RootOf[b], e)

(* Trees, caches, windows and submissions, taken away, leave a bridge on   *)
(* which a message is received once at most, and only when a quorum of     *)
(* operators had accepted it and vouched for one batch under one epoch:    *)
(* roots stand for their batches, a cached one for the quorum it once had  *)
(* (submitProof, submitProofBatch, verifyMessage, sign_message).           *)
Promise == INSTANCE Bridge WITH
  accepted <- [o \in Operators |-> ready[o] \cup UNION trees[o]],
  vouched <- asked,
  Quorums <- {Q \in SUBSET Operators : Cardinality(Q) >= Quorum},
  Epochs <- 1..MaxEpoch

BridgeSpec == Promise!Spec

(* A leaf is marked verified exactly when the library has it, and it has   *)
(* it once, through single submissions, batches with several leaves or the *)
(* same leaf twice, and leaves the library refuses (submitProofBatch).     *)
VerifiedIsReceivedOnce ==
  \A m \in Messages : received[m] = IF m \in verified THEN 1 ELSE 0

(* Every leaf of a tree of any size is proved by the siblings generated    *)
(* for it and by those of no other leaf, and they prove no leaf outside    *)
(* the tree; its path tells its place, and trees of different leaves have  *)
(* different roots: what generate_proof pads, merkle_root pads             *)
(* (merkle_root, generate_proof, verify_proof).                            *)
TreeAgrees(S) ==
  /\ \A k \in S, l \in Messages \cup 1..MaxLeaves :
       Proves(Proof(S, k).siblings, l, Root(S)) <=> k = l
  /\ \A k, l \in S : Proof(S, k).path = Proof(S, l).path <=> k = l
  /\ \A T \in Batches \cup ({S \ {l} : l \in S} \ {{}}) : Root(T) = Root(S) => T = S

SmallTreesAgree == \A n \in 1..MaxLeaves : TreeAgrees(1..n)
TreeProofsAgree == SmallTreesAgree /\ \A b \in AllTrees : TreeAgrees(b)

(* A root is only cached, and a message only executed, on a quorum of an   *)
(* epoch captured within the slashing window and not yet revoked, whatever *)
(* the owner has set the window to meanwhile (_validateEpoch of both       *)
(* contracts, setEpochValidity, setMinAcceptedEpoch).                      *)
Timely(e) == now <= capture[e] + MaxValidity
AcceptedInTime ==
  [][/\ \A r \in roots' \ roots : \E e \in Epochs : Timely(e) /\ Attested(r, e)
     /\ provider = "ccv" => \A m \in Messages : received'[m] > received[m] =>
          \E e \in Epochs : e >= minEpoch /\ Timely(e) /\ Attested(RootOf[{m}], e)]_vars

(* Messages that every operator accepts get their quorum in the end, unless*)
(* two operators asked at different epochs or, for LayerZero, had different*)
(* messages in the batch: one message to a batch, they cannot miss each    *)
(* other by their ticks (max_batch_size, process_messages).                *)
AcceptedByAll(m) == \A o \in Operators : m \in ready[o] \cup UNION trees[o]
Missed(m) ==
  \E o, p \in Operators : \E q \in asked[o], r \in asked[p] :
    /\ m \in q.batch \cap r.batch /\ q # r
    /\ provider = "ccv" => q.batch = r.batch
Reached(m) ==
  \E b \in AllTrees, e \in Epochs : m \in b /\ Attested(RootOf[b], e)
AcceptedReachQuorum ==
  \A m \in Messages : AcceptedByAll(m) ~> (Reached(m) \/ Missed(m))
=============================================================================
