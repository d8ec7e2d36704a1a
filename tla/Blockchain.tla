----------------------------- MODULE Blockchain -----------------------------
(***************************************************************************)
(* The ARK contract and the nodes in front of it, as far as dark-core-lib  *)
(* shows them to the minter.  Every authority signs with its own wallet,   *)
(* so its transactions execute in nonce order: a queue per authority.  A   *)
(* create needs a free name, an update needs the signer to own the ARK,    *)
(* and both need the signer to be active and permitted on the NAAN.        *)
(***************************************************************************)
EXTENDS ArkRecord, Sequences

CONSTANTS
    MaxPending,   \* bound on the transactions an authority has in flight
    Revocable,    \* bound: the authorities that may be revoked
    Foreign       \* bound: the ARKs that may be on the chain from the start

ASSUME PendingAssumption ==
    /\ MaxPending \in Nat
    /\ Revocable \subseteq Authority
    /\ Foreign \subseteq Ark

VARIABLES
    chain,        \* the contract's entry of each ARK
    owned,        \* history: the authorities that ever owned the entry of each ARK
    mempool,      \* the transactions of each authority, in nonce order
    authorized    \* authorities that are active and permitted on the NAAN

chainVars == <<chain, owned, mempool, authorized>>

\* cids = None: content that this minter did not write.
Entry == [owner : Authority, target : Target, cids : Payload \cup {None}]

ASSUME EntryAssumption == None \notin Entry

Operation == [ark : Ark, action : {"create", "update"},
              target : Target, cids : Payload]

ChainTypeOK ==
    /\ chain \in [Ark -> Entry \cup {None}]
    /\ owned \in [Ark -> SUBSET Authority]
    /\ mempool \in [Authority -> Seq(Operation)]
    /\ authorized \subseteq Authority

\* An ARK is unknown to the contract, or another application created it.
ChainInit ==
    /\ chain \in [Ark -> {None} \cup
                         [owner : Authority, target : Target, cids : {None}]]
    /\ \A a \in Ark \ Foreign : chain[a] = None
    /\ owned = [a \in Ark |-> {w \in Authority : chain[a] # None /\ chain[a].owner = w}]
    /\ mempool = [w \in Authority |-> <<>>]
    /\ authorized = Authority

----------------------------------------------------------------------------
\* What the contract requires of an operation signed by authority w.
Accepts(w, op) ==
    /\ w \in authorized
    /\ IF op.action = "create"
       THEN chain[op.ark] = None
       ELSE chain[op.ark] # None /\ chain[op.ark].owner = w

\* The next transaction of w is mined: it takes effect or reverts.
Execute(w) ==
    /\ mempool[w] # <<>>
    /\ mempool' = [mempool EXCEPT ![w] = Tail(@)]
    /\ LET op == Head(mempool[w])
       IN  IF Accepts(w, op)
           THEN /\ chain' = [chain EXCEPT ![op.ark] =
                            [owner |-> w, target |-> op.target, cids |-> op.cids]]
                /\ owned' = [owned EXCEPT ![op.ark] = @ \cup {w}]
           ELSE UNCHANGED <<chain, owned>>
    /\ UNCHANGED authorized

\* The registry administration moves an ARK to another authority.
TransferOwner(a, w) ==
    /\ chain[a] # None
    /\ chain[a].owner # w
    /\ chain' = [chain EXCEPT ![a].owner = w]
    /\ owned' = [owned EXCEPT ![a] = @ \cup {w}]
    /\ UNCHANGED <<mempool, authorized>>

Revoke(w) ==
    /\ w \in authorized \cap Revocable
    /\ authorized' = authorized \ {w}
    /\ UNCHANGED <<chain, owned, mempool>>

Grant(w) ==
    /\ w \notin authorized
    /\ authorized' = authorized \cup {w}
    /\ UNCHANGED <<chain, owned, mempool>>

----------------------------------------------------------------------------
\* get_ark: the contract holds exactly this target and level 1 CID.
ChainMatches(a, target, cids) ==
    chain[a] # None /\ chain[a].target = target /\ chain[a].cids = cids

=============================================================================
