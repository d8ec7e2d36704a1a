---------------------------- MODULE ArkLifecycle ----------------------------
(***************************************************************************)
(* What the minter promises of an ARK to whoever reads it: which document, *)
(* of which authority, it stands for, and how that changes.  There are no  *)
(* workers, locks, stages, replicas or transactions here.  Content that    *)
(* was submitted is published as it is or not at all, a tombstone is for   *)
(* ever, and only a change of the authority starts an ARK anew.            *)
(***************************************************************************)
CONSTANTS
    Ark, Authority, Target, Payload,
    Offers,   \* the submissions: ARK, authority, target, content
    None      \* no ARK, no target, no content

VARIABLE doc   \* what each ARK stands for

Waiting == {"D", "U"}

Written(state, w, target, content) ==
    [state |-> state, authority |-> w, target |-> target, content |-> content]

Unknown == Written("unknown", None, None, None)

Init == doc = [a \in Ark |-> Unknown]

Become(a, document) == doc' = [doc EXCEPT ![a] = document]

Reserve(a, w) ==
    /\ doc[a] = Unknown
    /\ Become(a, Written("R", w, None, None))

\* A reserved ARK becomes a draft, a published one an update.
Submit(a, target, content) ==
    /\ doc[a].state \in {"R", "P"}
    /\ <<a, doc[a].authority, target, content>> \in Offers
    /\ Become(a, Written(IF doc[a].state = "R" THEN "D" ELSE "U",
                         doc[a].authority, target, content))

Publish(a) ==
    /\ doc[a].state \in Waiting
    /\ Become(a, Written("P", doc[a].authority, doc[a].target, doc[a].content))

Remove(a) ==
    /\ doc[a].state \in {"R", "P"} \cup Waiting
    /\ Become(a, Written("T", doc[a].authority, doc[a].target, doc[a].content))

\* An authority that the minter did not know to own the ARK submits content for
\* it, or removes it; what its predecessor had submitted is gone.
Arrive(a, w) ==
    /\ doc[a].authority # w
    /\ \/ \E target \in Target, content \in Payload :
            /\ <<a, w, target, content>> \in Offers
            /\ Become(a, Written("U", w, target, content))
       \/ /\ doc[a] # Unknown
          /\ \E target \in Target : Become(a, Written("T", w, target, None))

\* Every step is one that a reader sees.
Next ==
    \E a \in Ark :
      /\ doc'[a] # doc[a]
      /\ \/ Publish(a) \/ Remove(a)
         \/ \E w \in Authority : Reserve(a, w) \/ Arrive(a, w)
         \/ \E target \in Target, content \in Payload : Submit(a, target, content)

Spec == Init /\ [][Next]_doc

=============================================================================
