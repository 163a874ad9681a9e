----------------------------- MODULE AtomicStore -----------------------------
(***************************************************************************)
(* What a journalled file system promises its caller: `store` is the       *)
(* contents a power loss leaves behind.  A transaction that is in flight   *)
(* takes effect at one instant or not at all, and before it is answered    *)
(* "ok" it has taken effect.  Nothing else changes the store.              *)
(***************************************************************************)
EXTENDS Naturals, Sequences

CONSTANTS
    Blocks,      \* the blocks of the store
    Initial      \* the contents every block has at the start

VARIABLES
    store,       \* [Blocks -> contents]
    inflight,    \* the records of the transaction in flight, <<>> if none
    reply        \* the answer to the last call, "none" while one is running

asVars == <<store, inflight, reply>>

Effect(s, records) ==
    [b \in Blocks |->
        IF \E i \in DOMAIN records : records[i].target = b
        THEN records[CHOOSE i \in DOMAIN records : records[i].target = b].contents
        ELSE s[b]]

AInit == store = [b \in Blocks |-> Initial] /\ inflight = <<>> /\ reply = "none"

Begin == /\ inflight = <<>> /\ inflight' # <<>>
         /\ reply' = "none" /\ UNCHANGED store

TakeEffect == /\ inflight # <<>>
              /\ store' = Effect(store, inflight)
              /\ UNCHANGED <<inflight, reply>>

Acknowledge == /\ inflight # <<>> /\ inflight' = <<>>
               /\ store = Effect(store, inflight)
               /\ reply' = "ok" /\ UNCHANGED store

\* A power loss, or an answer other than "ok": the transaction is forgotten,
\* whether or not it has taken effect.
Forget == /\ inflight' = <<>> /\ UNCHANGED store
          /\ reply' = "ok" => inflight = <<>>

ANext == Begin \/ TakeEffect \/ Acknowledge \/ Forget

ASpec == AInit /\ [][ANext]_asVars
==============================================================================
